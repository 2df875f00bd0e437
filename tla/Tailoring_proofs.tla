-------------------------- MODULE Tailoring_proofs --------------------------
(***************************************************************************)
(* Proofs about Tailoring, for any bases, sessions, slow requests and      *)
(* bounds.  However the requests overlap, a base resume has one open       *)
(* analysis, what a session tailored is what it reviewed, a draft is in    *)
(* its history, and the quick tailor leaves the user's work alone.  When   *)
(* an application is left alone while it is rendered, a named PDF shows    *)
(* the draft.                                                              *)
(***************************************************************************)
EXTENDS Tailoring, WellFoundedInduction, TLAPS

NoRender == "render" \notin Windows

Look == [kind : {"look"}, base : Bases, rev : Revs, quick : BOOLEAN, found : SUBSET Sessions]
Create == [kind : {"create"}, session : Sessions, quick : BOOLEAN, found : SUBSET Sessions,
           row : Session]
Save == [kind : {"save"}, session : Sessions]
Fills == [kind : {"fill"}, session : Sessions, worked : BOOLEAN, found : SUBSET Sessions]
Filling == [kind : {"filled"}, session : Sessions]
Close == [kind : {"close"}, session : Sessions]
Tailor == [kind : {"tailor"}, session : Sessions, draft : Draft]
Render == [kind : {"render"}, app : Apps, draft : Draft, fills : BOOLEAN, locks : BOOLEAN,
           hadPdf : BOOLEAN, compiled : BOOLEAN]
Request ==
  {Idle} \cup Look \cup Create \cup Save \cup Close \cup Fills \cup Filling \cup Tailor \cup Render

Typed ==
  /\ TypeOK
  /\ versions \in [Apps -> Seq(Draft)]
  /\ requests \in [Requests -> Request]

-----------------------------------------------------------------------------
(* The inductive invariant *)

Made(s) == sessions[s].status # "none"

(* A create that holds the lock has a free session.                        *)
ReadyToOpen(q) ==
  /\ ~Made(q.session)
  /\ q.row.status = "open" /\ q.row.base \in Bases /\ ~q.row.worked

(* What the quick tailor found was not of the base it was asked for.       *)
PassesBy(q, b) == \A s \in q.found : Made(s) /\ (q.quick => sessions[s].base # b)

(* A fill that found the user's answers writes them again.                 *)
FillsAround(q) ==
  /\ \A s \in q.found : Made(s)
  /\ q.session \in q.found => q.worked

(* A draft of a session's was made from what the session reviewed.         *)
Reviewed(d) ==
  d.session # None =>
    /\ Made(d.session)
    /\ d.base = sessions[d.session].base /\ d.rev = sessions[d.session].rev

Good(q) ==
  /\ q \in Request
  /\ q.kind = "look" => PassesBy(q, q.base)
  /\ q.kind = "create" => ReadyToOpen(q) /\ PassesBy(q, q.row.base)
  /\ q.kind = "fill" => FillsAround(q)
  /\ q.kind \in {"tailor", "render"} => Reviewed(q.draft)
  /\ q.kind \in {"save", "close", "fill", "filled", "tailor"} => Made(q.session)

HeldAlone == \A r, q \in Requests : r # q => ~(Holds(r) /\ Holds(q))

GoodRequests ==
  /\ requests \in [Requests -> Request]
  /\ \A r \in Requests : Good(requests[r])
  /\ HeldAlone

GoodSessions ==
  /\ sessions \in [Sessions -> Session]
  /\ \A s \in Sessions : Made(s) => sessions[s].base \in Bases
  /\ OneOpenSession

GoodApps ==
  /\ apps \in [Apps -> Application]
  /\ versions \in [Apps -> Seq(Draft)]
  /\ \A a \in Apps : Live(a) => apps[a].base \in Bases
  /\ \A a \in Apps : \A n \in DOMAIN versions[a] : Reviewed(versions[a][n])
  /\ \A a \in Apps : apps[a].draft # NoDraft => Reviewed(apps[a].draft)
  /\ DraftIsVersioned

GoodFiles == file \in [Apps -> Draft \cup {NoDraft}] /\ doomed \in SUBSET Apps

IInv == content \in [Bases -> Revs] /\ GoodRequests /\ GoodSessions /\ GoodApps /\ GoodFiles

(* With "render" closed, a render has in hand what its application has.    *)
Accurate(q) ==
  /\ Live(q.app)
  /\ q.fills => apps[q.app].draft = NoDraft /\ q.locks
  /\ ~q.fills => apps[q.app].draft = q.draft
  /\ q.compiled => file[q.app] = q.draft
Shown ==
  /\ PdfShowsDraft
  /\ \A a \in Apps : Live(a) /\ apps[a].draft = NoDraft => ~apps[a].pdf
  /\ \A a \in doomed : ~apps[a].pdf /\ ~Rendering(a)
  /\ \A r \in Requests : Is(r, "render") => Accurate(requests[r])

-----------------------------------------------------------------------------
(* Rows, drafts and numbers *)

LEMMA Constants ==
  /\ MaxApps \in Nat /\ MaxEdits \in Nat
  /\ None \notin Bases /\ None \notin Sessions
BY TailoringConstants

LEMMA DraftIsNot == \A d \in Draft : d # NoDraft
BY Constants DEF Draft, NoDraft

LEMMA Copies ==
  ASSUME content \in [Bases -> Revs], NEW b \in Bases
  PROVE  CopyOf(b) \in Draft /\ CopyOf(b).session = None
BY Constants DEF CopyOf, Draft

(* What a request of each kind is.                                         *)
LEMMA Kinds ==
  ASSUME NEW q \in Request
  PROVE  /\ q.kind = "look" => /\ q \in Look /\ q.base \in Bases /\ q.rev \in Revs
                               /\ q.quick \in BOOLEAN /\ q.found \in SUBSET Sessions
         /\ q.kind = "create" => /\ q \in Create /\ q.session \in Sessions /\ q.row \in Session
                                 /\ q.quick \in BOOLEAN /\ q.found \in SUBSET Sessions
         /\ q.kind = "save" => q \in Save /\ q.session \in Sessions
         /\ q.kind = "fill" => /\ q \in Fills /\ q.session \in Sessions /\ q.worked \in BOOLEAN
                               /\ q.found \in SUBSET Sessions
         /\ q.kind = "filled" => q \in Filling /\ q.session \in Sessions
         /\ q.kind = "close" => q \in Close /\ q.session \in Sessions
         /\ q.kind = "tailor" => q \in Tailor /\ q.session \in Sessions /\ q.draft \in Draft
         /\ q.kind = "render" => /\ q \in Render /\ q.app \in Apps /\ q.draft \in Draft
                                 /\ q.fills \in BOOLEAN /\ q.locks \in BOOLEAN
                                 /\ q.hadPdf \in BOOLEAN /\ q.compiled \in BOOLEAN
BY DEF Request, Look, Create, Save, Close, Fills, Filling, Tailor, Render, Idle

(* Some numbers have a least one.                                          *)
LEMMA LeastOf == ASSUME NEW S \in SUBSET Nat, S # {} PROVE \E x \in S : \A y \in S : x <= y
<1> DEFINE R == OpToRel(<, Nat)
<1>1. IsWellFoundedOn(R, Nat) BY NatLessThanWellFounded
<1> HIDE DEF R
<1>2. PICK x \in S : \A y \in S : ~ (<<y, x>> \in R) BY <1>1, WFMin
<1>3. \A y \in S : x <= y
  <2> TAKE y \in S
  <2>1. y < x => <<y, x>> \in R BY DEF R, OpToRel
  <2> QED BY <1>2, <2>1
<1> QED BY <1>3

LEMMA MinIn == ASSUME NEW S \in SUBSET Nat, S # {} PROVE Min(S) \in S
BY LeastOf DEF Min

(* The largest of some bounded numbers is the one with the least to go.    *)
LEMMA MaxIn == ASSUME NEW n \in Nat, NEW S \in SUBSET (1..n), S # {} PROVE Max(S) \in S
<1> DEFINE T == {n - x : x \in S}
<1>1. PICK z \in S : TRUE
  OBVIOUS
<1>2. n - z \in T /\ \A t \in T : t \in Nat
  OBVIOUS
<1>3. T \in SUBSET Nat /\ T # {}
  BY <1>2
<1>4. PICK t \in T : \A y \in T : t <= y
  BY <1>3, LeastOf
<1>5. PICK x \in S : t = n - x
  BY <1>4
<1>6. ASSUME NEW y \in S PROVE x >= y
  <2>1. t <= n - y BY <1>4
  <2> QED BY <1>5, <2>1
<1> QED BY <1>6 DEF Max

LEMMA ForJobIn == \A a \in ForJob : a \in Apps
<1>1. \A S \in SUBSET Apps : S # {} => Min(S) \in Apps /\ Max(S) \in Apps
  <2> TAKE S \in SUBSET Apps
  <2>1. S \in SUBSET Nat BY DEF Apps
  <2> QED BY <2>1, MinIn, MaxIn, Constants DEF Apps
<1>2. LiveApps \in SUBSET Apps /\ {a \in Apps : apps[a].state = "none"} \in SUBSET Apps
  BY DEF LiveApps
<1> QED BY <1>1, <1>2 DEF ForJob

-----------------------------------------------------------------------------
(* What every step keeps of the parts *)

(* An analysis that was made stays made, of the base and text it was of.   *)
SessionsStep ==
  \A s \in Sessions : Made(s) =>
    /\ sessions'[s].status # "none"
    /\ sessions'[s].base = sessions[s].base /\ sessions'[s].rev = sessions[s].rev

TakesLock(q) == q.kind = "create" \/ (q.kind = "render" /\ q.locks)

LEMMA SameSessions == sessions' = sessions => SessionsStep
BY DEF SessionsStep, Made

LEMMA ReviewedStays ==
  ASSUME SessionsStep, NEW d, Reviewed(d), d.session \in Sessions \cup {None}
  PROVE  Reviewed(d)'
BY DEF Reviewed, SessionsStep, Made

LEMMA DraftSessions == \A d \in Draft : d.session \in Sessions \cup {None}
BY DEF Draft

LEMMA GoodStays ==
  ASSUME SessionsStep, NEW q \in Request, Good(q),
         q.kind = "create" => UNCHANGED <<content, sessions>>
  PROVE  Good(q)'
<1>1. q.kind = "create" => ReadyToOpen(q)'
  BY DEF Good, ReadyToOpen, Made
<1>2. q.kind \in {"tailor", "render"} => Reviewed(q.draft)'
  BY Kinds, DraftSessions, ReviewedStays DEF Good
<1>3. q.kind \in {"save", "close", "fill", "filled", "tailor"} => Made(q.session)'
  BY Kinds DEF Good, SessionsStep, Made
<1>4. ASSUME NEW b, PassesBy(q, b), q.kind \in {"look", "create"} PROVE PassesBy(q, b)'
  BY <1>4, Kinds DEF PassesBy, SessionsStep, Made
<1>5. q.kind = "fill" => FillsAround(q)'
  BY Kinds DEF Good, FillsAround, SessionsStep, Made
<1> QED
  BY <1>1, <1>2, <1>3, <1>4, <1>5 DEF Good

(* A request begins, goes on or ends.                                      *)
LEMMA RequestMoves ==
  ASSUME GoodRequests, SessionsStep, NEW r \in Requests, NEW q,
         requests' = [requests EXCEPT ![r] = q], Good(q)',
         TakesLock(q) => Holds(r) \/ MayWrite(r),
         UNCHANGED <<content, sessions>> \/ MayWrite(r)
  PROVE  GoodRequests'
<1>1. requests' \in [Requests -> Request]
  BY DEF GoodRequests, Good
<1>2. ASSUME NEW o \in Requests PROVE Good(requests[o])'
  <2>1. CASE o = r
    <3>1. requests'[o] = q
      BY <2>1 DEF GoodRequests
    <3> QED BY <3>1
  <2>2. CASE o # r
    <3>1. requests'[o] = requests[o] /\ requests[o] \in Request /\ Good(requests[o])
      BY <2>2 DEF GoodRequests
    <3>2. requests[o].kind = "create" => UNCHANGED <<content, sessions>>
      BY <2>2 DEF MayWrite, Holds, Is
    <3>3. ASSUME NEW p, p = requests[o] PROVE Good(p)'
      BY <3>1, <3>2, <3>3, GoodStays
    <3> QED BY <3>1, <3>3
  <2> QED BY <2>1, <2>2
<1>3. HeldAlone'
  <2>1. \A o \in Requests : o # r => requests'[o] = requests[o]
    BY DEF GoodRequests
  <2>2. requests'[r] = q
    BY DEF GoodRequests
  <2> QED
    BY <2>1, <2>2 DEF GoodRequests, HeldAlone, Holds, Is, TakesLock, MayWrite
<1> QED
  BY <1>1, <1>2, <1>3 DEF GoodRequests

LEMMA IdleIsGood == Good(Idle) /\ Good(Idle)' /\ ~TakesLock(Idle)
BY DEF Good, Idle, Request, TakesLock

LEMMA RequestEnds ==
  ASSUME GoodRequests, SessionsStep, NEW r \in Requests, Finish(r),
         UNCHANGED <<content, sessions>> \/ MayWrite(r)
  PROVE  GoodRequests'
BY IdleIsGood, RequestMoves DEF Finish

LEMMA RequestsStay ==
  ASSUME GoodRequests, SessionsStep, UNCHANGED requests,
         UNCHANGED <<content, sessions>> \/ Unlocked
  PROVE  GoodRequests'
<1>1. ASSUME NEW o \in Requests PROVE Good(requests[o])'
  <2>1. requests'[o] = requests[o] /\ requests[o] \in Request /\ Good(requests[o])
    BY DEF GoodRequests
  <2>2. requests[o].kind = "create" => UNCHANGED <<content, sessions>>
    BY DEF Unlocked, Holds, Is
  <2>3. ASSUME NEW p, p = requests[o] PROVE Good(p)'
    BY <2>1, <2>2, <2>3, GoodStays
  <2> QED BY <2>1, <2>3
<1>2. HeldAlone' /\ requests' \in [Requests -> Request]
  BY DEF GoodRequests, HeldAlone, Holds, Is
<1> QED
  BY <1>1, <1>2 DEF GoodRequests

LEMMA SessionsStay == GoodSessions /\ UNCHANGED sessions => GoodSessions'
BY DEF GoodSessions, Made, OneOpenSession, OpenOf, IsOpen

LEMMA FilesStay == GoodFiles /\ UNCHANGED <<file, doomed>> => GoodFiles'
BY DEF GoodFiles

LEMMA VersionsOf ==
  ASSUME GoodApps, NEW a \in Apps, NEW n \in DOMAIN versions[a]
  PROVE  versions[a][n] \in Draft
BY DEF GoodApps

LEMMA AppsStay ==
  ASSUME GoodApps, SessionsStep, UNCHANGED <<apps, versions>>
  PROVE  GoodApps'
<1>1. ASSUME NEW a \in Apps, NEW n \in DOMAIN versions[a] PROVE Reviewed(versions[a][n])'
  <2>1. Reviewed(versions[a][n]) /\ versions[a][n] \in Draft /\ versions' = versions
    BY VersionsOf DEF GoodApps
  <2>2. ASSUME NEW d, d = versions[a][n] PROVE Reviewed(d)'
    BY <2>1, <2>2, DraftSessions, ReviewedStays
  <2> QED BY <2>1, <2>2
<1>2. ASSUME NEW a \in Apps, apps[a].draft # NoDraft PROVE Reviewed(apps[a].draft)'
  <2>1. Reviewed(apps[a].draft) /\ apps[a].draft \in Draft /\ apps' = apps
    BY <1>2 DEF GoodApps, Application
  <2>2. ASSUME NEW d, d = apps[a].draft PROVE Reviewed(d)'
    BY <2>1, <2>2, DraftSessions, ReviewedStays
  <2> QED BY <2>1, <2>2
<1> QED
  BY <1>1, <1>2 DEF GoodApps, Live, DraftIsVersioned

(* A draft is stored with its snapshot.                                    *)
LEMMA RecordedIs ==
  ASSUME GoodApps, NEW a \in Apps, NEW d \in Draft
  PROVE  /\ Recorded(a, d) \in Seq(Draft) /\ Recorded(a, d) # <<>>
         /\ Last(Recorded(a, d)) = d
         /\ \A n \in DOMAIN Recorded(a, d) :
              Recorded(a, d)[n] = d \/ (n \in DOMAIN versions[a] /\ Recorded(a, d)[n] = versions[a][n])
<1> DEFINE v == versions[a]
<1>1. v \in Seq(Draft)
  BY DEF GoodApps
<1>2. CASE v # <<>> /\ Last(v) = d
  BY <1>1, <1>2 DEF Recorded
<1>3. CASE ~(v # <<>> /\ Last(v) = d)
  <2>1. Recorded(a, d) = Append(v, d)
    BY <1>3 DEF Recorded
  <2> QED
    BY <1>1, <2>1 DEF Last
<1> QED
  BY <1>2, <1>3

(* One application and its history change.                                 *)
LEMMA AppChanges ==
  ASSUME GoodApps, SessionsStep, NEW a \in Apps, NEW row \in Application,
         NEW history \in Seq(Draft),
         apps' = [apps EXCEPT ![a] = row], versions' = [versions EXCEPT ![a] = history],
         row.state = "live" => row.base \in Bases,
         \A n \in DOMAIN history : Reviewed(history[n])',
         row.draft # NoDraft => Reviewed(row.draft)',
         row.state = "live" /\ row.draft # NoDraft => history # <<>> /\ Last(history) = row.draft
  PROVE  GoodApps'
<1>1. apps' \in [Apps -> Application] /\ versions' \in [Apps -> Seq(Draft)]
  BY DEF GoodApps
<1>2. apps'[a] = row /\ versions'[a] = history
  BY DEF GoodApps
<1>3. \A b \in Apps : b # a => apps'[b] = apps[b] /\ versions'[b] = versions[b]
  BY DEF GoodApps
<1>4. ASSUME NEW b \in Apps, NEW n \in DOMAIN versions'[b] PROVE Reviewed(versions[b][n])'
  <2>1. CASE b = a
    BY <1>2, <2>1
  <2>2. CASE b # a
    <3>1. versions'[b] = versions[b] /\ n \in DOMAIN versions[b]
      BY <1>3, <2>2
    <3>2. Reviewed(versions[b][n]) /\ versions[b][n] \in Draft
      BY <3>1, VersionsOf DEF GoodApps
    <3>3. ASSUME NEW d, d = versions[b][n] PROVE Reviewed(d)'
      BY <3>2, <3>3, DraftSessions, ReviewedStays
    <3> QED BY <3>1, <3>3
  <2> QED BY <2>1, <2>2
<1>5. ASSUME NEW b \in Apps, apps'[b].draft # NoDraft PROVE Reviewed(apps[b].draft)'
  <2>1. CASE b = a
    BY <1>2, <1>5, <2>1
  <2>2. CASE b # a
    <3>1. apps'[b] = apps[b]
      BY <1>3, <2>2
    <3>2. Reviewed(apps[b].draft) /\ apps[b].draft \in Draft
      BY <1>5, <3>1 DEF GoodApps, Application
    <3>3. ASSUME NEW d, d = apps[b].draft PROVE Reviewed(d)'
      BY <3>2, <3>3, DraftSessions, ReviewedStays
    <3> QED BY <3>1, <3>3
  <2> QED BY <2>1, <2>2
<1>6. \A b \in Apps : Live(b)' => apps'[b].base \in Bases
  BY <1>2, <1>3 DEF GoodApps, Live
<1>7. DraftIsVersioned'
  BY <1>2, <1>3 DEF GoodApps, DraftIsVersioned, Live
<1>8. \A b \in Apps : apps'[b].draft # NoDraft => Reviewed(apps[b].draft)'
  BY <1>5
<1> QED
  BY <1>1, <1>4, <1>6, <1>7, <1>8 DEF GoodApps, NoDraft

-----------------------------------------------------------------------------
(* Every step keeps the invariant *)

LEMMA SessionRows ==
  ASSUME GoodSessions, NEW s \in Sessions
  PROVE  /\ sessions[s] \in Session
         /\ sessions[s].worked \in BOOLEAN
         /\ Made(s) => sessions[s].base \in Bases
BY DEF GoodSessions, Session

LEMMA FoundIs == ASSUME GoodSessions, NEW s \in Found PROVE s \in Sessions /\ Made(s)
BY DEF Found, IsOpen, Made

LEMMA BeginCreateInv ==
  ASSUME IInv, NEW r \in Requests, NEW b \in Bases, NEW quick \in BOOLEAN, BeginCreate(r, b, quick)
  PROVE  IInv'
<1>1. PICK q : q = [kind |-> "look", base |-> b, rev |-> content[b], quick |-> quick,
                    found |-> IF quick THEN Found ELSE {}]
  OBVIOUS
<1>2. requests' = [requests EXCEPT ![r] = q] /\ (quick => ~InProgress(b))
      /\ UNCHANGED <<content, sessions, apps, versions, file, doomed>>
  BY <1>1 DEF BeginCreate, Begin
<1>3. q \in Request /\ q.kind = "look"
  <2>1. Found \in SUBSET Sessions
    BY DEF Found
  <2> QED
    BY <1>1, <2>1 DEF Request, Look, IInv
<1>4. PassesBy(q, q.base)'
  BY <1>1, <1>2, FoundIs DEF PassesBy, Made, InProgress, OpenOf, Found, IInv
<1>5. Good(q)' /\ ~TakesLock(q)
  BY <1>3, <1>4 DEF Good, TakesLock
<1> QED
  BY <1>2, <1>5, SameSessions, RequestMoves, SessionsStay, FilesStay, AppsStay DEF IInv

LEMMA LockCreateInv ==
  ASSUME IInv, NEW r \in Requests, LockCreate(r)
  PROVE  IInv'
<1>1. PICK q : q = requests[r]
  OBVIOUS
<1>2. Good(q) /\ q.kind = "look" /\ MayWrite(r) /\ q \in Request
      /\ UNCHANGED <<content, sessions, apps, versions, file, doomed>>
  BY <1>1 DEF LockCreate, Is, IInv, GoodRequests, Good
<1>3. /\ q.base \in Bases /\ q.rev \in Revs /\ q.quick \in BOOLEAN
      /\ q.found \in SUBSET Sessions
  BY <1>2, Kinds
<1>4. PICK s \in Sessions, rev \in {q.rev, content[q.base]} :
        /\ sessions[s].status = "none"
        /\ requests' = [requests EXCEPT ![r] =
             [kind |-> "create", session |-> s, quick |-> q.quick, found |-> q.found,
              row |-> [status |-> "open", base |-> q.base, rev |-> rev, worked |-> FALSE]]]
  BY <1>1 DEF LockCreate
<1>5. PICK p : p = [kind |-> "create", session |-> s, quick |-> q.quick, found |-> q.found,
                    row |-> [status |-> "open", base |-> q.base, rev |-> rev, worked |-> FALSE]]
  OBVIOUS
<1>6. requests' = [requests EXCEPT ![r] = p]
  BY <1>4, <1>5
<1>7. p \in Request /\ p.kind = "create"
  <2>1. rev \in Revs
    BY <1>3, <1>4 DEF IInv
  <2>2. p.row \in Session
    BY <1>3, <1>5, <2>1 DEF Session
  <2> QED
    BY <1>3, <1>5, <2>2 DEF Request, Create
<1>8. ReadyToOpen(p)'
  BY <1>2, <1>3, <1>4, <1>5 DEF ReadyToOpen, Made
<1>9. PassesBy(p, p.row.base)'
  BY <1>2, <1>5 DEF Good, PassesBy, Made
<1>10. Good(p)'
  BY <1>7, <1>8, <1>9 DEF Good
<1> QED
  BY <1>2, <1>6, <1>10, SameSessions, RequestMoves, SessionsStay, FilesStay, AppsStay DEF IInv

LEMMA SessionRequest ==
  ASSUME IInv, NEW r \in Requests, NEW q \in Request, NEW kind \in {"save", "close", "fill", "tailor"},
         q.kind = kind, Made(q.session), kind = "tailor" => Reviewed(q.draft),
         kind = "fill" => FillsAround(q),
         Begin(r, q), UNCHANGED <<content, sessions, apps, versions, file, doomed>>
  PROVE  IInv'
<1>1. SessionsStep
  BY SameSessions
<1>2. Good(q)'
  BY DEF Good, Made, Reviewed, FillsAround
<1>3. ~TakesLock(q) /\ requests' = [requests EXCEPT ![r] = q]
  BY DEF TakesLock, Begin
<1> QED
  BY <1>1, <1>2, <1>3, RequestMoves, SessionsStay, FilesStay, AppsStay DEF IInv

LEMMA BeginSaveInv ==
  ASSUME IInv, NEW r \in Requests, NEW s \in Sessions, BeginSave(r, s)
  PROVE  IInv'
<1> DEFINE q == [kind |-> "save", session |-> s]
<1>1. q \in Request /\ q.kind = "save" /\ q.session = s
  BY DEF Request, Save
<1>2. Made(s) /\ Begin(r, q) /\ UNCHANGED <<content, sessions, apps, versions, file, doomed>>
  BY DEF BeginSave, IsOpen, Made
<1> HIDE DEF q
<1> QED
  BY <1>1, <1>2, SessionRequest

LEMMA BeginCloseInv ==
  ASSUME IInv, NEW r \in Requests, NEW s \in Sessions, BeginClose(r, s)
  PROVE  IInv'
<1> DEFINE q == [kind |-> "close", session |-> s]
<1>1. q \in Request /\ q.kind = "close" /\ q.session = s
  BY DEF Request, Close
<1>2. Made(s) /\ Begin(r, q) /\ UNCHANGED <<content, sessions, apps, versions, file, doomed>>
  BY DEF BeginClose, IsOpen, Made
<1> HIDE DEF q
<1> QED
  BY <1>1, <1>2, SessionRequest

(* What a session that is up to date tailors is what it reviewed.          *)
LEMMA TailorRequests ==
  ASSUME content \in [Bases -> Revs], NEW s \in Sessions, NEW row \in Session, row.base \in Bases,
         row.rev = content[row.base]
  PROVE  LET q == TailorRequest(s, row)
         IN  /\ q \in Request /\ q.kind = "tailor" /\ q.session = s
             /\ q.draft.session = s /\ q.draft.base = row.base /\ q.draft.rev = row.rev
<1>1. TailoredOf(s, row) \in Draft
  BY Constants DEF TailoredOf, Draft
<1> QED
  BY <1>1 DEF TailorRequest, TailoredOf, Request, Tailor

LEMMA TailorRequestIs ==
  ASSUME IInv, NEW s \in Sessions, MayTailor(s)
  PROVE  LET q == TailorRequest(s, sessions[s])
         IN  q \in Request /\ q.kind = "tailor" /\ q.session = s /\ Made(s) /\ Reviewed(q.draft)
<1>1. Made(s) /\ sessions[s].rev = content[sessions[s].base]
  BY DEF MayTailor, IsOpen, Fresh, Made
<1>2. sessions[s] \in Session /\ sessions[s].base \in Bases
  BY <1>1, SessionRows DEF IInv
<1>3. LET q == TailorRequest(s, sessions[s])
      IN  /\ q \in Request /\ q.kind = "tailor" /\ q.session = s
          /\ q.draft.session = s /\ q.draft.base = sessions[s].base
          /\ q.draft.rev = sessions[s].rev
  BY <1>1, <1>2, TailorRequests DEF IInv
<1> QED
  BY <1>1, <1>3 DEF Reviewed

LEMMA BeginTailorInv ==
  ASSUME IInv, NEW r \in Requests, NEW s \in Sessions, BeginTailor(r, s)
  PROVE  IInv'
<1>1. PICK q : q = TailorRequest(s, sessions[s])
  OBVIOUS
<1>2. Begin(r, q) /\ UNCHANGED <<content, sessions, apps, versions, file, doomed>> /\ MayTailor(s)
  BY <1>1 DEF BeginTailor
<1>3. q \in Request /\ q.kind = "tailor" /\ q.session = s /\ Made(s) /\ Reviewed(q.draft)
  BY <1>1, <1>2, TailorRequestIs
<1> QED
  BY <1>2, <1>3, SessionRequest

LEMMA TailorFilledInv ==
  ASSUME IInv, NEW r \in Requests, TailorFilled(r)
  PROVE  IInv'
<1>1. PICK s, q : s = requests[r].session /\ q = TailorRequest(s, sessions[s])
  OBVIOUS
<1>2. /\ requests' = [requests EXCEPT ![r] = q] /\ MayTailor(s)
      /\ UNCHANGED <<content, sessions, apps, versions, file, doomed>>
  BY <1>1 DEF TailorFilled
<1>3. s \in Sessions
  BY <1>1, Kinds DEF TailorFilled, Is, IInv, GoodRequests
<1>4. q \in Request /\ q.kind = "tailor" /\ q.session = s /\ Made(s) /\ Reviewed(q.draft)
  BY <1>1, <1>2, <1>3, TailorRequestIs
<1>5. Good(q)' /\ ~TakesLock(q)
  BY <1>2, <1>4 DEF Good, Made, Reviewed, TakesLock
<1> QED
  BY <1>2, <1>5, SameSessions, RequestMoves, SessionsStay, FilesStay, AppsStay DEF IInv

LEMMA BeginFillInv ==
  ASSUME IInv, NEW r \in Requests, NEW s \in Sessions, BeginFill(r, s)
  PROVE  IInv'
<1>1. PICK q, worked, found : /\ worked = sessions[s].worked /\ found = Found \cap {s}
                              /\ q = [kind |-> "fill", session |-> s, worked |-> worked, found |-> found]
  OBVIOUS
<1>2. Begin(r, q) /\ UNCHANGED <<content, sessions, apps, versions, file, doomed>> /\ IsOpen(s)
  BY <1>1 DEF BeginFill, Fill, Filled
<1>3. worked \in BOOLEAN /\ found \in SUBSET Sessions
  BY <1>1, SessionRows DEF IInv
<1>4. q \in Request /\ q.kind = "fill" /\ q.session = s /\ q.worked = worked /\ q.found = found
  BY <1>1, <1>3 DEF Request, Fills
<1>5. Made(s) /\ FillsAround(q)
  BY <1>1, <1>2, <1>4 DEF IsOpen, Made, FillsAround, Found
<1> QED
  BY <1>2, <1>4, <1>5, SessionRequest

(* One analysis changes its status or its answers.                         *)
LEMMA SessionChanges ==
  ASSUME GoodSessions, NEW s \in Sessions, NEW row \in Session,
         sessions' = [sessions EXCEPT ![s] = row],
         Made(s), row.base = sessions[s].base, row.rev = sessions[s].rev, row.status # "none",
         row.status = "open" => IsOpen(s)
  PROVE  SessionsStep /\ GoodSessions'
<1>1. sessions' \in [Sessions -> Session]
  BY DEF GoodSessions
<1>2. \A t \in Sessions : sessions'[t] = IF t = s THEN row ELSE sessions[t]
  BY DEF GoodSessions
<1>3. SessionsStep
  BY <1>2 DEF SessionsStep, Made
<1>4. \A t \in Sessions : Made(t)' => sessions'[t].base \in Bases
  BY <1>2 DEF GoodSessions, Made
<1>5. OneOpenSession'
  BY <1>2 DEF GoodSessions, OneOpenSession, OpenOf, IsOpen
<1> QED
  BY <1>1, <1>3, <1>4, <1>5 DEF GoodSessions

(* A save or a fill writes the answers of an analysis.                     *)
LEMMA AnswersChange ==
  ASSUME GoodSessions, NEW s \in Sessions, Made(s), NEW worked \in BOOLEAN,
         sessions' = [sessions EXCEPT ![s].worked = worked]
  PROVE  SessionsStep /\ GoodSessions'
<1>1. PICK row : row = [sessions[s] EXCEPT !.worked = worked]
  OBVIOUS
<1>2. /\ row \in Session /\ row.status = sessions[s].status
      /\ row.base = sessions[s].base /\ row.rev = sessions[s].rev
  BY <1>1, SessionRows DEF Session
<1>3. sessions' = [sessions EXCEPT ![s] = row]
  BY <1>1
<1> QED
  BY <1>2, <1>3, SessionChanges DEF Made, IsOpen

LEMMA CommitSaveInv ==
  ASSUME IInv, NEW r \in Requests, CommitSave(r)
  PROVE  IInv'
<1>1. PICK s : s = requests[r].session
  OBVIOUS
<1>2. Good(requests[r]) /\ requests[r].kind = "save" /\ MayWrite(r)
  BY DEF CommitSave, Is, IInv, GoodRequests
<1>3. s \in Sessions /\ Made(s)
  BY <1>1, <1>2, Kinds DEF Good
<1>4. PICK worked \in BOOLEAN : sessions' = [sessions EXCEPT ![s].worked = worked]
  BY <1>1 DEF CommitSave
<1>5. SessionsStep /\ GoodSessions'
  BY <1>3, <1>4, AnswersChange DEF IInv
<1>6. Finish(r) /\ UNCHANGED <<content, apps, versions, file, doomed>>
  BY DEF CommitSave
<1> QED
  BY <1>2, <1>5, <1>6, RequestEnds, AppsStay, FilesStay DEF IInv

LEMMA CommitFillInv ==
  ASSUME IInv, NEW r \in Requests, CommitFill(r)
  PROVE  IInv'
<1>1. PICK q, s, worked : q = requests[r] /\ s = q.session /\ worked = q.worked
  OBVIOUS
<1>2. Good(q) /\ q.kind = "fill" /\ MayWrite(r) /\ q \in Request
  BY <1>1 DEF CommitFill, Is, IInv, GoodRequests, Good
<1>3. s \in Sessions /\ Made(s) /\ worked \in BOOLEAN
  BY <1>1, <1>2, Kinds DEF Good
<1>4. sessions' = [sessions EXCEPT ![s].worked = worked]
  BY <1>1 DEF CommitFill
<1>5. SessionsStep /\ GoodSessions'
  BY <1>3, <1>4, AnswersChange DEF IInv
<1>6. UNCHANGED <<content, apps, versions, file, doomed>>
  BY DEF CommitFill
<1>7. PICK p : p = [kind |-> "filled", session |-> s]
  OBVIOUS
<1>8. p \in Request /\ p.kind = "filled" /\ p.session = s /\ ~TakesLock(p)
  BY <1>3, <1>7 DEF Request, Filling, TakesLock
<1>9. Good(p)'
  BY <1>3, <1>5, <1>8 DEF Good, SessionsStep, Made
<1>10. GoodRequests'
  <2>1. CASE Finish(r)
    BY <1>2, <1>5, <2>1, RequestEnds DEF IInv
  <2>2. CASE requests' = [requests EXCEPT ![r] = p]
    BY <1>2, <1>5, <1>8, <1>9, <2>2, RequestMoves DEF IInv
  <2> QED
    BY <1>1, <1>7, <2>1, <2>2 DEF CommitFill
<1> QED
  BY <1>5, <1>6, <1>10, AppsStay, FilesStay DEF IInv

LEMMA EndSession ==
  ASSUME GoodSessions, NEW s \in Sessions, Made(s), NEW status \in {"abandoned", "tailored"},
         sessions' = [sessions EXCEPT ![s].status = status]
  PROVE  SessionsStep /\ GoodSessions'
<1>1. PICK row : row = [sessions[s] EXCEPT !.status = status]
  OBVIOUS
<1>2. /\ row \in Session /\ row.status = status
      /\ row.base = sessions[s].base /\ row.rev = sessions[s].rev
  BY <1>1, SessionRows DEF Session
<1>3. sessions' = [sessions EXCEPT ![s] = row]
  BY <1>1
<1> QED
  BY <1>2, <1>3, SessionChanges

LEMMA CommitCloseInv ==
  ASSUME IInv, NEW r \in Requests, CommitClose(r)
  PROVE  IInv'
<1>1. PICK s : s = requests[r].session
  OBVIOUS
<1>2. Good(requests[r]) /\ requests[r].kind = "close" /\ MayWrite(r)
  BY DEF CommitClose, Is, IInv, GoodRequests
<1>3. s \in Sessions /\ Made(s)
  BY <1>1, <1>2, Kinds DEF Good
<1>4. SessionsStep /\ GoodSessions'
  BY <1>1, <1>3, EndSession DEF IInv, CommitClose
<1>5. Finish(r) /\ UNCHANGED <<content, apps, versions, file, doomed>>
  BY DEF CommitClose
<1> QED
  BY <1>2, <1>4, <1>5, RequestEnds, AppsStay, FilesStay DEF IInv

LEMMA CommitCreateInv ==
  ASSUME IInv, NEW r \in Requests, CommitCreate(r)
  PROVE  IInv'
<1>1. PICK q, new : q = requests[r] /\ new = q.session
  OBVIOUS
<1>2. Good(q) /\ q.kind = "create" /\ Holds(r) /\ q \in Request
  BY <1>1 DEF CommitCreate, Is, IInv, GoodRequests, Holds, Good
<1>3. new \in Sessions /\ q.row \in Session /\ q.found \in SUBSET Sessions
  BY <1>1, <1>2, Kinds
<1>4. ReadyToOpen(q) /\ PassesBy(q, q.row.base)
  BY <1>2 DEF Good
<1>5. UNCHANGED <<content, apps, versions, file, doomed>>
  BY DEF CommitCreate
<1>6. \A s \in Sessions :
        sessions'[s] = IF s = new THEN q.row
                       ELSE IF IsOpen(s) /\ sessions[s].base = q.row.base
                       THEN [sessions[s] EXCEPT !.status = "superseded"] ELSE sessions[s]
  BY <1>1 DEF CommitCreate, Superseded, OpenOf
<1>7. ASSUME NEW s \in Sessions
      PROVE  /\ sessions'[s] \in Session
             /\ s # new => /\ sessions'[s].base = sessions[s].base
                           /\ sessions'[s].rev = sessions[s].rev
                           /\ sessions'[s].status # "none" <=> Made(s)
                           /\ sessions'[s].status = "open" =>
                                IsOpen(s) /\ sessions[s].base # q.row.base
  <2>1. sessions[s] \in Session
    BY SessionRows DEF IInv
  <2> QED
    BY <1>3, <1>6, <2>1 DEF Session, IsOpen, Made
<1>8. sessions'[new] = q.row
  BY <1>3, <1>6
<1>9. SessionsStep
  BY <1>1, <1>4, <1>7 DEF SessionsStep, ReadyToOpen, Made
<1>10. GoodSessions'
  <2>1. sessions' \in [Sessions -> Session]
    <3>1. PICK f : f = sessions'
      OBVIOUS
    <3>2. f = [s \in Sessions |-> f[s]]
      BY <1>1, <3>1 DEF CommitCreate
    <3> QED BY <1>7, <3>1, <3>2
  <2>2. \A s \in Sessions : sessions'[s].status # "none" => sessions'[s].base \in Bases
    BY <1>4, <1>7, <1>8 DEF ReadyToOpen, IInv, GoodSessions
  <2>3. OneOpenSession'
    BY <1>4, <1>7, <1>8 DEF IInv, GoodSessions, OneOpenSession, OpenOf, IsOpen, ReadyToOpen
  <2> QED
    BY <2>1, <2>2, <2>3 DEF GoodSessions, Made
<1>11. MayWrite(r)
  BY <1>2 DEF IInv, GoodRequests, HeldAlone, MayWrite
<1>12. GoodRequests'
  <2>1. CASE Finish(r)
    BY <1>9, <1>11, <2>1, RequestEnds DEF IInv
  <2>2. PICK p : p = Fill(new, FALSE, q.found)
    OBVIOUS
  <2>3. CASE requests' = [requests EXCEPT ![r] = p]
    <3>1. /\ p \in Request /\ p.kind = "fill" /\ p.session = new /\ p.found = q.found
      BY <1>3, <2>2 DEF Fill, Request, Fills
    <3>2. FillsAround(p)'
      <4>1. new \notin q.found
        BY <1>1, <1>4 DEF ReadyToOpen, PassesBy
      <4>2. \A s \in q.found : Made(s)'
        BY <1>3, <1>4, <1>9 DEF PassesBy, SessionsStep, Made
      <4> QED
        BY <3>1, <4>1, <4>2 DEF FillsAround
    <3>3. Made(new)'
      BY <1>4, <1>8 DEF Made, ReadyToOpen
    <3>4. Good(p)' /\ ~TakesLock(p)
      BY <3>1, <3>2, <3>3 DEF Good, TakesLock
    <3> QED
      BY <1>9, <1>11, <2>3, <3>4, RequestMoves DEF IInv
  <2> QED
    BY <1>1, <2>1, <2>2, <2>3 DEF CommitCreate
<1> QED
  BY <1>5, <1>9, <1>10, <1>12, AppsStay, FilesStay DEF IInv

(* What a request stores: a draft that is reviewed, with its snapshot.     *)
LEMMA StoredIs ==
  ASSUME GoodApps, GoodFiles, NEW a \in Apps, NEW base \in Bases, NEW d \in Draft, StoreDraft(a, base, d)
  PROVE  /\ \E row \in Application :
              /\ apps' = [apps EXCEPT ![a] = row]
              /\ row.state = "live" /\ row.base = base /\ row.draft = d /\ ~row.pdf
         /\ versions' = [versions EXCEPT ![a] = Recorded(a, d)]
         /\ doomed' = doomed \cup Stale(a) /\ Stale(a) \subseteq Apps
         /\ file' = file /\ Quiet(a)
<1>1. PICK row : row = [WithoutArtifacts(apps[a]) EXCEPT !.state = "live", !.base = base, !.draft = d]
  OBVIOUS
<1>2. /\ row \in Application
      /\ row.state = "live" /\ row.base = base /\ row.draft = d /\ row.pdf = FALSE
  BY <1>1 DEF GoodApps, Application, WithoutArtifacts
<1>3. apps' = [apps EXCEPT ![a] = row]
  BY <1>1 DEF StoreDraft
<1> QED
  BY <1>2, <1>3 DEF StoreDraft, Stale

LEMMA StoreDraftInv ==
  ASSUME GoodApps, GoodFiles, SessionsStep, NEW a \in Apps, NEW base \in Bases, NEW d \in Draft,
         Reviewed(d), StoreDraft(a, base, d)
  PROVE  GoodApps' /\ GoodFiles'
<1>1. PICK row \in Application :
        /\ apps' = [apps EXCEPT ![a] = row]
        /\ row.state = "live" /\ row.base = base /\ row.draft = d /\ ~row.pdf
  BY StoredIs
<1>2. PICK history : history = Recorded(a, d)
  OBVIOUS
<1>3. /\ history \in Seq(Draft) /\ history # <<>> /\ Last(history) = d
      /\ \A n \in DOMAIN history :
           history[n] = d \/ (n \in DOMAIN versions[a] /\ history[n] = versions[a][n])
  BY <1>2, RecordedIs
<1>4. Reviewed(d)'
  BY DraftSessions, ReviewedStays
<1>5. ASSUME NEW n \in DOMAIN history PROVE Reviewed(history[n])'
  <2>1. PICK v : v = history[n]
    OBVIOUS
  <2>2. v \in Draft /\ Reviewed(v)
    BY <1>3, <2>1, VersionsOf DEF GoodApps
  <2>3. Reviewed(v)'
    BY <2>2, DraftSessions, ReviewedStays
  <2> QED
    BY <2>1, <2>3
<1>6. versions' = [versions EXCEPT ![a] = history]
  BY <1>2, StoredIs
<1>7. GoodApps'
  BY <1>1, <1>3, <1>4, <1>5, <1>6, AppChanges
<1>8. GoodFiles'
  BY StoredIs DEF GoodFiles
<1> QED
  BY <1>7, <1>8

LEMMA CommitTailorInv ==
  ASSUME IInv, NEW r \in Requests, CommitTailor(r)
  PROVE  IInv'
<1>1. PICK q, s, d, b : q = requests[r] /\ s = q.session /\ d = q.draft /\ b = d.base
  OBVIOUS
<1>2. Good(q) /\ q.kind = "tailor" /\ q \in Request /\ MayWrite(r)
  BY <1>1 DEF CommitTailor, Is, IInv, GoodRequests, Good
<1>3. s \in Sessions /\ d \in Draft /\ Made(s) /\ Reviewed(d)
  BY <1>1, <1>2, Kinds DEF Good
<1>4. b \in Bases
  BY <1>1, <1>3 DEF Draft
<1>5. PICK a \in ForJob : StoreDraft(a, b, d)
  BY <1>1 DEF CommitTailor
<1>6. a \in Apps
  BY ForJobIn
<1>7. SessionsStep /\ GoodSessions'
  BY <1>1, <1>3, EndSession DEF IInv, CommitTailor
<1>8. GoodApps' /\ GoodFiles'
  BY <1>3, <1>4, <1>5, <1>6, <1>7, StoreDraftInv DEF IInv
<1>9. Finish(r) /\ UNCHANGED content
  BY DEF CommitTailor
<1> QED
  BY <1>2, <1>7, <1>8, <1>9, RequestEnds DEF IInv

(* What the application's own requests store.                              *)
LEMMA OwnStore ==
  ASSUME IInv, NEW a \in Apps, NEW base \in Bases, NEW d \in Draft, Reviewed(d),
         StoreDraft(a, base, d), UNCHANGED <<content, sessions, requests>>
  PROVE  IInv'
BY SameSessions, StoreDraftInv, RequestsStay, SessionsStay DEF IInv

LEMMA FromBaseInv ==
  ASSUME IInv, NEW b \in Bases, FromBase(b)
  PROVE  IInv'
<1>1. PICK a \in ForJob, d \in {CopyOf(b)} : d = CopyOf(b) /\ StoreDraft(a, b, d)
  BY DEF FromBase
<1>2. d \in Draft /\ d.session = None /\ a \in Apps
  BY <1>1, Copies, ForJobIn DEF IInv
<1>3. UNCHANGED <<content, sessions, requests>>
  BY DEF FromBase
<1> QED
  BY <1>1, <1>2, <1>3, OwnStore DEF Reviewed

LEMMA BaselineIs ==
  ASSUME IInv, NEW a \in Apps, Live(a)
  PROVE  apps[a].base \in Bases /\ Baseline(a) \in Draft /\ Reviewed(Baseline(a))
<1>1. apps[a].base \in Bases
  BY DEF IInv, GoodApps
<1>2. CASE apps[a].draft = NoDraft
  BY <1>1, <1>2, Copies DEF Baseline, Reviewed, IInv
<1>3. CASE apps[a].draft # NoDraft
  <2>1. apps[a].draft \in Draft
    BY <1>3 DEF IInv, GoodApps, Application
  <2> QED
    BY <1>1, <1>3, <2>1 DEF Baseline, IInv, GoodApps
<1> QED
  BY <1>2, <1>3

LEMMA EditDraftInv ==
  ASSUME IInv, NEW a \in Apps, EditDraft(a)
  PROVE  IInv'
<1>1. PICK b, old, d : b = apps[a].base /\ old = Baseline(a) /\ d = [old EXCEPT !.edits = @ + 1]
  OBVIOUS
<1>2. b \in Bases /\ old \in Draft /\ Reviewed(old) /\ old.edits < MaxEdits
  BY <1>1, BaselineIs DEF EditDraft
<1>3. d \in Draft /\ d.session = old.session /\ d.base = old.base /\ d.rev = old.rev
  BY <1>1, <1>2, Constants DEF Draft
<1>4. Reviewed(d)
  BY <1>2, <1>3 DEF Reviewed
<1>5. StoreDraft(a, b, d) /\ UNCHANGED <<content, sessions, requests>>
  BY <1>1 DEF EditDraft
<1> QED
  BY <1>2, <1>3, <1>4, <1>5, OwnStore

LEMMA MaterializeInv ==
  ASSUME IInv, NEW a \in Apps, Materialize(a)
  PROVE  IInv'
<1>1. PICK b, d : b = apps[a].base /\ d = CopyOf(b)
  OBVIOUS
<1>2. b \in Bases
  BY <1>1, BaselineIs DEF Materialize
<1>3. d \in Draft /\ d.session = None
  BY <1>1, <1>2, Copies DEF IInv
<1>4. StoreDraft(a, b, d) /\ UNCHANGED <<content, sessions, requests>>
  BY <1>1 DEF Materialize
<1> QED
  BY <1>2, <1>3, <1>4, OwnStore DEF Reviewed

LEMMA RestoreInv ==
  ASSUME IInv, NEW a \in Apps, NEW n, Restore(a, n)
  PROVE  IInv'
<1>1. PICK b, d : b = apps[a].base /\ d = versions[a][n]
  OBVIOUS
<1>2. b \in Bases /\ n \in DOMAIN versions[a]
  BY <1>1, BaselineIs DEF Restore
<1>3. d \in Draft /\ Reviewed(d)
  BY <1>1, <1>2, VersionsOf DEF IInv, GoodApps
<1>4. StoreDraft(a, b, d) /\ UNCHANGED <<content, sessions, requests>>
  BY <1>1 DEF Restore
<1> QED
  BY <1>2, <1>3, <1>4, OwnStore

LEMMA ClearDraftInv ==
  ASSUME IInv, NEW a \in Apps, ClearDraft(a)
  PROVE  IInv'
<1>1. PICK row, history : row = [WithoutArtifacts(apps[a]) EXCEPT !.draft = NoDraft] /\ history = versions[a]
  OBVIOUS
<1>2. apps' = [apps EXCEPT ![a] = row] /\ UNCHANGED <<content, sessions, versions, file, requests>>
      /\ doomed' = doomed \cup Stale(a) /\ Live(a)
  BY <1>1 DEF ClearDraft
<1>3. /\ row \in Application /\ row.base = apps[a].base /\ row.state = apps[a].state
      /\ row.draft = NoDraft
  BY <1>1 DEF IInv, GoodApps, Application, WithoutArtifacts
<1>4. history \in Seq(Draft) /\ versions' = [versions EXCEPT ![a] = history]
      /\ \A n \in DOMAIN history : history[n] \in Draft /\ Reviewed(history[n])
  BY <1>1, <1>2 DEF IInv, GoodApps
<1>5. SessionsStep
  BY <1>2, SameSessions
<1>6. \A n \in DOMAIN history : Reviewed(history[n])'
  BY <1>2, <1>4 DEF Reviewed, Made
<1>7. row.base \in Bases
  BY <1>2, <1>3 DEF IInv, GoodApps
<1>8. GoodApps'
  BY <1>2, <1>3, <1>4, <1>5, <1>6, <1>7, AppChanges DEF IInv
<1>9. GoodFiles'
  BY <1>2 DEF IInv, GoodFiles, Stale
<1> QED
  BY <1>2, <1>5, <1>8, <1>9, RequestsStay, SessionsStay DEF IInv

LEMMA DeleteApplicationInv ==
  ASSUME IInv, NEW a \in Apps, DeleteApplication(a)
  PROVE  IInv'
<1>1. PICK row, history : row = [NotMade EXCEPT !.state = "gone"] /\ history = <<>>
  OBVIOUS
<1>2. apps' = [apps EXCEPT ![a] = row] /\ versions' = [versions EXCEPT ![a] = history]
      /\ UNCHANGED <<content, sessions, file, requests>> /\ doomed' = doomed \cup Stale(a)
  BY <1>1 DEF DeleteApplication
<1>3. row \in Application /\ row.state = "gone" /\ row.draft = NoDraft
  BY <1>1 DEF NotMade, Application
<1>4. history \in Seq(Draft) /\ DOMAIN history = {}
  BY <1>1
<1>5. SessionsStep
  BY <1>2, SameSessions
<1>6. GoodApps'
  BY <1>2, <1>3, <1>4, <1>5, AppChanges DEF IInv
<1>7. GoodFiles'
  BY <1>2 DEF IInv, GoodFiles, Stale
<1> QED
  BY <1>2, <1>5, <1>6, <1>7, RequestsStay, SessionsStay DEF IInv

LEMMA BeginRenderInv ==
  ASSUME IInv, NEW r \in Requests, NEW a \in Apps, BeginRender(r, a)
  PROVE  IInv'
<1>1. PICK q, fills, locks, d :
        /\ fills = (apps[a].draft = NoDraft)
        /\ locks = (fills \/ ~apps[a].placed)
        /\ d = Baseline(a)
        /\ q = [kind |-> "render", app |-> a, draft |-> d, fills |-> fills,
                locks |-> locks, hadPdf |-> ~fills /\ apps[a].pdf, compiled |-> FALSE]
  OBVIOUS
<1>2. /\ requests' = [requests EXCEPT ![r] = q] /\ Live(a) /\ (locks => MayWrite(r))
      /\ UNCHANGED <<content, sessions, apps, versions, file, doomed>>
  BY <1>1 DEF BeginRender, Begin
<1>3. d \in Draft /\ Reviewed(d)
  BY <1>1, <1>2, BaselineIs
<1>4. apps[a].pdf \in BOOLEAN /\ apps[a].placed \in BOOLEAN
  BY DEF IInv, GoodApps, Application
<1>5. fills \in BOOLEAN /\ locks \in BOOLEAN /\ (~fills /\ apps[a].pdf) \in BOOLEAN
  BY <1>1, <1>4
<1>6. q \in Render /\ q.kind = "render" /\ q.draft = d /\ q.locks = locks
  BY <1>1, <1>3, <1>5 DEF Render
<1>7. Good(q)'
  BY <1>2, <1>3, <1>6 DEF Good, Request, Reviewed, Made
<1>8. TakesLock(q) => MayWrite(r)
  BY <1>2, <1>6 DEF TakesLock
<1>9. SessionsStep
  BY <1>2, SameSessions
<1> QED
  BY <1>2, <1>7, <1>8, <1>9, RequestMoves, SessionsStay, FilesStay, AppsStay DEF IInv

LEMMA CompileInv ==
  ASSUME IInv, NEW r \in Requests, Compile(r)
  PROVE  IInv'
<1>1. PICK q, p : q = requests[r] /\ p = [q EXCEPT !.compiled = TRUE]
  OBVIOUS
<1>2. q \in Request /\ q.kind = "render" /\ Good(q) /\ q \in Render
  BY <1>1, Kinds DEF Compile, Is, IInv, GoodRequests, Good
<1>3. /\ p \in Render /\ p.kind = "render" /\ p.draft = q.draft /\ p.locks = q.locks
      /\ q.app \in Apps /\ q.draft \in Draft
  BY <1>1, <1>2 DEF Render
<1>4. /\ requests' = [requests EXCEPT ![r] = p] /\ file' = [file EXCEPT ![q.app] = q.draft]
      /\ UNCHANGED <<content, sessions, apps, versions, doomed>>
  BY <1>1 DEF Compile
<1>5. Good(p)'
  BY <1>2, <1>3, <1>4 DEF Good, Request, Reviewed, Made
<1>6. TakesLock(p) => Holds(r)
  BY <1>1, <1>2, <1>3 DEF TakesLock, Holds, Is
<1>7. GoodFiles'
  BY <1>3, <1>4 DEF IInv, GoodFiles
<1> QED
  BY <1>4, <1>5, <1>6, <1>7, SameSessions, RequestMoves, SessionsStay, AppsStay DEF IInv

(* A render that filled its application stores the fill with its snapshot. *)
LEMMA CommitRenderIs ==
  ASSUME IInv, NEW r \in Requests, CommitRender(r), NEW q, q = requests[r]
  PROVE  /\ Good(q) /\ q \in Render /\ q.kind = "render" /\ q.app \in Apps /\ q.draft \in Draft
         /\ Reviewed(q.draft) /\ Live(q.app) /\ q.compiled /\ q.fills \in BOOLEAN
         /\ \E row \in Application :
              /\ apps' = [apps EXCEPT ![q.app] = row]
              /\ row.state = "live" /\ row.base = apps[q.app].base
              /\ row.draft = IF q.fills THEN q.draft ELSE apps[q.app].draft
         /\ versions' = [versions EXCEPT ![q.app] =
                           IF q.fills THEN Recorded(q.app, q.draft) ELSE versions[q.app]]
<1>1. Good(q) /\ q \in Request /\ q.kind = "render" /\ Live(q.app) /\ q.compiled
  BY DEF CommitRender, Is, IInv, GoodRequests, Good
<1>2. /\ q \in Render /\ q.app \in Apps /\ q.draft \in Draft /\ q.fills \in BOOLEAN
      /\ q.hadPdf \in BOOLEAN /\ Reviewed(q.draft)
  BY <1>1, Kinds DEF Good
<1>3. PICK app, row : /\ app = apps[q.app]
                      /\ row = [app EXCEPT !.draft = IF q.fills THEN q.draft ELSE @,
                                           !.pdf = @ \/ ~q.hadPdf, !.placed = TRUE]
  OBVIOUS
<1>4. app \in Application /\ app.state = "live"
  BY <1>1, <1>2, <1>3 DEF IInv, GoodApps, Live
<1>5. /\ row \in Application /\ row.state = "live" /\ row.base = app.base
      /\ row.draft = IF q.fills THEN q.draft ELSE app.draft
  BY <1>2, <1>3, <1>4 DEF Application
<1>6. apps' = [apps EXCEPT ![q.app] = row]
  BY <1>3 DEF CommitRender
<1>7. versions' = [versions EXCEPT ![q.app] =
                     IF q.fills THEN Recorded(q.app, q.draft) ELSE versions[q.app]]
  BY <1>2 DEF CommitRender, FilledHistory, IInv, GoodApps
<1> QED
  BY <1>1, <1>2, <1>3, <1>5, <1>6, <1>7

LEMMA CommitRenderInv ==
  ASSUME IInv, NEW r \in Requests, CommitRender(r)
  PROVE  IInv'
<1>1. PICK q, a : q = requests[r] /\ a = q.app
  OBVIOUS
<1>2. PICK row \in Application :
        /\ apps' = [apps EXCEPT ![a] = row]
        /\ row.state = "live" /\ row.base = apps[a].base
        /\ row.draft = IF q.fills THEN q.draft ELSE apps[a].draft
  BY <1>1, CommitRenderIs
<1>3. PICK history : history = IF q.fills THEN Recorded(a, q.draft) ELSE versions[a]
  OBVIOUS
<1>4. /\ a \in Apps /\ q.draft \in Draft /\ Reviewed(q.draft) /\ Live(a)
      /\ versions' = [versions EXCEPT ![a] = history]
  BY <1>1, <1>3, CommitRenderIs
<1>5. UNCHANGED <<content, sessions, file, doomed>> /\ Finish(r)
  BY DEF CommitRender
<1>6. SessionsStep
  BY <1>5, SameSessions
<1>7. row.base \in Bases
  BY <1>2, <1>4 DEF IInv, GoodApps
<1>8. CASE q.fills
  <2>1. /\ history \in Seq(Draft) /\ history # <<>> /\ Last(history) = q.draft
        /\ \A n \in DOMAIN history : Reviewed(history[n])
    BY <1>3, <1>4, <1>8, RecordedIs DEF IInv, GoodApps
  <2>2. (\A n \in DOMAIN history : Reviewed(history[n])') /\ Reviewed(row.draft)'
    BY <1>2, <1>4, <1>5, <1>8, <2>1 DEF Reviewed, Made
  <2>3. GoodApps'
    BY <1>2, <1>4, <1>6, <1>7, <1>8, <2>1, <2>2, AppChanges DEF IInv
  <2> QED
    BY <1>5, <1>6, <2>3, RequestEnds, SessionsStay, FilesStay DEF IInv
<1>9. CASE ~q.fills
  <2>1. /\ history \in Seq(Draft) /\ \A n \in DOMAIN history : Reviewed(history[n])
        /\ row.draft # NoDraft => /\ history # <<>> /\ Last(history) = row.draft
                                  /\ Reviewed(row.draft)
    BY <1>2, <1>3, <1>4, <1>9 DEF IInv, GoodApps, DraftIsVersioned
  <2>2. /\ \A n \in DOMAIN history : Reviewed(history[n])'
        /\ row.draft # NoDraft => Reviewed(row.draft)'
    BY <1>5, <2>1 DEF Reviewed, Made
  <2>3. GoodApps'
    BY <1>2, <1>4, <1>6, <1>7, <2>1, <2>2, AppChanges DEF IInv
  <2> QED
    BY <1>5, <1>6, <2>3, RequestEnds, SessionsStay, FilesStay DEF IInv
<1> QED
  BY <1>8, <1>9 

LEMMA RemoveFilesInv ==
  ASSUME IInv, NEW a \in Apps, RemoveFiles(a)
  PROVE  IInv'
<1>1. UNCHANGED <<content, sessions, apps, versions, requests>>
  BY DEF RemoveFiles
<1>2. GoodFiles'
  BY DEF RemoveFiles, IInv, GoodFiles
<1> QED
  BY <1>1, <1>2, SameSessions, RequestsStay, SessionsStay, AppsStay DEF IInv

LEMMA FailInv ==
  ASSUME IInv, NEW r \in Requests, Fail(r)
  PROVE  IInv'
<1>1. Finish(r) /\ UNCHANGED <<content, sessions, apps, versions, file, doomed>>
  BY DEF Fail
<1> QED
  BY <1>1, SameSessions, RequestEnds, SessionsStay, AppsStay, FilesStay DEF IInv

LEMMA StopInv ==
  ASSUME IInv, Stop
  PROVE  IInv'
<1>1. UNCHANGED <<content, sessions, apps, versions, file>> /\ doomed' = {}
      /\ \A r \in Requests : requests'[r] = Idle
  BY DEF Stop
<1>2. GoodRequests'
  <2>1. requests' \in [Requests -> Request]
    BY DEF Stop, Request
  <2>2. \A r \in Requests : Good(requests[r])'
    BY <1>1, IdleIsGood
  <2>3. HeldAlone'
    BY <1>1 DEF HeldAlone, Holds, Is, Idle
  <2> QED BY <2>1, <2>2, <2>3 DEF GoodRequests
<1> QED
  BY <1>1, <1>2, SameSessions, SessionsStay, AppsStay DEF IInv, GoodFiles

LEMMA EditBaseInv ==
  ASSUME IInv, NEW b \in Bases, EditBase(b)
  PROVE  IInv'
<1>1. Unlocked /\ UNCHANGED <<sessions, apps, versions, file, doomed, requests>>
      /\ content' \in [Bases -> Revs]
  BY DEF EditBase, IInv
<1> QED
  BY <1>1, SameSessions, RequestsStay, SessionsStay, AppsStay, FilesStay DEF IInv

LEMMA InitInv == Init => IInv
<1> SUFFICES ASSUME Init PROVE IInv
  OBVIOUS
<1>1. content \in [Bases -> Revs]
  BY DEF Init
<1>2. GoodRequests
  BY IdleIsGood DEF Init, GoodRequests, HeldAlone, Holds, Is, Idle, Request
<1>3. GoodSessions
  BY Constants DEF Init, GoodSessions, Session, Unopened, Made, OneOpenSession, OpenOf, IsOpen
<1>4. NotMade \in Application /\ NotMade.draft = NoDraft /\ NotMade.state = "none"
  BY DEF NotMade, Application
<1>5. GoodApps
  BY <1>4 DEF Init, GoodApps, Live, DraftIsVersioned
<1>6. GoodFiles
  BY DEF Init, GoodFiles
<1> QED
  BY <1>1, <1>2, <1>3, <1>5, <1>6 DEF IInv

LEMMA NextInv == IInv /\ [Next]_vars => IInv'
<1> SUFFICES ASSUME IInv, [Next]_vars PROVE IInv'
  OBVIOUS
<1>1. CASE UNCHANGED vars
  BY <1>1, SameSessions, RequestsStay, SessionsStay, AppsStay, FilesStay DEF IInv, vars
<1>2. ASSUME NEW r \in Requests, NEW b \in Bases, NEW quick \in BOOLEAN, BeginCreate(r, b, quick)
      PROVE  IInv'
  BY <1>2, BeginCreateInv
<1>3. ASSUME NEW r \in Requests,
             LockCreate(r) \/ CommitCreate(r) \/ CommitSave(r) \/ CommitClose(r)
             \/ CommitFill(r) \/ TailorFilled(r) \/ CommitTailor(r) \/ Compile(r) \/ CommitRender(r) \/ Fail(r)
      PROVE  IInv'
  BY <1>3, LockCreateInv, CommitCreateInv, CommitSaveInv, CommitCloseInv, CommitFillInv,
     TailorFilledInv, CommitTailorInv, CompileInv, CommitRenderInv, FailInv
<1>4. ASSUME NEW r \in Requests, NEW s \in Sessions,
             BeginSave(r, s) \/ BeginClose(r, s) \/ BeginFill(r, s) \/ BeginTailor(r, s)
      PROVE  IInv'
  BY <1>4, BeginSaveInv, BeginCloseInv, BeginFillInv, BeginTailorInv
<1>5. ASSUME NEW r \in Requests, NEW a \in Apps, BeginRender(r, a) PROVE IInv'
  BY <1>5, BeginRenderInv
<1>6. ASSUME NEW a \in Apps,
             RemoveFiles(a) \/ EditDraft(a) \/ ClearDraft(a) \/ Materialize(a)
             \/ (\E n \in 1..MaxVersions : Restore(a, n)) \/ DeleteApplication(a)
      PROVE  IInv'
  BY <1>6, RemoveFilesInv, EditDraftInv, ClearDraftInv, MaterializeInv, RestoreInv,
     DeleteApplicationInv
<1>7. ASSUME NEW b \in Bases, FromBase(b) \/ EditBase(b) PROVE IInv'
  BY <1>7, FromBaseInv, EditBaseInv
<1>8. CASE Stop
  BY <1>8, StopInv
<1> QED
  BY <1>1, <1>2, <1>3, <1>4, <1>5, <1>6, <1>7, <1>8 DEF Next

(* The invariant holds in every state.                                     *)
THEOREM Invariance == Spec => []IInv
BY InitInv, NextInv, PTL DEF Spec

-----------------------------------------------------------------------------
(* Theorems *)

(* The rows, the history and the files stay in their domains.              *)
THEOREM TypeCorrect == Spec => []TypeOK
<1>1. IInv => TypeOK
  BY DEF IInv, TypeOK, GoodSessions, GoodApps, GoodFiles
<1> QED
  BY <1>1, Invariance, PTL

(* A base resume has at most one open analysis, however the creates, saves *)
(* and closes overlap.                                                     *)
THEOREM OneOpenAlways == Spec => []OneOpenSession
<1>1. IInv => OneOpenSession
  BY DEF IInv, GoodSessions
<1> QED
  BY <1>1, Invariance, PTL

(* What a session tailored was made from the base and the job that its     *)
(* gaps were found in, whatever was edited while the model wrote.          *)
THEOREM TailoredAsReviewedAlways == Spec => []TailoredAsReviewed
<1>1. IInv => TailoredAsReviewed
  BY DEF IInv, GoodApps, TailoredAsReviewed, Reviewed
<1> QED
  BY <1>1, Invariance, PTL

(* The draft of an application is the newest snapshot of its history, even *)
(* when requests overlap with a render.                                    *)
THEOREM DraftIsVersionedAlways == Spec => []DraftIsVersioned
<1>1. IInv => DraftIsVersioned
  BY DEF IInv, GoodApps
<1> QED
  BY <1>1, Invariance, PTL

KeepsWork(s) ==
  /\ ~sessions'[s].worked =>
       \E r \in Requests :
          /\ requests'[r] # requests[r]
          /\ Is(r, "save") \/ (Is(r, "fill") /\ s \notin requests[r].found)
  /\ sessions'[s].status = "superseded" =>
       \E r \in Requests :
          /\ requests'[r] # requests[r] /\ Is(r, "create")
          /\ ~requests[r].quick \/ s \notin requests[r].found

LEMMA SameKeeps ==
  ASSUME NEW s \in Found, sessions'[s] = sessions[s]
  PROVE  KeepsWork(s)
BY DEF Found, KeepsWork, IsOpen

LEMMA CommitCreateKeeps ==
  ASSUME IInv, NEW r \in Requests, CommitCreate(r), NEW s \in Found
  PROVE  KeepsWork(s)
<1>1. PICK q : q = requests[r]
  OBVIOUS
<1>2. Is(r, "create") /\ ReadyToOpen(q) /\ PassesBy(q, q.row.base)
  BY <1>1 DEF CommitCreate, Is, IInv, GoodRequests, Good
<1>3. s # q.session /\ s \in Sessions
  BY <1>2 DEF ReadyToOpen, Made, Found, IsOpen
<1>4. sessions'[s] = IF sessions[s].base = q.row.base
                     THEN [sessions[s] EXCEPT !.status = "superseded"] ELSE sessions[s]
  BY <1>1, <1>3 DEF CommitCreate, Superseded, OpenOf, Found
<1>5. CASE sessions[s].base # q.row.base
  BY <1>4, <1>5, SameKeeps
<1>6. CASE sessions[s].base = q.row.base
  <2>1. ~q.quick \/ s \notin q.found
    BY <1>2, <1>6 DEF PassesBy
  <2>2. requests'[r].kind # "create"
    BY <1>1 DEF CommitCreate, Finish, Fill, Idle, IInv, GoodRequests
  <2>3. sessions'[s].worked
    BY <1>3, <1>4, <1>6, SessionRows DEF IInv, Session, Found
  <2> QED
    BY <1>1, <1>2, <2>1, <2>2, <2>3 DEF KeepsWork, Is
<1> QED
  BY <1>5, <1>6

LEMMA AnswersKeep ==
  ASSUME IInv, NEW r \in Requests, CommitSave(r) \/ CommitFill(r), NEW s \in Found
  PROVE  KeepsWork(s)
<1>1. PICK q, t : q = requests[r] /\ t = q.session
  OBVIOUS
<1>2. s \in Sessions /\ sessions[s] \in Session /\ sessions[s].status = "open"
  BY SessionRows DEF IInv, Found, IsOpen
<1>3. PICK worked \in {TRUE, FALSE, q.worked} :
        /\ sessions' = [sessions EXCEPT ![t].worked = worked]
        /\ CommitFill(r) => worked = q.worked
  BY <1>1 DEF CommitSave, CommitFill
<1>4. sessions'[s] = IF s = t THEN [sessions[s] EXCEPT !.worked = worked] ELSE sessions[s]
  BY <1>2, <1>3 DEF IInv, GoodSessions
<1>5. sessions'[s].status # "superseded"
  BY <1>2, <1>4 DEF Session
<1>6. requests'[r] # requests[r]
  BY DEF CommitSave, CommitFill, Is, Finish, Idle, IInv, GoodRequests
<1>7. CASE CommitSave(r)
  BY <1>5, <1>6, <1>7 DEF CommitSave, KeepsWork
<1>8. CASE CommitFill(r)
  <2>1. Is(r, "fill") /\ FillsAround(q)
    BY <1>1, <1>8 DEF CommitFill, Is, IInv, GoodRequests, Good
  <2>2. CASE s \in q.found
    <3>1. s = t => worked
      BY <1>1, <1>3, <1>8, <2>1, <2>2 DEF FillsAround
    <3>2. sessions'[s].worked
      BY <1>2, <1>4, <3>1 DEF Session, Found
    <3> QED
      BY <1>5, <3>2 DEF KeepsWork
  <2>3. CASE s \notin q.found
    BY <1>1, <1>5, <1>6, <2>1, <2>3 DEF KeepsWork
  <2> QED BY <2>2, <2>3
<1> QED
  BY <1>7, <1>8

LEMMA EndsKeep ==
  ASSUME IInv, NEW r \in Requests, CommitClose(r) \/ CommitTailor(r), NEW s \in Found
  PROVE  KeepsWork(s)
<1>0. PICK t : t = requests[r].session
  OBVIOUS
<1>1. PICK status \in {"abandoned", "tailored"} : sessions' = [sessions EXCEPT ![t].status = status]
  BY <1>0 DEF CommitClose, CommitTailor
<1>2. s \in Sessions /\ sessions[s] \in Session /\ sessions[s].status = "open"
  BY SessionRows DEF IInv, Found, IsOpen
<1>3. sessions'[s] = IF s = t THEN [sessions[s] EXCEPT !.status = status] ELSE sessions[s]
  BY <1>1, <1>2 DEF IInv, GoodSessions
<1>4. sessions'[s].worked /\ sessions'[s].status # "superseded"
  BY <1>1, <1>2, <1>3 DEF Session, Found
<1> QED
  BY <1>4 DEF KeepsWork

(* Answers that a quick tailor or a fill found are neither superseded by   *)
(* it nor overwritten, wherever it waits and whatever overlaps with it.    *)
THEOREM UserWorkIsKept == Spec => UserWorkKept
<1>1. ASSUME IInv, [Next]_vars, NEW s \in Found PROVE KeepsWork(s)
  <2>1. CASE UNCHANGED sessions
    BY <1>1, <2>1, SameKeeps
  <2>2. ASSUME NEW r \in Requests,
               CommitCreate(r) \/ CommitSave(r) \/ CommitFill(r) \/ CommitClose(r) \/ CommitTailor(r)
        PROVE  KeepsWork(s)
    BY <1>1, <2>2, CommitCreateKeeps, AnswersKeep, EndsKeep
  <2> QED
    BY <1>1, <2>1, <2>2
    DEF Next, vars, BeginCreate, LockCreate, BeginSave, BeginClose, BeginFill, TailorFilled,
        BeginTailor, BeginRender, Compile, CommitRender, Fail, RemoveFiles, EditDraft, ClearDraft,
        Materialize, Restore, DeleteApplication, FromBase, EditBase, Stop
<1>2. IInv /\ [Next]_vars =>
        [\A s \in Found :
           /\ ~sessions'[s].worked =>
                \E r \in Requests :
                   /\ requests'[r] # requests[r]
                   /\ Is(r, "save") \/ (Is(r, "fill") /\ s \notin requests[r].found)
           /\ sessions'[s].status = "superseded" =>
                \E r \in Requests :
                   /\ requests'[r] # requests[r] /\ Is(r, "create")
                   /\ ~requests[r].quick \/ s \notin requests[r].found]_vars
  BY <1>1 DEF KeepsWork
<1> QED
  BY <1>2, Invariance, PTL DEF Spec, UserWorkKept

-----------------------------------------------------------------------------
(* The PDF, when an application is left alone while it is rendered *)

Renders(r) == Is(r, "render")

LEMMA RenderIs ==
  ASSUME IInv, NEW r \in Requests, Renders(r)
  PROVE  /\ requests[r].app \in Apps /\ requests[r].draft \in Draft
         /\ requests[r].fills \in BOOLEAN /\ requests[r].hadPdf \in BOOLEAN
         /\ requests[r].locks => Holds(r)
BY Kinds DEF Renders, Is, IInv, GoodRequests, Holds

(* Two renders of one application have the same draft in hand.             *)
LEMMA RendersAgree ==
  ASSUME IInv, Shown, NEW r \in Requests, NEW o \in Requests, Renders(r), Renders(o),
         requests[r].app = requests[o].app
  PROVE  requests[r].draft = requests[o].draft /\ (requests[r].fills => o = r)
<1>1. Accurate(requests[r]) /\ Accurate(requests[o])
  BY DEF Shown, Renders
<1>2. requests[r].draft # NoDraft /\ requests[o].draft # NoDraft
  BY RenderIs, DraftIsNot
<1>3. requests[r].fills => requests[o].fills
  BY <1>1, <1>2 DEF Accurate
<1>4. requests[o].fills => requests[r].fills
  BY <1>1, <1>2 DEF Accurate
<1>5. requests[r].fills => o = r
  BY <1>1, <1>3, RenderIs DEF Accurate, IInv, GoodRequests, HeldAlone
<1>6. ~requests[r].fills => requests[r].draft = requests[o].draft
  BY <1>1, <1>4 DEF Accurate
<1> QED
  BY <1>5, <1>6

(* A request moves, and no row, file or removal changes.                   *)
LEMMA ShownMoves ==
  ASSUME Shown, requests \in [Requests -> Request], NEW r \in Requests, NEW q,
         requests' = [requests EXCEPT ![r] = q], UNCHANGED <<apps, file, doomed>>,
         q.kind = "render" => Accurate(q) /\ q.app \notin doomed
  PROVE  Shown'
<1>1. requests'[r] = q /\ \A o \in Requests : o # r => requests'[o] = requests[o]
  OBVIOUS
<1>2. \A o \in Requests : Is(o, "render")' => Accurate(requests[o])'
  BY <1>1 DEF Shown, Accurate, Is, Live
<1>3. \A a \in doomed' : ~apps'[a].pdf /\ ~Rendering(a)'
  BY <1>1 DEF Shown, Rendering, Is
<1>4. PdfShowsDraft' /\ \A a \in Apps : Live(a)' /\ apps'[a].draft = NoDraft => ~apps'[a].pdf
  BY DEF Shown, PdfShowsDraft, Live
<1> QED
  BY <1>2, <1>3, <1>4 DEF Shown, NoDraft

(* An application changes, without a PDF, while no render is about it.     *)
LEMMA ShownChanges ==
  ASSUME Shown, GoodApps, NEW a \in Apps, NEW row \in Application, ~row.pdf, ~Rendering(a),
         apps' = [apps EXCEPT ![a] = row], doomed' = doomed \cup Stale(a), file' = file,
         \A r \in Requests : Renders(r)' => requests'[r] = requests[r]
  PROVE  Shown'
<1>1. apps'[a] = row /\ \A b \in Apps : b # a => apps'[b] = apps[b]
  BY DEF GoodApps
<1>2. Stale(a) \subseteq {a}
  BY DEF Stale
<1>3. ASSUME NEW r \in Requests, Is(r, "render")' PROVE Accurate(requests[r])'
  <2>1. requests'[r] = requests[r] /\ Is(r, "render")
    BY <1>3 DEF Renders, Is
  <2>2. Accurate(requests[r]) /\ requests[r].app # a
    BY <2>1 DEF Shown, Rendering
  <2>3. requests[r].app \notin Apps \/ apps'[requests[r].app] = apps[requests[r].app]
    BY <1>1, <2>2
  <2>4. apps'[requests[r].app] = apps[requests[r].app]
    BY <2>2, <2>3 DEF GoodApps
  <2> QED
    BY <2>1, <2>2, <2>4 DEF Accurate, Live
<1>4. ASSUME NEW b \in doomed' PROVE ~apps'[b].pdf /\ ~Rendering(b)'
  <2>1. ~Rendering(b)
    BY <1>2, <1>4 DEF Shown
  <2>2. ~Rendering(b)'
    BY <2>1 DEF Rendering, Renders, Is
  <2>3. ~apps'[b].pdf
    BY <1>1, <1>2, <1>4 DEF Shown, GoodApps
  <2> QED
    BY <2>2, <2>3
<1>5. PdfShowsDraft' /\ \A b \in Apps : Live(b)' /\ apps'[b].draft = NoDraft => ~apps'[b].pdf
  BY <1>1 DEF Shown, PdfShowsDraft, Live
<1> QED
  BY <1>3, <1>4, <1>5 DEF Shown, NoDraft

LEMMA QuietIs == ASSUME NoRender, NEW a, Quiet(a) PROVE ~Rendering(a)
BY DEF NoRender, Quiet

LEMMA StoreShown ==
  ASSUME IInv, Shown, NoRender, NEW a \in Apps, NEW base \in Bases, NEW d \in Draft,
         StoreDraft(a, base, d),
         \A r \in Requests : Renders(r)' => requests'[r] = requests[r]
  PROVE  Shown'
<1>1. PICK row \in Application :
        /\ apps' = [apps EXCEPT ![a] = row]
        /\ row.state = "live" /\ row.base = base /\ row.draft = d /\ ~row.pdf
  BY StoredIs DEF IInv
<1>2. doomed' = doomed \cup Stale(a) /\ file' = file /\ ~Rendering(a)
  BY StoredIs, QuietIs DEF IInv
<1> QED
  BY <1>1, <1>2, ShownChanges DEF IInv

LEMMA StoresShown ==
  ASSUME IInv, Shown, NoRender, NEW a \in Apps,
         EditDraft(a) \/ Materialize(a) \/ (\E n \in 1..MaxVersions : Restore(a, n))
  PROVE  Shown'
<1>1. \E base \in Bases, d \in Draft : StoreDraft(a, base, d)
  <2>1. apps[a].base \in Bases /\ Baseline(a) \in Draft
    BY BaselineIs DEF EditDraft, Materialize, Restore
  <2>2. ASSUME EditDraft(a) PROVE [Baseline(a) EXCEPT !.edits = @ + 1] \in Draft
    BY <2>1, <2>2, Constants DEF EditDraft, Draft
  <2>3. CopyOf(apps[a].base) \in Draft
    BY <2>1, Copies DEF IInv
  <2>4. \A n \in 1..MaxVersions : Restore(a, n) => versions[a][n] \in Draft
    BY VersionsOf DEF Restore, IInv
  <2> QED
    BY <2>1, <2>2, <2>3, <2>4 DEF EditDraft, Materialize, Restore
<1>2. requests' = requests
  BY DEF EditDraft, Materialize, Restore
<1> QED
  BY <1>1, <1>2, StoreShown

LEMMA FromBaseShown ==
  ASSUME IInv, Shown, NoRender, NEW b \in Bases, FromBase(b)
  PROVE  Shown'
<1>1. PICK a \in ForJob, d \in {CopyOf(b)} : d = CopyOf(b) /\ StoreDraft(a, b, d)
  BY DEF FromBase
<1>2. d \in Draft /\ a \in Apps /\ requests' = requests
  BY <1>1, Copies, ForJobIn DEF IInv, FromBase
<1> QED
  BY <1>1, <1>2, StoreShown

LEMMA CommitTailorShown ==
  ASSUME IInv, Shown, NoRender, NEW r \in Requests, CommitTailor(r)
  PROVE  Shown'
<1>1. PICK q, d, b : q = requests[r] /\ d = q.draft /\ b = d.base
  OBVIOUS
<1>2. q \in Request /\ q.kind = "tailor"
  BY <1>1 DEF CommitTailor, Is, IInv, GoodRequests
<1>3. d \in Draft /\ b \in Bases
  BY <1>1, <1>2, Kinds DEF Draft
<1>4. PICK a \in ForJob : StoreDraft(a, b, d)
  BY <1>1 DEF CommitTailor
<1>5. \A o \in Requests : Renders(o)' => requests'[o] = requests[o]
  BY DEF CommitTailor, Finish, Renders, Is, Idle, IInv, GoodRequests
<1> QED
  BY <1>3, <1>4, <1>5, ForJobIn, StoreShown

LEMMA ClearsShown ==
  ASSUME IInv, Shown, NoRender, NEW a \in Apps, ClearDraft(a) \/ DeleteApplication(a)
  PROVE  Shown'
<1>1. PICK row : row = IF ClearDraft(a) THEN [WithoutArtifacts(apps[a]) EXCEPT !.draft = NoDraft]
                       ELSE [NotMade EXCEPT !.state = "gone"]
  OBVIOUS
<1>2. row \in Application /\ ~row.pdf
  BY <1>1 DEF IInv, GoodApps, Application, WithoutArtifacts, NotMade
<1>3. /\ apps' = [apps EXCEPT ![a] = row] /\ doomed' = doomed \cup Stale(a)
      /\ file' = file /\ requests' = requests /\ Quiet(a)
  BY <1>1 DEF ClearDraft, DeleteApplication
<1> QED
  BY <1>2, <1>3, QuietIs, ShownChanges DEF IInv

LEMMA BeginRenderShown ==
  ASSUME IInv, Shown, NoRender, NEW r \in Requests, NEW a \in Apps, BeginRender(r, a)
  PROVE  Shown'
<1>1. PICK q, fills : /\ fills = (apps[a].draft = NoDraft)
                      /\ q = [kind |-> "render", app |-> a, draft |-> Baseline(a), fills |-> fills,
                              locks |-> fills \/ ~apps[a].placed,
                              hadPdf |-> ~fills /\ apps[a].pdf, compiled |-> FALSE]
  OBVIOUS
<1>2. /\ requests' = [requests EXCEPT ![r] = q] /\ Live(a) /\ a \notin doomed
      /\ UNCHANGED <<apps, file, doomed>>
  BY <1>1 DEF BeginRender, Begin, NoRender
<1>3. /\ q.app = a /\ q.fills = fills /\ q.draft = Baseline(a) /\ q.compiled = FALSE
      /\ q.locks = (fills \/ ~apps[a].placed)
  BY <1>1
<1>4. Accurate(q)
  BY <1>1, <1>2, <1>3 DEF Accurate, Baseline
<1> QED
  BY <1>2, <1>3, <1>4, ShownMoves DEF IInv, GoodRequests

LEMMA RequestsShown ==
  ASSUME IInv, Shown, NEW r \in Requests,
         \/ \E b \in Bases, quick \in BOOLEAN : BeginCreate(r, b, quick)
         \/ \E s \in Sessions :
              BeginSave(r, s) \/ BeginClose(r, s) \/ BeginFill(r, s) \/ BeginTailor(r, s)
         \/ LockCreate(r) \/ CommitCreate(r) \/ CommitSave(r) \/ CommitClose(r)
         \/ CommitFill(r) \/ TailorFilled(r) \/ Fail(r)
  PROVE  Shown'
<1>1. UNCHANGED <<apps, file, doomed>>
  BY DEF BeginCreate, BeginSave, BeginClose, BeginFill, BeginTailor, LockCreate, CommitCreate,
         CommitSave, CommitClose, CommitFill, TailorFilled, Fail
<1>2. PICK q : requests' = [requests EXCEPT ![r] = q] /\ q.kind # "render"
  <2> DEFINE Moves == /\ requests' = [requests EXCEPT ![r] = requests'[r]]
                      /\ requests'[r].kind # "render"
  <2>0. requests \in [Requests -> Request]
    BY DEF IInv, GoodRequests
  <2>1. \A b \in Bases, quick \in BOOLEAN : BeginCreate(r, b, quick) => Moves
    BY <2>0 DEF BeginCreate, Begin
  <2>2. ASSUME NEW s \in Sessions
        PROVE  BeginSave(r, s) \/ BeginClose(r, s) \/ BeginFill(r, s) => Moves
    BY <2>0 DEF BeginSave, BeginClose, BeginFill, Fill, Begin
  <2>3. \A s \in Sessions : BeginTailor(r, s) => Moves
    BY <2>0 DEF BeginTailor, TailorRequest, Begin
  <2>4. Finish(r) => Moves
    BY <2>0 DEF Finish, Idle
  <2>5. CommitSave(r) \/ CommitClose(r) \/ Fail(r) => Moves
    BY <2>4 DEF CommitSave, CommitClose, Fail
  <2>6. CommitCreate(r) \/ CommitFill(r) => Moves
    BY <2>0, <2>4 DEF CommitCreate, CommitFill, Fill
  <2>7. LockCreate(r) \/ TailorFilled(r) => Moves
    BY <2>0 DEF LockCreate, TailorFilled, TailorRequest
  <2>8. Moves
    BY <2>1, <2>2, <2>3, <2>5, <2>6, <2>7
  <2> QED
    BY <2>8
<1> QED
  BY <1>1, <1>2, ShownMoves DEF IInv, GoodRequests

LEMMA CompileShown ==
  ASSUME IInv, Shown, NEW r \in Requests, Compile(r)
  PROVE  Shown'
<1>1. PICK q, p, a : q = requests[r] /\ p = [q EXCEPT !.compiled = TRUE] /\ a = q.app
  OBVIOUS
<1>2. q \in Render /\ Renders(r)
  BY <1>1, Kinds DEF Compile, Is, IInv, GoodRequests, Renders
<1>3. /\ p.kind = "render" /\ p.app = a /\ p.draft = q.draft /\ p.fills = q.fills
      /\ p.locks = q.locks /\ a \in Apps
  BY <1>1, <1>2 DEF Render
<1>4. /\ requests'[r] = p /\ \A o \in Requests : o # r => requests'[o] = requests[o]
      /\ file'[a] = q.draft /\ \A b \in Apps : b # a => file'[b] = file[b]
      /\ UNCHANGED <<apps, doomed>>
  BY <1>1, <1>3 DEF Compile, IInv, GoodRequests, GoodFiles
<1>5. Accurate(q) /\ a \notin doomed
  BY <1>1, <1>2 DEF Shown, Rendering, Renders
<1>6. ASSUME NEW o \in Requests, Is(o, "render")' PROVE Accurate(requests[o])'
  <2>1. CASE o = r
    <3>1. requests'[o] = p /\ p.app = a /\ p.draft = q.draft /\ file'[a] = q.draft /\ apps' = apps
      BY <1>3, <1>4, <2>1
    <3>2. /\ Live(a) /\ (q.fills => apps[a].draft = NoDraft /\ q.locks)
          /\ (~q.fills => apps[a].draft = q.draft)
      BY <1>1, <1>5 DEF Accurate
    <3> QED
      BY <1>3, <3>1, <3>2 DEF Accurate, Live, NoDraft
  <2>2. CASE o # r
    <3>1. requests'[o] = requests[o] /\ Renders(o) /\ requests[o].app \in Apps
      BY <1>4, <1>6, <2>2, RenderIs DEF Is, Renders
    <3>2. requests[o].app = a => requests[o].draft = q.draft
      BY <1>1, <1>2, <3>1, RendersAgree
    <3>3. Accurate(requests[o])
      BY <3>1 DEF Shown, Renders
    <3> QED
      BY <1>4, <3>1, <3>2, <3>3 DEF Accurate, Live
  <2> QED BY <2>1, <2>2
<1>7. ASSUME NEW b \in doomed' PROVE ~apps'[b].pdf /\ ~Rendering(b)'
  <2>1. b \in doomed /\ b # a /\ ~apps[b].pdf /\ ~Rendering(b)
    BY <1>4, <1>5, <1>7 DEF Shown
  <2>2. \A o \in Requests : requests'[o].app = b /\ Is(o, "render")' => o # r
    BY <1>3, <1>4, <2>1
  <2>3. ~Rendering(b)'
    BY <1>4, <2>1, <2>2 DEF Rendering, Is
  <2> QED
    BY <1>4, <2>1, <2>3
<1>8. PdfShowsDraft'
  <2>1. Live(a) /\ apps[a].pdf => q.draft = apps[a].draft
    BY <1>1, <1>3, <1>5 DEF Accurate, Shown
  <2> QED
    BY <1>4, <2>1 DEF Shown, PdfShowsDraft, Live
<1>9. \A b \in Apps : Live(b)' /\ apps'[b].draft = NoDraft => ~apps'[b].pdf
  BY <1>4 DEF Shown, Live
<1> QED
  BY <1>6, <1>7, <1>8, <1>9 DEF Shown, NoDraft

LEMMA CommitRenderShown ==
  ASSUME IInv, Shown, NEW r \in Requests, CommitRender(r)
  PROVE  Shown'
<1>1. PICK q, a : q = requests[r] /\ a = q.app
  OBVIOUS
<1>2. PICK row \in Application :
        /\ apps' = [apps EXCEPT ![a] = row]
        /\ row.state = "live" /\ row.base = apps[a].base
        /\ row.draft = IF q.fills THEN q.draft ELSE apps[a].draft
  BY <1>1, CommitRenderIs
<1>3. a \in Apps /\ q.draft \in Draft /\ Live(a) /\ q.compiled /\ Renders(r)
  BY <1>1, CommitRenderIs DEF Renders, Is
<1>4. Accurate(q) /\ a \notin doomed
  BY <1>1, <1>3 DEF Shown, Rendering, Renders
<1>5. row.draft = q.draft /\ row.draft # NoDraft /\ file[a] = row.draft
  BY <1>1, <1>2, <1>3, <1>4, DraftIsNot DEF Accurate
<1>6. /\ requests'[r] = Idle /\ \A o \in Requests : o # r => requests'[o] = requests[o]
      /\ UNCHANGED <<file, doomed>>
      /\ apps'[a] = row /\ \A b \in Apps : b # a => apps'[b] = apps[b]
  BY <1>2, <1>3 DEF CommitRender, Finish, IInv, GoodRequests, GoodApps
<1>7. ASSUME NEW o \in Requests, Is(o, "render")' PROVE Accurate(requests[o])'
  <2>1. o # r /\ requests'[o] = requests[o] /\ Renders(o)
    BY <1>6, <1>7 DEF Is, Idle, Renders
  <2>2. requests[o].app \in Apps /\ Accurate(requests[o])
    BY <2>1, RenderIs DEF Shown, Renders
  <2>3. CASE requests[o].app # a
    BY <1>6, <2>1, <2>2, <2>3 DEF Accurate, Live
  <2>4. CASE requests[o].app = a
    <3>1. ~requests[o].fills /\ requests[o].draft = q.draft
      BY <1>1, <1>3, <2>1, <2>4, RendersAgree
    <3> QED
      BY <1>2, <1>5, <1>6, <2>1, <2>2, <2>4, <3>1 DEF Accurate, Live
  <2> QED BY <2>3, <2>4
<1>8. ASSUME NEW b \in doomed' PROVE ~apps'[b].pdf /\ ~Rendering(b)'
  <2>1. b \in doomed /\ b # a /\ b \in Apps
    BY <1>4, <1>6, <1>8 DEF IInv, GoodFiles
  <2> QED
    BY <1>6, <2>1 DEF Shown, Rendering, Is, Idle
<1>9. PdfShowsDraft' /\ \A b \in Apps : Live(b)' /\ apps'[b].draft = NoDraft => ~apps'[b].pdf
  BY <1>5, <1>6 DEF Shown, PdfShowsDraft, Live
<1> QED
  BY <1>7, <1>8, <1>9 DEF Shown, NoDraft

LEMMA RemoveFilesShown ==
  ASSUME IInv, Shown, NEW a \in Apps, RemoveFiles(a)
  PROVE  Shown'
<1>1. /\ a \in doomed /\ UNCHANGED <<apps, requests>> /\ doomed' \subseteq doomed
      /\ \A b \in Apps : b # a => file'[b] = file[b]
  BY DEF RemoveFiles, IInv, GoodFiles
<1>2. ~apps[a].pdf /\ ~Rendering(a)
  BY <1>1 DEF Shown
<1>3. \A r \in Requests : Is(r, "render") => requests[r].app \in Apps /\ requests[r].app # a
  BY <1>2, RenderIs DEF Rendering, Renders
<1> QED
  BY <1>1, <1>2, <1>3 DEF Shown, PdfShowsDraft, Rendering, Accurate, Is, Live, NoDraft

LEMMA StopShown == ASSUME Shown, Stop PROVE Shown'
<1>1. UNCHANGED <<apps, file>> /\ doomed' = {} /\ \A r \in Requests : ~Is(r, "render")'
  BY DEF Stop, Is, Idle
<1> QED
  BY <1>1 DEF Shown, PdfShowsDraft, Live, NoDraft

LEMMA SameShown == ASSUME Shown, UNCHANGED <<apps, file, doomed, requests>> PROVE Shown'
BY DEF Shown, PdfShowsDraft, Rendering, Accurate, Is, Live, NoDraft

LEMMA NextShown == ASSUME NoRender PROVE IInv /\ Shown /\ [Next]_vars => Shown'
<1> SUFFICES ASSUME IInv, Shown, [Next]_vars PROVE Shown'
  OBVIOUS
<1>1. CASE UNCHANGED vars
  BY <1>1, SameShown DEF vars
<1>2. ASSUME NEW r \in Requests,
             \/ \E b \in Bases, quick \in BOOLEAN : BeginCreate(r, b, quick)
             \/ \E s \in Sessions :
                  BeginSave(r, s) \/ BeginClose(r, s) \/ BeginFill(r, s) \/ BeginTailor(r, s)
             \/ LockCreate(r) \/ CommitCreate(r) \/ CommitSave(r) \/ CommitClose(r)
             \/ CommitFill(r) \/ TailorFilled(r) \/ Fail(r)
      PROVE  Shown'
  BY <1>2, RequestsShown
<1>3. ASSUME NEW r \in Requests, CommitTailor(r) \/ Compile(r) \/ CommitRender(r) PROVE Shown'
  BY <1>3, CommitTailorShown, CompileShown, CommitRenderShown
<1>4. ASSUME NEW r \in Requests, NEW a \in Apps, BeginRender(r, a) PROVE Shown'
  BY <1>4, BeginRenderShown
<1>5. ASSUME NEW a \in Apps,
             RemoveFiles(a) \/ EditDraft(a) \/ ClearDraft(a) \/ Materialize(a)
             \/ (\E n \in 1..MaxVersions : Restore(a, n)) \/ DeleteApplication(a)
      PROVE  Shown'
  BY <1>5, RemoveFilesShown, StoresShown, ClearsShown
<1>6. ASSUME NEW b \in Bases, FromBase(b) \/ EditBase(b) PROVE Shown'
  BY <1>6, FromBaseShown, SameShown DEF EditBase
<1>7. CASE Stop
  BY <1>7, StopShown
<1> QED
  BY <1>1, <1>2, <1>3, <1>4, <1>5, <1>6, <1>7 DEF Next

LEMMA InitShown == Init => Shown
<1> SUFFICES ASSUME Init PROVE Shown
  OBVIOUS
<1>1. \A r \in Requests : ~Is(r, "render")
  BY DEF Init, Is, Idle
<1>2. \A a \in Apps : ~Live(a)
  BY DEF Init, Live, NotMade
<1> QED
  BY <1>1, <1>2 DEF Init, Shown, PdfShowsDraft

(* If an application is left alone while it is rendered, and until its old *)
(* file is removed, a named PDF exists and shows the draft.                *)
THEOREM PdfShowsDraftAlways == NoRender => (Spec => []PdfShowsDraft)
<1> SUFFICES ASSUME NoRender PROVE Spec => []PdfShowsDraft
  OBVIOUS
<1>1. IInv /\ Shown /\ [Next]_vars => Shown'
  BY NextShown
<1>2. Shown => PdfShowsDraft
  BY DEF Shown
<1> QED
  BY <1>1, <1>2, InitShown, Invariance, PTL DEF Spec

=============================================================================
