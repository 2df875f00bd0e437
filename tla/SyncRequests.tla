---------------------------- MODULE SyncRequests ----------------------------
(***************************************************************************)
(* A change the user wants on a job that the other copy owns: it is stored *)
(* as a request (services/sync/requests.py), travels with a round in       *)
(* either direction (services/sync/round.py, _requests; routers/sync.py),  *)
(* is applied once under the owner's rules (request_apply.py) and is       *)
(* answered.                                                               *)
(*                                                                         *)
(* Every change the user makes, on either copy, is a click with a number   *)
(* of its own.  A payload says for each field of its target which click it *)
(* holds, 0 for none.  Requests are numbered in the order they were made.  *)
(* Jobs change hands in the step of a round that follows this one; here    *)
(* that is one step (SyncHandover has the protocol).                       *)
(***************************************************************************)
EXTENDS Integers, Sequences, FiniteSets, FiniteSetsExt

CONSTANTS
  Jobs,
  Targets,    \* applications and proposals
  JobOf,      \* the job of a target
  Proposals,  \* the targets that are proposals: a decision replaces all
  MaxClicks,  \* bounds the changes the user makes
  Windows     \* the timings that may happen: "resend", "returned", "direct"

ASSUME ConstantsOK ==
  /\ JobOf \in [Targets -> Jobs]
  /\ Targets # {}
  /\ Proposals \subseteq Targets
  /\ MaxClicks \in Nat
  /\ Windows \subseteq {"resend", "returned", "direct"}

VARIABLES
  owner,     \* the copy that owns a job
  offered,   \* home's jobs that are offered to the bot
  clicks,    \* the copy that each click so far was made on
  value,     \* the click that each field of a target shows, on its owner
  rows,      \* sync_requests with origin "local", on the copy that made them
  records,   \* sync_requests with origin "remote", on the other copy
  uses,      \* how often a request was applied, and the payload it had then
  step,      \* where the round is
  inbox,     \* home's requests that the round fetched and has not answered
  page,      \* the bot's requests that the round listed
  arriving,  \* those that home received and has not answered
  posted,    \* those that may have been received in any round
  results    \* the answers collected so far

round == <<step, inbox, page, arriving, posted, results>>
vars == <<owner, offered, clicks, value, rows, records, uses, round>>

-----------------------------------------------------------------------------
Copies == {"home", "bot"}
Other(c) == IF c = "home" THEN "bot" ELSE "home"
Fields == {"status", "notes"}
Ids == 1..MaxClicks

Payload == [Fields -> 0..MaxClicks]
Empty == [f \in Fields |-> 0]
Carries(fields, click) == [f \in Fields |-> IF f \in fields THEN click ELSE 0]
Merge(old, new) == [f \in Fields |-> IF new[f] # 0 THEN new[f] ELSE old[f]]

Row == [by : Copies, target : Targets, payload : Payload,
        status : {"none", "pending", "sent", "applied", "refused"}]
NotMade == [by |-> "home", target |-> CHOOSE t \in Targets : TRUE,
            payload |-> Empty, status |-> "none"]

Outcomes == {"applied", "refused"}
Waiting(i) == rows[i].status \in {"pending", "sent"}
JobOfRequest(i) == JobOf[rows[i].target]
Made(c) == {i \in Ids : rows[i].by = c /\ rows[i].status # "none"}

(* A mapping of some request ids. *)
Nothing == [i \in {} |-> 0]
Without(m, i) == [k \in DOMAIN m \ {i} |-> m[k]]
Adding(m, i, x) == [k \in DOMAIN m \cup {i} |-> IF k = i THEN x ELSE m[k]]
PayloadsOf(ids) == [i \in ids |-> rows[i].payload]

Init ==
  /\ owner \in [Jobs -> Copies] /\ offered = {}
  /\ clicks = <<>>
  /\ value = [t \in Targets |-> Empty]
  /\ rows = [i \in Ids |-> NotMade]
  /\ records = [i \in Ids |-> "none"]
  /\ uses = [i \in Ids |-> [times |-> 0, payload |-> Empty]]
  /\ step = "idle" /\ inbox = Nothing /\ page = {} /\ arriving = Nothing
  /\ posted = {} /\ results = Nothing

-----------------------------------------------------------------------------
(* The user *)

(* _earlier_pending: the first request for the target that is not sent.    *)
\* mutant: one that was sent is folded into as well
OpenFor(c, t) == {i \in Made(c) : rows[i].target = t /\ Waiting(i)}

EarlierPending(c, t) ==
  {i \in Made(c) : rows[i].target = t /\ rows[i].status = "pending"}

Folded(i, payload) ==
  IF rows[i].target \in Proposals THEN payload ELSE Merge(rows[i].payload, payload)

(* A request on its way is one home may have received, or one that the     *)
(* round has read on its copy: at home and not marked yet, on the bot and  *)
(* not sent yet (it sends what the select loaded).                         *)
OnItsWay(i) ==
  \/ i \in posted
  \/ step = "mark" /\ i \in DOMAIN inbox
  \/ step = "settle" /\ i \in page

Enqueue(c, t, payload) ==
  LET earlier == EarlierPending(c, t)
  IN  IF earlier # {}
      THEN LET i == Min(earlier)
           IN  /\ "resend" \in Windows \/ ~OnItsWay(i)
               /\ rows' = [rows EXCEPT ![i].payload = Folded(i, payload)]
      ELSE \E i \in Ids :
             /\ i = Cardinality(Made("home") \cup Made("bot")) + 1
             /\ rows' = [rows EXCEPT ![i] = [by |-> c, target |-> t, payload |-> payload,
                                             status |-> "pending"]]

FieldsOf(t) == IF t \in Proposals THEN {{"status"}} ELSE SUBSET Fields \ {{}}

(* A status, note or decision on either copy: applied on the owner, stored *)
(* as a request on the other; an offered job is read-only (require_owned). *)
Click(c, t, fields) ==
  LET n == Len(clicks) + 1
      payload == Carries(fields, n)
  IN  /\ n <= MaxClicks /\ clicks' = Append(clicks, c)
      /\ IF owner[JobOf[t]] = c
         THEN /\ JobOf[t] \notin offered
              /\ "direct" \in Windows \/ ~\E i \in Made(c) : rows[i].target = t /\ Waiting(i)
              /\ value' = [value EXCEPT ![t] = Merge(@, payload)]
              /\ UNCHANGED rows
         ELSE Enqueue(c, t, payload) /\ UNCHANGED value
      /\ UNCHANGED <<owner, offered, records, uses, round>>

Offer(j) ==
  /\ owner[j] = "home"
  /\ offered' = IF j \in offered THEN offered \ {j} ELSE offered \cup {j}
  /\ UNCHANGED <<owner, clicks, value, rows, records, uses, round>>

-----------------------------------------------------------------------------
(* services/sync/request_apply.py *)

Uses(i, payload) == [uses EXCEPT ![i] = [times |-> IF @.times = 0 THEN 1 ELSE 2,
                                         payload |-> payload]]

(* The rules of the owner may always refuse; a job that is elsewhere or    *)
(* offered is refused.                                                     *)
OwnJob(c, i) == owner[JobOfRequest(i)] = c /\ JobOfRequest(i) \notin offered

Apply(i, payload) ==
  /\ value' = [value EXCEPT ![rows[i].target] = Merge(@, payload)]
  /\ uses' = Uses(i, payload)

NotApplied == UNCHANGED <<value, uses>>

(* settle: the record commits with the change. *)
Settle(c, i, payload, outcome) ==
  /\ \/ outcome = "applied" /\ OwnJob(c, i) /\ Apply(i, payload)
     \/ outcome = "refused" /\ NotApplied
  /\ records' = [records EXCEPT ![i] = outcome]

Forgotten(i) == "none"  \* mutant: the record is not looked up
Earlier(i) == records[i]

(* answer: a resend is answered as before. *)
Answer(c, i, payload, outcome) ==
  IF Earlier(i) # "none"
  THEN outcome = records[i] /\ NotApplied /\ UNCHANGED records
  ELSE Settle(c, i, payload, outcome)

-----------------------------------------------------------------------------
(* The round's step 8: home's requests *)

StartRound ==
  /\ step = "idle" /\ step' = "read"
  /\ arriving' = Nothing
  /\ UNCHANGED <<owner, offered, clicks, value, rows, records, uses, inbox, page, posted, results>>

ServedOnce == {i \in Made("home") : rows[i].status = "pending" /\ owner[JobOfRequest(i)] = "bot"}  \* mutant
Served == {i \in Made("home") : Waiting(i) /\ owner[JobOfRequest(i)] = "bot"}

(* get_requests: the select, and then the commit of the marks. *)
ReadRequests ==
  /\ step = "read" /\ step' = "mark"
  /\ inbox' = PayloadsOf(Served)
  /\ UNCHANGED <<owner, offered, clicks, value, rows, records, uses, page, arriving, posted, results>>

MarkSent ==
  /\ step = "mark" /\ step' = "answer"
  /\ rows' = [i \in Ids |-> IF i \in DOMAIN inbox THEN [rows[i] EXCEPT !.status = "sent"]
                            ELSE rows[i]]
  /\ UNCHANGED <<owner, offered, clicks, value, records, uses, inbox, page, arriving, posted, results>>

LatestOf(ids) == Max(ids)  \* mutant: not in the order they were made
NextOf(ids) == Min(ids)

AnswerHome ==
  /\ step = "answer" /\ DOMAIN inbox # {}
  /\ LET i == NextOf(DOMAIN inbox)
     IN  \E outcome \in Outcomes :
           /\ Answer("bot", i, inbox[i], outcome)
           /\ results' = Adding(results, i, outcome)
           /\ inbox' = Without(inbox, i)
  /\ UNCHANGED <<owner, offered, clicks, rows, step, page, arriving, posted>>

Answered(answers) ==
  [i \in Ids |-> IF i \in DOMAIN answers /\ rows[i].status = "sent"
                 THEN [rows[i] EXCEPT !.status = answers[i]]
                 ELSE rows[i]]

(* post_request_results *)
PostResults ==
  /\ step = "answer" /\ DOMAIN inbox = {} /\ step' = "list"
  /\ rows' = Answered(results)
  /\ results' = Nothing
  /\ UNCHANGED <<owner, offered, clicks, value, records, uses, inbox, page, arriving, posted>>

-----------------------------------------------------------------------------
(* The round's step 8: the bot's own requests, _send_local_requests *)

ListLocal ==
  /\ step = "list" /\ step' = "settle"
  /\ page' = {i \in Made("bot") : rows[i].status = "pending"}
  /\ UNCHANGED <<owner, offered, clicks, value, rows, records, uses, inbox, arriving, posted, results>>

OursNow == {i \in page : owner[JobOfRequest(i)] = "bot"}

(* settle_stored: the job came here since.  The status commits with the    *)
(* change.                                                                 *)
SettleStored ==
  /\ step = "settle" /\ OursNow # {}
  /\ LET i == NextOf(OursNow)
     IN  \E outcome \in Outcomes :
           /\ outcome = "applied" => Apply(i, rows[i].payload)
           /\ outcome = "refused" => NotApplied
           /\ rows' = [rows EXCEPT ![i].status = outcome]
           /\ page' = page \ {i}
  /\ UNCHANGED <<owner, offered, clicks, records, step, inbox, arriving, posted, results>>

SendLocal ==
  /\ step = "settle" /\ OursNow = {}
  /\ step' = "post"
  /\ arriving' = PayloadsOf(page)
  /\ posted' = posted \cup page
  /\ UNCHANGED <<owner, offered, clicks, value, rows, records, uses, inbox, page, results>>

(* post_requests, one commit per request; home may finish what a round     *)
(* that gave up had sent.                                                  *)
AnswerBot ==
  /\ DOMAIN arriving # {}
  /\ LET i == NextOf(DOMAIN arriving)
     IN  \E outcome \in Outcomes :
           /\ Answer("home", i, arriving[i], outcome)
           /\ results' = IF step = "post" THEN Adding(results, i, outcome) ELSE results
           /\ arriving' = Without(arriving, i)
  /\ UNCHANGED <<owner, offered, clicks, rows, step, inbox, page, posted>>

StoreAnswers ==
  /\ step = "post" /\ DOMAIN arriving = {} /\ step' = "move"
  /\ rows' = [i \in Ids |-> IF i \in DOMAIN results THEN [rows[i] EXCEPT !.status = results[i]]
                            ELSE rows[i]]
  /\ page' = {} /\ results' = Nothing
  /\ UNCHANGED <<owner, offered, clicks, value, records, uses, inbox, arriving, posted>>

-----------------------------------------------------------------------------
(* The round's step 9, and its end *)

Unoffered(j) == offered \ {j}

(* An offer is committed, or the bot returns a job. *)
MoveJob(j) ==
  /\ step = "move"
  /\ \/ owner[j] = "home" /\ j \in offered
     \/ /\ owner[j] = "bot"
        /\ "returned" \in Windows \/ ~\E i \in Made("home") : JobOfRequest(i) = j /\ Waiting(i)
  /\ owner' = [owner EXCEPT ![j] = Other(@)]
  /\ offered' = Unoffered(j)
  /\ UNCHANGED <<clicks, value, rows, records, uses, round>>

FinishRound ==
  /\ step = "move" /\ step' = "idle"
  /\ UNCHANGED <<owner, offered, clicks, value, rows, records, uses,
                 inbox, page, arriving, posted, results>>

(* A call fails or times out, or the bot's process stops; in step 9 that   *)
(* is the end of the round as well.                                        *)
GiveUp ==
  /\ step \notin {"idle", "move"} /\ step' = "idle"
  /\ inbox' = Nothing /\ page' = {} /\ results' = Nothing
  /\ UNCHANGED <<owner, offered, clicks, value, rows, records, uses, arriving, posted>>

-----------------------------------------------------------------------------
UserStep ==
  \/ \E c \in Copies, t \in Targets : \E fields \in FieldsOf(t) : Click(c, t, fields)
  \/ \E j \in Jobs : Offer(j)

RoundStep ==
  \/ StartRound \/ ReadRequests \/ MarkSent \/ AnswerHome \/ PostResults
  \/ ListLocal \/ SettleStored \/ SendLocal \/ StoreAnswers \/ FinishRound

Next ==
  \/ UserStep \/ RoundStep \/ AnswerBot \/ GiveUp
  \/ \E j \in Jobs : MoveJob(j)

Spec == Init /\ [][Next]_vars

(* A round is started every few minutes and takes its steps; home answers  *)
(* what it received; the calls fail only so often.                         *)
Recovers == <>[][~GiveUp]_vars
FairSpec == Spec /\ WF_vars(RoundStep) /\ WF_vars(AnswerBot) /\ Recovers

-----------------------------------------------------------------------------
(* Properties *)

(* Requests, records and the round's collections stay in their domains.    *)
TypeOK ==
  /\ owner \in [Jobs -> Copies] /\ offered \subseteq {j \in Jobs : owner[j] = "home"}
  /\ Len(clicks) <= MaxClicks
  /\ value \in [Targets -> Payload]
  /\ rows \in [Ids -> Row]
  /\ records \in [Ids -> Outcomes \cup {"none"}]
  /\ uses \in [Ids -> [times : 0..2, payload : Payload]]
  /\ step \in {"idle", "read", "mark", "answer", "list", "settle", "post", "move"}
  /\ DOMAIN inbox \subseteq Made("home") /\ inbox \in [DOMAIN inbox -> Payload]
  /\ DOMAIN arriving \subseteq Made("bot") /\ arriving \in [DOMAIN arriving -> Payload]
  /\ page \cup posted \subseteq Made("bot")
  /\ DOMAIN results \subseteq Ids /\ results \in [DOMAIN results -> Outcomes]

(* However often it is sent, by rounds that stop anywhere, and wherever    *)
(* its job is by then, a request is applied at most once (answer, settle,  *)
(* settle_stored; _requests before _handovers).                            *)
AppliedOnce == \A i \in Ids : uses[i].times <= 1

(* A request that is shown as applied had everything applied that is in    *)
(* it, and one shown as refused nothing ("a request already sent is never  *)
(* touched", enqueue).                                                     *)
AnsweredAsDone ==
  \A i \in Ids :
    /\ rows[i].status = "applied" => uses[i].times > 0 /\ uses[i].payload = rows[i].payload
    /\ rows[i].status = "refused" => uses[i].times = 0

(* What the user did later on a copy is not replaced by what they did      *)
(* earlier there (post_requests and get_requests in the order of making).  *)
NewestStands ==
  [][\A t \in Targets, f \in Fields :
       LET old == value[t][f]
           new == value'[t][f]
       IN  old # 0 /\ new # old /\ clicks'[new] = clicks'[old] => new > old]_vars

(* A stored request is applied or refused in the end ("Sent at the next    *)
(* sync", QUEUED_DETAIL).                                                  *)
RequestIsAnswered ==
  \A i \in Ids : Waiting(i) ~> rows[i].status \in Outcomes
=============================================================================
