------------------------- MODULE SyncRequests_proofs -------------------------
(***************************************************************************)
(* Proofs about SyncRequests, for any jobs, targets and number of clicks:  *)
(* its types, that a request is applied at most once, on whichever timing, *)
(* that its answer says what was done if no click folds into a request     *)
(* that is on its way, and that no older change of a copy replaces a newer *)
(* one if no change is made at once over a request of that copy.           *)
(***************************************************************************)
EXTENDS SyncRequests, FiniteSetTheorems, WellFoundedInduction, TLAPS

-----------------------------------------------------------------------------
(* The inductive invariant *)

Typed == TypeOK /\ clicks \in Seq(Copies)

(* Requests are numbered as they are made.                                 *)
Numbered == \E n \in 0..MaxClicks : {i \in Ids : rows[i].status # "none"} = 1..n

Settled(i) == rows[i].status \in Outcomes
Unanswered(i) == rows[i].status = "pending"
Times(outcome) == IF outcome = "applied" THEN 1 ELSE 0

(* What was done for a request: nothing for one that is not made, what the *)
(* record of the other copy says, or, for one of the bot's that was        *)
(* settled where it was made, what its own status says.                    *)
Unmade == \A i \in Ids : rows[i].status = "none" => records[i] = "none" /\ uses[i].times = 0

HomeRows ==
  \A i \in Made("home") :
    /\ uses[i].times = Times(records[i])
    /\ Unanswered(i) => records[i] = "none"
    /\ Settled(i) => records[i] = rows[i].status

(* The heart: a request of the bot's that home has decided, or is about    *)
(* to, and that the bot has no answer to, is about a job of home's.        *)
BotRows ==
  \A i \in Made("bot") :
    /\ rows[i].status # "sent"
    /\ Unanswered(i) => uses[i].times = Times(records[i])
    /\ Settled(i) => uses[i].times = Times(rows[i].status)
    /\ Unanswered(i) /\ (records[i] # "none" \/ i \in DOMAIN arriving) =>
         owner[JobOfRequest(i)] = "home"

(* What the round holds.  Before a job moves, every request that home has  *)
(* decided is answered.                                                    *)
Arrivals ==
  /\ step \notin {"idle", "post"} => DOMAIN arriving = {}
  /\ \A i \in DOMAIN arriving : Unanswered(i)

HomeInbox ==
  /\ step \notin {"mark", "answer"} => DOMAIN inbox = {}
  /\ step = "mark" => \A i \in DOMAIN inbox : Waiting(i)
  /\ step = "answer" => \A i \in DOMAIN inbox : rows[i].status = "sent"
  /\ step = "answer" => \A i \in DOMAIN results :
       i \in Made("home") /\ rows[i].status = "sent" /\ results[i] = records[i]

BotPage ==
  /\ step \notin {"answer", "post"} => DOMAIN results = {}
  /\ step \notin {"settle", "post"} => page = {}
  /\ \A i \in page : Unanswered(i)
  /\ step = "post" => /\ page = DOMAIN arriving \cup DOMAIN results
                      /\ \A i \in DOMAIN results : results[i] = records[i]
  /\ step \in {"settle", "post", "move"} =>
       \A i \in Made("bot") : Unanswered(i) /\ records[i] # "none" => i \in page

IInv == Typed /\ Numbered /\ Unmade /\ HomeRows /\ BotRows /\ Arrivals /\ HomeInbox /\ BotPage

(* As long as no click folds into a request that is on its way, what the   *)
(* round carries, and what was applied, is what the request says.          *)
NoResend == "resend" \notin Windows
Faithful ==
  /\ \A i \in Ids : uses[i].times # 0 => uses[i].payload = rows[i].payload
  /\ \A i \in DOMAIN inbox : inbox[i] = rows[i].payload
  /\ \A i \in DOMAIN arriving : arriving[i] = rows[i].payload
  /\ \A i \in Made("bot") : records[i] # "none" \/ i \in DOMAIN arriving => i \in posted

-----------------------------------------------------------------------------
(* Numbers and mappings *)

LEMMA Bounds == MaxClicks \in Nat /\ JobOf \in [Targets -> Jobs] /\ Targets # {}
BY ConstantsOK

(* The first of some numbers is one of them.                               *)
LEMMA MinIn == ASSUME NEW S \in SUBSET Nat, S # {} PROVE Min(S) \in S
<1> DEFINE R == OpToRel(<, Nat)
<1>1. IsWellFoundedOn(R, Nat) BY NatLessThanWellFounded
<1> HIDE DEF R
<1>2. PICK x \in S : \A y \in S : ~ (<<y, x>> \in R) BY <1>1, WFMin
<1>3. \A y \in S : x <= y
  <2> TAKE y \in S
  <2>1. y < x => <<y, x>> \in R BY DEF R, OpToRel
  <2> QED BY <1>2, <2>1
<1> QED BY <1>2, <1>3 DEF Min

LEMMA FirstId == ASSUME NEW S \in SUBSET Ids, S # {} PROVE NextOf(S) \in S
<1>1. S \in SUBSET Nat BY Bounds DEF Ids
<1> QED BY <1>1, MinIn DEF NextOf

LEMMA EarlierId == ASSUME NEW c, NEW t, EarlierPending(c, t) # {}
                   PROVE  Min(EarlierPending(c, t)) \in EarlierPending(c, t)
<1>1. EarlierPending(c, t) \in SUBSET Nat BY Bounds DEF EarlierPending, Made, Ids
<1> QED BY <1>1, MinIn

LEMMA Taking == ASSUME NEW m, NEW i
                PROVE  /\ DOMAIN Without(m, i) = DOMAIN m \ {i}
                       /\ \A k \in DOMAIN m \ {i} : Without(m, i)[k] = m[k]
BY DEF Without

LEMMA TakingTypes == ASSUME NEW T, NEW m, m \in [DOMAIN m -> T], NEW i
                     PROVE  Without(m, i) \in [DOMAIN Without(m, i) -> T]
BY DEF Without

LEMMA PuttingTypes == ASSUME NEW T, NEW m, m \in [DOMAIN m -> T], NEW i, NEW x \in T
                      PROVE  Adding(m, i, x) \in [DOMAIN Adding(m, i, x) -> T]
BY DEF Adding

LEMMA NothingTypes == ASSUME NEW T
                      PROVE  DOMAIN Nothing = {} /\ Nothing \in [DOMAIN Nothing -> T]
BY DEF Nothing

LEMMA Payloads == ASSUME TypeOK, NEW ids \in SUBSET Ids
                  PROVE  /\ DOMAIN PayloadsOf(ids) = ids
                         /\ PayloadsOf(ids) \in [DOMAIN PayloadsOf(ids) -> Payload]
                         /\ \A i \in ids : PayloadsOf(ids)[i] = rows[i].payload
BY DEF TypeOK, PayloadsOf, Row

LEMMA MergeType == ASSUME NEW old \in Payload, NEW new \in Payload PROVE Merge(old, new) \in Payload
BY DEF Merge, Payload

LEMMA CarriesType == ASSUME NEW n \in 1..MaxClicks, NEW fields PROVE Carries(fields, n) \in Payload
BY Bounds DEF Carries, Payload

-----------------------------------------------------------------------------
(* Types *)

LEMMA InitTypes == Init => Typed
<1> SUFFICES ASSUME Init PROVE Typed OBVIOUS
<1>1. Empty \in Payload BY Bounds DEF Empty, Payload
<1>2. NotMade \in Row BY <1>1, Bounds DEF NotMade, Row, Copies
<1>3. DOMAIN Nothing = {} /\ \A T : Nothing \in [DOMAIN Nothing -> T] BY DEF Nothing
<1>4. Made("home") = {} /\ Made("bot") = {} BY DEF Init, Made, NotMade
<1> QED BY <1>1, <1>2, <1>3, <1>4, Bounds DEF Init, Typed, TypeOK, Copies

(* What changes no row but its status, or adds one, keeps what is made.    *)
LEMMA AnswerTypes ==
  ASSUME TypeOK, NEW c \in Copies, NEW i \in Ids, NEW payload \in Payload, NEW outcome \in Outcomes,
         Answer(c, i, payload, outcome)
  PROVE  /\ value' \in [Targets -> Payload]
         /\ uses' \in [Ids -> [times : 0..2, payload : Payload]]
         /\ records' \in [Ids -> Outcomes \cup {"none"}]
<1>1. CASE Earlier(i) # "none" BY <1>1 DEF Answer, NotApplied, TypeOK
<1>2. CASE Earlier(i) = "none"
  <2>1. Settle(c, i, payload, outcome) BY <1>2 DEF Answer
  <2>2. CASE NotApplied BY <2>1, <2>2 DEF NotApplied, Settle, TypeOK
  <2>3. CASE Apply(i, payload)
    <3>1. value[rows[i].target] \in Payload /\ rows[i].target \in Targets BY DEF TypeOK, Row
    <3>2. Merge(value[rows[i].target], payload) \in Payload BY <3>1, MergeType
    <3>3. value' \in [Targets -> Payload] BY <2>3, <3>2 DEF Apply, TypeOK
    <3>4. uses' \in [Ids -> [times : 0..2, payload : Payload]]
      <4>1. [times |-> IF uses[i].times = 0 THEN 1 ELSE 2, payload |-> payload]
              \in [times : 0..2, payload : Payload]
        OBVIOUS
      <4> QED BY <2>3, <4>1 DEF Apply, Uses, TypeOK
    <3> QED BY <2>1, <3>3, <3>4 DEF Settle, TypeOK
  <2> QED BY <2>1, <2>2, <2>3 DEF Settle
<1> QED BY <1>1, <1>2

(* Rows that keep everything but their status, and are still made.         *)
SameRequests ==
  \A i \in Ids : /\ rows'[i].by = rows[i].by /\ rows'[i].target = rows[i].target
                 /\ rows'[i].payload = rows[i].payload
                 /\ rows'[i].status = "none" <=> rows[i].status = "none"

LEMMA StillMade ==
  ASSUME SameRequests
  PROVE  /\ \A c \in Copies : Made(c)' = Made(c)
         /\ Numbered' <=> Numbered
         /\ \A i \in Ids : JobOfRequest(i)' = JobOfRequest(i)
<1>1. \A c \in Copies : Made(c)' = Made(c) BY DEF SameRequests, Made
<1>2. {i \in Ids : rows'[i].status # "none"} = {i \in Ids : rows[i].status # "none"} BY DEF SameRequests
<1>3. \A i \in Ids : JobOfRequest(i)' = JobOfRequest(i) BY DEF SameRequests, JobOfRequest
<1> QED BY <1>1, <1>2, <1>3 DEF Numbered

(* Rows that are made keep their status; others may be made.               *)
RowsStay == \A i \in Ids : rows[i].status # "none" =>
              rows'[i].status = rows[i].status /\ rows'[i].by = rows[i].by

LEMMA InboxStays ==
  ASSUME Typed, HomeInbox, RowsStay, UNCHANGED <<step, inbox, results, records>>
  PROVE  HomeInbox'
<1>1. \A i \in DOMAIN inbox : i \in Ids /\ rows'[i].status = rows[i].status
  BY DEF Typed, TypeOK, Made, RowsStay
<1>2. step = "mark" => \A i \in DOMAIN inbox : rows'[i].status \in {"pending", "sent"}
  BY <1>1 DEF HomeInbox, Waiting
<1>3. step = "answer" => \A i \in DOMAIN inbox : rows'[i].status = "sent" BY <1>1 DEF HomeInbox
<1>4. step = "answer" => \A i \in DOMAIN results :
        i \in Ids /\ rows'[i].by = "home" /\ rows'[i].status = "sent" /\ results[i] = records[i]
  BY DEF HomeInbox, Made, RowsStay
<1>5. step \notin {"mark", "answer"} => DOMAIN inbox = {} BY DEF HomeInbox
<1> QED BY <1>2, <1>3, <1>4, <1>5 DEF HomeInbox, Made, Waiting

LEMMA PageStays ==
  ASSUME Typed, Unmade, BotPage, RowsStay, UNCHANGED <<step, page, arriving, results, records>>
  PROVE  BotPage'
<1>1. \A i \in page : i \in Ids /\ rows'[i].status = rows[i].status
  BY DEF Typed, TypeOK, Made, RowsStay
<1>2. \A i \in page : rows'[i].status = "pending" BY <1>1 DEF BotPage, Unanswered
<1>3. step \in {"settle", "post", "move"} =>
        \A i \in Ids : rows'[i].by = "bot" /\ rows'[i].status = "pending" /\ records[i] # "none" => i \in page
  <2> SUFFICES ASSUME step \in {"settle", "post", "move"}, NEW i \in Ids,
                      rows'[i].by = "bot", rows'[i].status = "pending", records[i] # "none"
               PROVE  i \in page
    OBVIOUS
  <2>1. rows[i].status # "none" BY DEF Unmade
  <2>2. i \in Made("bot") /\ rows[i].status = "pending" BY <2>1 DEF RowsStay, Made
  <2> QED BY <2>2 DEF BotPage, Unanswered
<1>4. /\ step \notin {"answer", "post"} => DOMAIN results = {}
      /\ step \notin {"settle", "post"} => page = {}
      /\ step = "post" => /\ page = DOMAIN arriving \cup DOMAIN results
                          /\ \A i \in DOMAIN results : results[i] = records[i]
  BY DEF BotPage
<1> QED BY <1>2, <1>3, <1>4 DEF BotPage, Unanswered, Made

-----------------------------------------------------------------------------
(* A click *)

(* It is applied at once, folds into a request that has no answer, or is a *)
(* request of its own with the next number.                                *)
LEMMA ClickCases ==
  ASSUME Typed, Numbered, NEW c \in Copies, NEW t \in Targets, NEW fields, Click(c, t, fields)
  PROVE  /\ clicks' \in Seq(Copies) /\ Len(clicks') <= MaxClicks
         /\ value' \in [Targets -> Payload]
         /\ UNCHANGED <<owner, offered, records, uses, round>>
         /\ \/ UNCHANGED rows
            \/ \E i \in Made(c), p \in Payload :
                 /\ Unanswered(i) /\ (NoResend => ~OnItsWay(i))
                 /\ rows' = [rows EXCEPT ![i].payload = p]
            \/ \E i \in Ids, p \in Payload :
                 /\ {k \in Ids : rows[k].status # "none"} = 1..(i - 1)
                 /\ rows' = [rows EXCEPT ![i] = [by |-> c, target |-> t, payload |-> p,
                                                 status |-> "pending"]]
<1> DEFINE n == Len(clicks) + 1
           payload == Carries(fields, n)
<1>1. n \in 1..MaxClicks /\ clicks' = Append(clicks, c) /\ clicks \in Seq(Copies)
      /\ UNCHANGED <<owner, offered, records, uses, round>>
  BY Bounds DEF Click, Typed
<1>2. payload \in Payload BY <1>1, CarriesType
<1>3. clicks' \in Seq(Copies) /\ Len(clicks') <= MaxClicks BY <1>1, Bounds
<1>4. CASE owner[JobOf[t]] = c
  <2>1. UNCHANGED rows /\ value' = [value EXCEPT ![t] = Merge(@, payload)]
    BY <1>4 DEF Click
  <2>2. value[t] \in Payload /\ value \in [Targets -> Payload] BY DEF Typed, TypeOK
  <2>3. Merge(value[t], payload) \in Payload BY <1>2, <2>2, MergeType
  <2>4. value' \in [Targets -> Payload] BY <2>1, <2>2, <2>3
  <2> QED BY <1>1, <1>3, <2>1, <2>4
<1>5. CASE owner[JobOf[t]] # c
  <2>1. Enqueue(c, t, payload) /\ UNCHANGED value BY <1>5 DEF Click
  <2>2. value' \in [Targets -> Payload] BY <2>1 DEF Typed, TypeOK
  <2>3. CASE EarlierPending(c, t) # {}
    <3> DEFINE i == Min(EarlierPending(c, t))
    <3>1. i \in EarlierPending(c, t) BY <2>3, EarlierId
    <3>2. ("resend" \in Windows \/ ~OnItsWay(i)) /\ rows' = [rows EXCEPT ![i].payload = Folded(i, payload)]
      BY <2>1, <2>3 DEF Enqueue
    <3> HIDE DEF i
    <3>3. i \in Made(c) /\ rows[i].status = "pending" BY <3>1 DEF EarlierPending
    <3>4. rows[i].payload \in Payload BY <3>3 DEF Made, Typed, TypeOK, Row
    <3>5. Folded(i, payload) \in Payload BY <1>2, <3>4, MergeType DEF Folded
    <3> QED BY <1>1, <1>3, <2>2, <3>2, <3>3, <3>5 DEF NoResend, Unanswered
  <2>4. CASE EarlierPending(c, t) = {}
    <3>1. PICK i \in Ids : /\ i = Cardinality(Made("home") \cup Made("bot")) + 1
                           /\ rows' = [rows EXCEPT ![i] = [by |-> c, target |-> t, payload |-> payload,
                                                           status |-> "pending"]]
      BY <2>1, <2>4 DEF Enqueue
    <3>2. PICK m \in 0..MaxClicks : {k \in Ids : rows[k].status # "none"} = 1..m BY DEF Numbered
    <3>3. Made("home") \cup Made("bot") = {k \in Ids : rows[k].status # "none"}
      BY DEF Made, Typed, TypeOK, Row, Copies
    <3>4. Cardinality(1..m) = m BY FS_Interval, Bounds
    <3>5. i = m + 1 BY <3>1, <3>2, <3>3, <3>4
    <3>6. {k \in Ids : rows[k].status # "none"} = 1..(i - 1) BY <3>2, <3>5, Bounds
    <3> QED BY <1>1, <1>2, <1>3, <2>2, <3>1, <3>6
  <2> QED BY <2>3, <2>4
<1> QED BY <1>4, <1>5

LEMMA ClickInv ==
  ASSUME IInv, NEW c \in Copies, NEW t \in Targets, NEW fields, Click(c, t, fields)
  PROVE  IInv'
<1>0. Typed /\ Numbered BY DEF IInv
<1>1. /\ clicks' \in Seq(Copies) /\ Len(clicks') <= MaxClicks
      /\ value' \in [Targets -> Payload]
      /\ UNCHANGED <<owner, offered, records, uses, round>>
  BY <1>0, ClickCases
<1>2. UNCHANGED <<step, inbox, page, arriving, posted, results>> BY <1>1 DEF round
<1>3. CASE UNCHANGED rows
  BY <1>1, <1>2, <1>3 DEF IInv, Typed, TypeOK, Numbered, Unmade, HomeRows, BotRows, Arrivals,
     HomeInbox, BotPage, Made, Unanswered, Settled, Waiting, JobOfRequest
<1>4. CASE \E i \in Made(c), p \in Payload : Unanswered(i) /\ rows' = [rows EXCEPT ![i].payload = p]
  <2>1. PICK i \in Made(c), p \in Payload : Unanswered(i) /\ rows' = [rows EXCEPT ![i].payload = p]
    BY <1>4
  <2>2. rows \in [Ids -> Row] BY DEF IInv, Typed, TypeOK
  <2>3. \A k \in Ids : /\ rows'[k].by = rows[k].by /\ rows'[k].target = rows[k].target
                       /\ rows'[k].status = rows[k].status
    BY <2>1, <2>2 DEF Row
  <2>4. rows' \in [Ids -> Row] BY <2>1, <2>2 DEF Row
  <2>5. \A d \in Copies : Made(d)' = Made(d) BY <2>3 DEF Made
  <2>6. Typed' BY <1>1, <1>2, <2>4, <2>5 DEF IInv, Typed, TypeOK, Copies
  <2>7. Numbered' /\ Unmade' BY <1>1, <2>3 DEF IInv, Numbered, Unmade
  <2>8. HomeRows'
    BY <1>1, <2>3, <2>5 DEF IInv, HomeRows, Made, Copies, Unanswered, Settled
  <2>9. BotRows'
    BY <1>1, <1>2, <2>3, <2>5 DEF IInv, BotRows, Made, Copies, Unanswered, Settled, JobOfRequest
  <2>10. Arrivals'
    BY <1>1, <1>2, <2>3 DEF IInv, Typed, TypeOK, Arrivals, Made, Unanswered
  <2>11. HomeInbox'
    BY <1>1, <1>2, <2>3, InboxStays DEF IInv, RowsStay
  <2>12. BotPage'
    BY <1>1, <1>2, <2>3, PageStays DEF IInv, RowsStay
  <2> QED BY <2>6, <2>7, <2>8, <2>9, <2>10, <2>11, <2>12 DEF IInv
<1>5. CASE \E i \in Ids, p \in Payload :
             /\ {k \in Ids : rows[k].status # "none"} = 1..(i - 1)
             /\ rows' = [rows EXCEPT ![i] = [by |-> c, target |-> t, payload |-> p,
                                             status |-> "pending"]]
  <2>1. PICK i \in Ids, p \in Payload :
             /\ {k \in Ids : rows[k].status # "none"} = 1..(i - 1)
             /\ rows' = [rows EXCEPT ![i] = [by |-> c, target |-> t, payload |-> p,
                                             status |-> "pending"]]
    BY <1>5
  <2>2. rows \in [Ids -> Row] BY DEF IInv, Typed, TypeOK
  <2>3. rows[i].status = "none"
    <3>1. i \in Nat /\ i \notin 1..(i - 1) BY Bounds DEF Ids
    <3> QED BY <2>1, <3>1
  <2>4. /\ rows'[i].status = "pending" /\ rows'[i].by = c
        /\ \A k \in Ids : k # i => rows'[k] = rows[k]
    BY <2>1, <2>2
  <2>5. rows' \in [Ids -> Row] BY <2>1, <2>2 DEF Row
  <2>6. \A d \in Copies : Made(d)' = Made(d) \cup IF d = c THEN {i} ELSE {}
    BY <2>3, <2>4 DEF Made
  <2>7. i \notin Made("home") /\ i \notin Made("bot") BY <2>3 DEF Made
  <2>9. Typed' BY <1>1, <1>2, <2>5, <2>6 DEF IInv, Typed, TypeOK, Copies
  <2>10. Numbered'
    <3>1. {k \in Ids : rows'[k].status # "none"} = 1..i BY <2>1, <2>4, Bounds DEF Ids
    <3> QED BY <3>1, Bounds DEF Numbered, Ids
  <2>11. records[i] = "none" /\ uses[i].times = 0 BY <2>3 DEF IInv, Unmade
  <2>12. Unmade' BY <1>1, <2>4 DEF IInv, Unmade
  <2>13. HomeRows'
    BY <1>1, <2>4, <2>6, <2>7, <2>11
       DEF IInv, HomeRows, Made, Times, Unanswered, Settled, Outcomes, Copies
  <2>14. i \notin DOMAIN arriving /\ i \notin page /\ i \notin DOMAIN inbox
    BY <2>7 DEF IInv, Typed, TypeOK
  <2>15. BotRows'
    BY <1>1, <1>2, <2>4, <2>6, <2>7, <2>11, <2>14
       DEF IInv, BotRows, Made, Times, Unanswered, Settled, JobOfRequest, Outcomes, Copies
  <2>16. Arrivals' /\ HomeInbox'
    <3>1. Arrivals'
      BY <1>1, <1>2, <2>4, <2>14 DEF IInv, Typed, TypeOK, Arrivals, Made, Unanswered
    <3>2. HomeInbox'
      BY <1>1, <1>2, <2>3, <2>4, InboxStays DEF IInv, RowsStay
    <3> QED BY <3>1, <3>2
  <2>17. BotPage'
    BY <1>1, <1>2, <2>3, <2>4, PageStays DEF IInv, RowsStay
  <2> QED BY <2>9, <2>10, <2>12, <2>13, <2>15, <2>16, <2>17 DEF IInv
<1> QED BY <1>0, <1>3, <1>4, <1>5, ClickCases

-----------------------------------------------------------------------------
(* The other steps *)

LEMMA InitInv == Init => IInv
<1> SUFFICES ASSUME Init PROVE IInv OBVIOUS
<1>1. Typed BY InitTypes
<1>2. \A i \in Ids : rows[i].status = "none" /\ records[i] = "none" /\ uses[i].times = 0
  BY DEF Init, NotMade
<1>3. Made("home") = {} /\ Made("bot") = {} BY <1>2 DEF Made
<1>4. Numbered
  <2>1. {i \in Ids : rows[i].status # "none"} = 1..0 BY <1>2
  <2> QED BY <2>1, Bounds DEF Numbered
<1>5. DOMAIN inbox = {} /\ DOMAIN arriving = {} /\ DOMAIN results = {} /\ page = {} /\ step = "idle"
  BY NothingTypes DEF Init
<1>6. Unmade BY <1>2 DEF Unmade
<1>7. HomeRows /\ BotRows BY <1>3 DEF HomeRows, BotRows
<1>8. Arrivals /\ HomeInbox /\ BotPage BY <1>3, <1>5 DEF Arrivals, HomeInbox, BotPage
<1> QED BY <1>1, <1>4, <1>6, <1>7, <1>8 DEF IInv

LEMMA OfferInv == ASSUME IInv, NEW j \in Jobs, Offer(j) PROVE IInv'
<1>1. UNCHANGED <<owner, clicks, value, rows, records, uses, step, inbox, page, arriving, posted, results>>
  BY DEF Offer, round
<1>2. offered' \subseteq {k \in Jobs : owner[k] = "home"}
  BY DEF Offer, IInv, Typed, TypeOK
<1>3. Typed' BY <1>1, <1>2 DEF IInv, Typed, TypeOK, Made
<1> QED BY <1>1, <1>3 DEF IInv, Numbered, Unmade, HomeRows, BotRows, Arrivals, HomeInbox, BotPage,
     Made, Unanswered, Settled, Waiting, JobOfRequest

LEMMA StartRoundInv == ASSUME IInv, StartRound PROVE IInv'
<1>1. /\ UNCHANGED <<owner, offered, clicks, value, rows, records, uses, inbox, page, posted, results>>
      /\ step = "idle" /\ step' = "read" /\ DOMAIN arriving' = {}
      /\ arriving' \in [DOMAIN arriving' -> Payload]
  BY NothingTypes DEF StartRound
<1>2. Typed' BY <1>1 DEF IInv, Typed, TypeOK, Made
<1>3. Arrivals' BY <1>1 DEF Arrivals
<1> QED BY <1>1, <1>2, <1>3 DEF IInv, Numbered, Unmade, HomeRows, BotRows, HomeInbox, BotPage,
     Made, Unanswered, Settled, Waiting, JobOfRequest

LEMMA ReadRequestsInv == ASSUME IInv, ReadRequests PROVE IInv'
<1>1. /\ UNCHANGED <<owner, offered, clicks, value, rows, records, uses, page, arriving, posted, results>>
      /\ step = "read" /\ step' = "mark" /\ inbox' = PayloadsOf(Served)
  BY DEF ReadRequests
<1>2. Served \subseteq Made("home") /\ Served \subseteq Ids /\ \A i \in Served : Waiting(i)
  BY DEF Served, Made
<1>3. DOMAIN inbox' = Served /\ inbox' \in [DOMAIN inbox' -> Payload]
  BY <1>1, <1>2, Payloads DEF IInv, Typed
<1>4. Typed' BY <1>1, <1>2, <1>3 DEF IInv, Typed, TypeOK, Made
<1>5. HomeInbox' BY <1>1, <1>2, <1>3 DEF HomeInbox, Waiting
<1> QED BY <1>1, <1>4, <1>5 DEF IInv, Numbered, Unmade, HomeRows, BotRows, Arrivals, BotPage,
     Made, Unanswered, Settled, JobOfRequest

LEMMA MarkSentInv == ASSUME IInv, MarkSent PROVE IInv' /\ SameRequests
<1>1. /\ UNCHANGED <<owner, offered, clicks, value, records, uses, inbox, page, arriving, posted, results>>
      /\ step = "mark" /\ step' = "answer"
  BY DEF MarkSent
<1>2. rows \in [Ids -> Row] /\ DOMAIN inbox \subseteq Made("home")
      /\ \A i \in DOMAIN inbox : rows[i].status \in {"pending", "sent"}
  BY <1>1 DEF IInv, Typed, TypeOK, HomeInbox, Waiting
<1>3. \A i \in Ids : rows'[i] = IF i \in DOMAIN inbox THEN [rows[i] EXCEPT !.status = "sent"] ELSE rows[i]
  BY DEF MarkSent
<1>4. \A i \in Ids : /\ rows'[i].by = rows[i].by /\ rows'[i].target = rows[i].target
                     /\ rows'[i].payload = rows[i].payload
                     /\ rows'[i].status = IF i \in DOMAIN inbox THEN "sent" ELSE rows[i].status
  BY <1>2, <1>3 DEF Row
<1>5. rows' \in [Ids -> Row] BY <1>2 DEF MarkSent, Row
<1>6. SameRequests BY <1>2, <1>4 DEF SameRequests
<1>7. Made("home")' = Made("home") /\ Made("bot")' = Made("bot") /\ Numbered'
      /\ \A i \in Ids : JobOfRequest(i)' = JobOfRequest(i)
  BY <1>6, StillMade DEF Copies, IInv
<1>8. Typed' BY <1>1, <1>5, <1>7 DEF IInv, Typed, TypeOK
<1>9. Unmade' BY <1>1, <1>6 DEF IInv, Unmade, SameRequests
<1>10. HomeRows'
  BY <1>1, <1>2, <1>4, <1>7 DEF IInv, HomeRows, Made, Unanswered, Settled, Outcomes
<1>11. \A i \in Made("bot") : rows'[i].status = rows[i].status
  BY <1>2, <1>4 DEF Made
<1>12. BotRows'
  BY <1>1, <1>7, <1>11 DEF IInv, BotRows, Made, Unanswered, Settled
<1>13. DOMAIN arriving = {} /\ DOMAIN results = {} /\ page = {} BY <1>1 DEF IInv, Arrivals, BotPage
<1>14. Arrivals' /\ HomeInbox' /\ BotPage'
  <2>1. \A i \in DOMAIN inbox : rows'[i].status = "sent" BY <1>2, <1>4 DEF Made
  <2> QED BY <1>1, <1>13, <2>1 DEF Arrivals, HomeInbox, BotPage
<1> QED BY <1>6, <1>7, <1>8, <1>9, <1>10, <1>12, <1>14 DEF IInv

(* A step that applies nothing but what it carries for a request.          *)
OnlyApplies(carried) ==
  \A k \in Ids : uses'[k] = uses[k] \/ (k \in DOMAIN carried /\ uses'[k].payload = carried[k])

(* An answer of the other copy: what it says is recorded, and it is done   *)
(* once.                                                                   *)
LEMMA AnswerDoes ==
  ASSUME TypeOK, NEW c \in Copies, NEW i \in Ids, NEW payload \in Payload, NEW outcome \in Outcomes,
         Answer(c, i, payload, outcome), uses[i].times = Times(records[i])
  PROVE  /\ records'[i] = outcome /\ uses'[i].times = Times(outcome)
         /\ \A k \in Ids \ {i} : records'[k] = records[k] /\ uses'[k] = uses[k]
         /\ uses'[i] = uses[i] \/ uses'[i].payload = payload
<1>1. CASE Earlier(i) # "none"
  BY <1>1 DEF Answer, Earlier, NotApplied
<1>2. CASE Earlier(i) = "none"
  <2>1. Settle(c, i, payload, outcome) /\ uses[i].times = 0 BY <1>2 DEF Answer, Earlier, Times
  <2>2. records'[i] = outcome /\ \A k \in Ids \ {i} : records'[k] = records[k]
    BY <2>1 DEF Settle, TypeOK
  <2>3. CASE outcome = "refused" /\ NotApplied
    BY <2>1, <2>2, <2>3 DEF NotApplied, Times
  <2>4. CASE outcome = "applied" /\ Apply(i, payload)
    <3>1. uses' = [uses EXCEPT ![i] = [times |-> 1, payload |-> payload]]
      BY <2>1, <2>4 DEF Apply, Uses
    <3>2. uses'[i] = [times |-> 1, payload |-> payload] /\ \A k \in Ids \ {i} : uses'[k] = uses[k]
      BY <3>1 DEF TypeOK
    <3> QED BY <2>2, <2>4, <3>2 DEF Times
  <2> QED BY <2>1, <2>3, <2>4 DEF Settle
<1> QED BY <1>1, <1>2

LEMMA AnswerHomeInv ==
  ASSUME IInv, AnswerHome
  PROVE  /\ IInv' /\ OnlyApplies(inbox)
         /\ DOMAIN inbox' \subseteq DOMAIN inbox /\ \A k \in DOMAIN inbox' : inbox'[k] = inbox[k]
         /\ \A k \in Made("bot") : records'[k] = records[k]
<1> DEFINE i == NextOf(DOMAIN inbox)
<1>0. TypeOK BY DEF IInv, Typed
<1>1. /\ UNCHANGED <<owner, offered, clicks, rows, step, page, arriving, posted>>
      /\ step = "answer" /\ DOMAIN inbox # {}
  BY DEF AnswerHome
<1>2. PICK outcome \in Outcomes : /\ Answer("bot", i, inbox[i], outcome)
                                  /\ results' = Adding(results, i, outcome)
                                  /\ inbox' = Without(inbox, i)
  BY DEF AnswerHome
<1>3. i \in DOMAIN inbox
  <2>1. DOMAIN inbox \subseteq Ids BY <1>0 DEF TypeOK, Made
  <2> QED BY <1>1, <2>1, FirstId
<1> HIDE DEF i
<1>4. i \in Ids /\ i \in Made("home") /\ rows[i].by = "home" /\ rows[i].status = "sent"
      /\ inbox[i] \in Payload /\ "bot" \in Copies
  BY <1>0, <1>1, <1>3 DEF TypeOK, Made, HomeInbox, IInv, Copies
<1>5. uses[i].times = Times(records[i]) BY <1>4 DEF IInv, HomeRows
<1>6. /\ records'[i] = outcome /\ uses'[i].times = Times(outcome)
      /\ \A k \in Ids \ {i} : records'[k] = records[k] /\ uses'[k] = uses[k]
      /\ uses'[i] = uses[i] \/ uses'[i].payload = inbox[i]
  BY <1>0, <1>2, <1>4, <1>5, AnswerDoes
<1>7. /\ value' \in [Targets -> Payload]
      /\ uses' \in [Ids -> [times : 0..2, payload : Payload]]
      /\ records' \in [Ids -> Outcomes \cup {"none"}]
  BY <1>0, <1>2, <1>4, AnswerTypes
<1>8. DOMAIN inbox' = DOMAIN inbox \ {i} /\ inbox' \in [DOMAIN inbox' -> Payload]
  BY <1>0, <1>2, Taking, TakingTypes DEF TypeOK
<1>9. /\ DOMAIN results' = DOMAIN results \cup {i} /\ results' \in [DOMAIN results' -> Outcomes]
      /\ results'[i] = outcome /\ \A k \in DOMAIN results \ {i} : results'[k] = results[k]
  <2>1. results \in [DOMAIN results -> Outcomes] BY <1>0 DEF TypeOK
  <2>2. Adding(results, i, outcome) \in [DOMAIN Adding(results, i, outcome) -> Outcomes]
    BY <2>1, PuttingTypes
  <2>3. /\ DOMAIN Adding(results, i, outcome) = DOMAIN results \cup {i}
        /\ Adding(results, i, outcome)[i] = outcome
        /\ \A k \in DOMAIN results \ {i} : Adding(results, i, outcome)[k] = results[k]
    BY DEF Adding
  <2> QED BY <1>2, <2>2, <2>3
<1>10. Typed' BY <1>1, <1>4, <1>7, <1>8, <1>9 DEF IInv, Typed, TypeOK, Made
<1>11. Unmade' BY <1>1, <1>4, <1>6 DEF IInv, Unmade
<1>12. HomeRows' BY <1>1, <1>4, <1>6 DEF IInv, HomeRows, Made, Unanswered, Settled, Outcomes
<1>13. BotRows' 
  <2>1. \A k \in Made("bot") : k \in Ids \ {i} BY <1>4 DEF Made
  <2> QED BY <1>1, <1>6, <2>1 DEF IInv, BotRows, Made, Unanswered, Settled, JobOfRequest
<1>14. HomeInbox'
  <2>1. \A k \in DOMAIN results' : k \in Made("home") /\ rows[k].status = "sent" /\ results'[k] = records'[k]
    BY <1>1, <1>4, <1>6, <1>9 DEF IInv, HomeInbox, Made
  <2> QED BY <1>1, <1>8, <2>1 DEF IInv, HomeInbox, Made, Waiting
<1>15. Arrivals' /\ BotPage' BY <1>1 DEF IInv, Arrivals, BotPage, Unanswered
<1>16. Numbered' BY <1>1 DEF IInv, Numbered
<1>17. OnlyApplies(inbox) BY <1>3, <1>6 DEF OnlyApplies
<1>18. \A k \in DOMAIN inbox' : inbox'[k] = inbox[k] BY <1>2, <1>8, Taking
<1>19. \A k \in Made("bot") : records'[k] = records[k] BY <1>4, <1>6 DEF Made
<1> QED BY <1>8, <1>10, <1>11, <1>12, <1>13, <1>14, <1>15, <1>16, <1>17, <1>18, <1>19 DEF IInv

LEMMA PostResultsInv == ASSUME IInv, PostResults PROVE IInv' /\ SameRequests
<1>1. /\ UNCHANGED <<owner, offered, clicks, value, records, uses, inbox, page, arriving, posted>>
      /\ step = "answer" /\ DOMAIN inbox = {} /\ step' = "list"
      /\ DOMAIN results' = {} /\ results' \in [DOMAIN results' -> Outcomes]
  BY NothingTypes DEF PostResults
<1>2. /\ rows \in [Ids -> Row] /\ DOMAIN results \subseteq Ids
      /\ \A i \in DOMAIN results : /\ i \in Made("home") /\ rows[i].status = "sent"
                                   /\ results[i] = records[i] /\ results[i] \in Outcomes
  BY <1>1 DEF IInv, Typed, TypeOK, HomeInbox
<1>3. \A i \in Ids : rows'[i] = IF i \in DOMAIN results /\ rows[i].status = "sent"
                                THEN [rows[i] EXCEPT !.status = results[i]] ELSE rows[i]
  BY DEF PostResults, Answered
<1>4. \A i \in Ids : /\ rows'[i].by = rows[i].by /\ rows'[i].target = rows[i].target
                     /\ rows'[i].payload = rows[i].payload
                     /\ rows'[i].status = IF i \in DOMAIN results THEN records[i] ELSE rows[i].status
  BY <1>2, <1>3 DEF Row
<1>5. rows' \in [Ids -> Row] BY <1>2 DEF PostResults, Answered, Row, Outcomes
<1>6. SameRequests BY <1>2, <1>4 DEF SameRequests, Outcomes
<1>7. Made("home")' = Made("home") /\ Made("bot")' = Made("bot") /\ Numbered'
      /\ \A i \in Ids : JobOfRequest(i)' = JobOfRequest(i)
  BY <1>6, StillMade DEF Copies, IInv
<1>8. Typed' BY <1>1, <1>5, <1>7 DEF IInv, Typed, TypeOK
<1>9. Unmade' BY <1>1, <1>6 DEF IInv, Unmade, SameRequests
<1>10. HomeRows'
  BY <1>1, <1>2, <1>4, <1>7 DEF IInv, HomeRows, Made, Unanswered, Settled, Outcomes
<1>11. \A i \in Made("bot") : rows'[i].status = rows[i].status BY <1>2, <1>4 DEF Made
<1>12. BotRows' BY <1>1, <1>7, <1>11 DEF IInv, BotRows, Made, Unanswered, Settled
<1>13. DOMAIN arriving = {} /\ page = {} BY <1>1 DEF IInv, Arrivals, BotPage
<1>14. Arrivals' /\ HomeInbox' /\ BotPage' BY <1>1, <1>13 DEF Arrivals, HomeInbox, BotPage
<1> QED BY <1>6, <1>7, <1>8, <1>9, <1>10, <1>12, <1>14 DEF IInv

LEMMA ListLocalInv == ASSUME IInv, ListLocal PROVE IInv'
<1>1. /\ UNCHANGED <<owner, offered, clicks, value, rows, records, uses, inbox, arriving, posted, results>>
      /\ step = "list" /\ step' = "settle"
      /\ page' = {i \in Made("bot") : rows[i].status = "pending"}
  BY DEF ListLocal
<1>2. Typed' BY <1>1 DEF IInv, Typed, TypeOK, Made
<1>3. Arrivals' /\ HomeInbox' BY <1>1 DEF IInv, Arrivals, HomeInbox, Unanswered
<1>4. BotPage' BY <1>1 DEF IInv, BotPage, Unanswered, Made
<1> QED BY <1>1, <1>2, <1>3, <1>4 DEF IInv, Numbered, Unmade, HomeRows, BotRows,
     Made, Unanswered, Settled, JobOfRequest

LEMMA SettleStoredInv ==
  ASSUME IInv, SettleStored
  PROVE  /\ IInv' /\ SameRequests
         /\ \A k \in Ids : uses'[k] = uses[k] \/ uses'[k].payload = rows[k].payload
<1> DEFINE i == NextOf(OursNow)
<1>0. TypeOK BY DEF IInv, Typed
<1>1. /\ UNCHANGED <<owner, offered, clicks, records, step, inbox, arriving, posted, results>>
      /\ step = "settle" /\ OursNow # {}
  BY DEF SettleStored
<1>2. PICK outcome \in Outcomes :
        /\ outcome = "applied" => Apply(i, rows[i].payload)
        /\ outcome = "refused" => NotApplied
        /\ rows' = [rows EXCEPT ![i].status = outcome]
        /\ page' = page \ {i}
  BY DEF SettleStored
<1>3. i \in OursNow
  <2>1. OursNow \subseteq Ids BY <1>0 DEF TypeOK, Made, OursNow
  <2> QED BY <1>1, <2>1, FirstId
<1> HIDE DEF i
<1>4. /\ i \in page /\ i \in Ids /\ i \in Made("bot") /\ rows[i].by = "bot"
      /\ owner[JobOfRequest(i)] = "bot" /\ rows[i].status = "pending"
  BY <1>0, <1>3 DEF OursNow, TypeOK, Made, BotPage, IInv, Unanswered
<1>5. records[i] = "none" /\ uses[i].times = 0
  BY <1>4 DEF IInv, BotRows, Unanswered, Times
<1>6. rows \in [Ids -> Row] /\ rows[i].payload \in Payload /\ rows[i].target \in Targets
  BY <1>0, <1>4 DEF TypeOK, Row
<1>7. /\ uses'[i].times = Times(outcome) /\ \A k \in Ids \ {i} : uses'[k] = uses[k]
      /\ uses' \in [Ids -> [times : 0..2, payload : Payload]]
      /\ value' \in [Targets -> Payload]
      /\ uses'[i] = uses[i] \/ uses'[i].payload = rows[i].payload
  <2>1. CASE outcome = "refused"
    BY <1>0, <1>2, <1>5, <2>1 DEF NotApplied, Times, TypeOK
  <2>2. CASE outcome = "applied"
    <3>1. uses' = [uses EXCEPT ![i] = [times |-> 1, payload |-> rows[i].payload]]
      BY <1>2, <1>5, <2>2 DEF Apply, Uses
    <3>2. [times |-> 1, payload |-> rows[i].payload] \in [times : 0..2, payload : Payload] BY <1>6
    <3>3. uses'[i] = [times |-> 1, payload |-> rows[i].payload]
      BY <1>0, <1>4, <3>1 DEF TypeOK
    <3>4. \A k \in Ids \ {i} : uses'[k] = uses[k] BY <1>0, <3>1 DEF TypeOK
    <3>5. uses' \in [Ids -> [times : 0..2, payload : Payload]] BY <1>0, <3>1, <3>2 DEF TypeOK
    <3>6. value[rows[i].target] \in Payload /\ value \in [Targets -> Payload] BY <1>0, <1>6 DEF TypeOK
    <3>7. Merge(value[rows[i].target], rows[i].payload) \in Payload BY <1>6, <3>6, MergeType
    <3>8. value' \in [Targets -> Payload] BY <1>2, <2>2, <3>6, <3>7 DEF Apply
    <3> QED BY <2>2, <3>3, <3>4, <3>5, <3>8 DEF Times
  <2> QED BY <2>1, <2>2 DEF Outcomes
<1>8. \A k \in Ids : /\ rows'[k].by = rows[k].by /\ rows'[k].target = rows[k].target
                     /\ rows'[k].payload = rows[k].payload
                     /\ rows'[k].status = IF k = i THEN outcome ELSE rows[k].status
  BY <1>2, <1>4, <1>6 DEF Row
<1>9. rows' \in [Ids -> Row] BY <1>2, <1>6 DEF Row, Outcomes
<1>10. SameRequests BY <1>4, <1>8 DEF SameRequests, Outcomes
<1>11. Made("home")' = Made("home") /\ Made("bot")' = Made("bot") /\ Numbered'
       /\ \A k \in Ids : JobOfRequest(k)' = JobOfRequest(k)
  BY <1>10, StillMade DEF Copies, IInv
<1>12. Typed' BY <1>1, <1>2, <1>7, <1>9, <1>11 DEF IInv, Typed, TypeOK
<1>13. Unmade' BY <1>1, <1>4, <1>7, <1>10 DEF IInv, Unmade, SameRequests
<1>14. HomeRows'
  <2>1. \A k \in Made("home") : k \in Ids \ {i} BY <1>4 DEF Made
  <2> QED BY <1>1, <1>7, <1>8, <1>11, <2>1 DEF IInv, HomeRows, Unanswered, Settled
<1>15. BotRows'
  <2>1. \A k \in Made("bot") : k \in Ids BY DEF Made
  <2> QED BY <1>1, <1>7, <1>8, <1>11, <2>1 DEF IInv, BotRows, Unanswered, Settled, Outcomes
<1>16. DOMAIN arriving = {} /\ DOMAIN inbox = {} /\ DOMAIN results = {}
  BY <1>1 DEF IInv, Arrivals, HomeInbox, BotPage
<1>17. Arrivals' /\ HomeInbox' BY <1>1, <1>16 DEF Arrivals, HomeInbox
<1>18. BotPage'
  <2>1. \A k \in page' : k \in Ids /\ rows'[k].status = "pending"
    BY <1>0, <1>2, <1>8 DEF IInv, BotPage, TypeOK, Made, Unanswered
  <2>2. \A k \in Made("bot") : rows'[k].status = "pending" /\ records[k] # "none" => k \in page'
    BY <1>1, <1>2, <1>5, <1>8 DEF IInv, BotPage, Made, Unanswered
  <2> QED BY <1>1, <1>11, <1>16, <2>1, <2>2 DEF BotPage, Unanswered
<1> QED BY <1>7, <1>10, <1>11, <1>12, <1>13, <1>14, <1>15, <1>17, <1>18 DEF IInv

LEMMA SendLocalInv == ASSUME IInv, SendLocal PROVE IInv'
<1>1. /\ UNCHANGED <<owner, offered, clicks, value, rows, records, uses, inbox, page, results>>
      /\ step = "settle" /\ OursNow = {} /\ step' = "post"
      /\ arriving' = PayloadsOf(page) /\ posted' = posted \cup page
  BY DEF SendLocal
<1>2. page \subseteq Made("bot") /\ page \subseteq Ids /\ \A i \in page : Unanswered(i)
  BY DEF IInv, Typed, TypeOK, Made, BotPage
<1>3. DOMAIN arriving' = page /\ arriving' \in [DOMAIN arriving' -> Payload]
  BY <1>1, <1>2, Payloads DEF IInv, Typed
<1>4. \A i \in page : owner[JobOfRequest(i)] = "home"
  <2> TAKE i \in page
  <2>1. rows[i].target \in Targets BY <1>2 DEF IInv, Typed, TypeOK, Row
  <2>2. owner[JobOfRequest(i)] \in Copies BY <2>1, Bounds DEF IInv, Typed, TypeOK, JobOfRequest
  <2> QED BY <1>1, <2>2 DEF OursNow, Copies
<1>5. Typed' BY <1>1, <1>2, <1>3 DEF IInv, Typed, TypeOK, Made
<1>6. BotRows'
  <2>1. \A i \in Made("bot") : Unanswered(i) /\ (records[i] # "none" \/ i \in DOMAIN arriving') =>
          owner[JobOfRequest(i)] = "home"
    BY <1>3, <1>4 DEF IInv, BotRows
  <2> QED BY <1>1, <2>1 DEF IInv, BotRows, Made, Unanswered, Settled, JobOfRequest
<1>7. DOMAIN inbox = {} /\ DOMAIN results = {} BY <1>1 DEF IInv, HomeInbox, BotPage
<1>8. Arrivals' /\ HomeInbox' BY <1>1, <1>2, <1>3, <1>7 DEF Arrivals, HomeInbox, Unanswered
<1>9. BotPage' BY <1>1, <1>2, <1>3, <1>7 DEF IInv, BotPage, Unanswered, Made
<1> QED BY <1>1, <1>5, <1>6, <1>8, <1>9 DEF IInv, Numbered, Unmade, HomeRows, Made, Unanswered, Settled

LEMMA AnswerBotInv ==
  ASSUME IInv, AnswerBot
  PROVE  /\ IInv' /\ OnlyApplies(arriving)
         /\ DOMAIN arriving' \subseteq DOMAIN arriving
         /\ \A k \in DOMAIN arriving' : arriving'[k] = arriving[k]
         /\ \A k \in Ids : records'[k] # records[k] => k \in DOMAIN arriving
<1> DEFINE i == NextOf(DOMAIN arriving)
<1>0. TypeOK BY DEF IInv, Typed
<1>1. /\ UNCHANGED <<owner, offered, clicks, rows, step, inbox, page, posted>>
      /\ DOMAIN arriving # {}
  BY DEF AnswerBot
<1>2. PICK outcome \in Outcomes :
        /\ Answer("home", i, arriving[i], outcome)
        /\ results' = IF step = "post" THEN Adding(results, i, outcome) ELSE results
        /\ arriving' = Without(arriving, i)
  BY DEF AnswerBot
<1>3. i \in DOMAIN arriving
  <2>1. DOMAIN arriving \subseteq Ids BY <1>0 DEF TypeOK, Made
  <2> QED BY <1>1, <2>1, FirstId
<1> HIDE DEF i
<1>4. /\ i \in Ids /\ i \in Made("bot") /\ rows[i].by = "bot" /\ rows[i].status = "pending"
      /\ arriving[i] \in Payload /\ "home" \in Copies
      /\ step \in {"idle", "post"} /\ owner[JobOfRequest(i)] = "home"
  BY <1>0, <1>3 DEF TypeOK, Made, Arrivals, BotRows, IInv, Copies, Unanswered
<1>5. uses[i].times = Times(records[i]) BY <1>4 DEF IInv, BotRows, Unanswered
<1>6. /\ records'[i] = outcome /\ uses'[i].times = Times(outcome)
      /\ \A k \in Ids \ {i} : records'[k] = records[k] /\ uses'[k] = uses[k]
      /\ uses'[i] = uses[i] \/ uses'[i].payload = arriving[i]
  BY <1>0, <1>2, <1>4, <1>5, AnswerDoes
<1>7. /\ value' \in [Targets -> Payload]
      /\ uses' \in [Ids -> [times : 0..2, payload : Payload]]
      /\ records' \in [Ids -> Outcomes \cup {"none"}]
  BY <1>0, <1>2, <1>4, AnswerTypes
<1>8. DOMAIN arriving' = DOMAIN arriving \ {i} /\ arriving' \in [DOMAIN arriving' -> Payload]
  BY <1>0, <1>2, Taking, TakingTypes DEF TypeOK
<1>9. /\ results' \in [DOMAIN results' -> Outcomes]
      /\ step = "post" => /\ DOMAIN results' = DOMAIN results \cup {i} /\ results'[i] = outcome
                          /\ \A k \in DOMAIN results \ {i} : results'[k] = results[k]
      /\ step # "post" => results' = results
  <2>1. results \in [DOMAIN results -> Outcomes] BY <1>0 DEF TypeOK
  <2>2. Adding(results, i, outcome) \in [DOMAIN Adding(results, i, outcome) -> Outcomes]
    BY <2>1, PuttingTypes
  <2>3. /\ DOMAIN Adding(results, i, outcome) = DOMAIN results \cup {i}
        /\ Adding(results, i, outcome)[i] = outcome
        /\ \A k \in DOMAIN results \ {i} : Adding(results, i, outcome)[k] = results[k]
    BY DEF Adding
  <2>4. CASE step = "post" BY <1>2, <2>2, <2>3, <2>4
  <2>5. CASE step # "post" BY <1>2, <2>1, <2>5
  <2> QED BY <2>4, <2>5
<1>10. DOMAIN results' \subseteq Ids BY <1>0, <1>4, <1>9 DEF TypeOK
<1>11. Typed' BY <1>1, <1>7, <1>8, <1>9, <1>10 DEF IInv, Typed, TypeOK, Made
<1>12. Unmade' /\ Numbered' BY <1>1, <1>4, <1>6 DEF IInv, Unmade, Numbered
<1>13. HomeRows'
  <2>1. \A k \in Made("home") : k \in Ids \ {i} BY <1>4 DEF Made
  <2> QED BY <1>1, <1>6, <2>1 DEF IInv, HomeRows, Made, Unanswered, Settled
<1>14. BotRows'
  <2>1. \A k \in Made("bot") : k \in Ids BY DEF Made
  <2>2. \A k \in Made("bot") : Unanswered(k) => uses'[k].times = Times(records'[k])
    BY <1>6, <2>1 DEF IInv, BotRows
  <2>3. \A k \in Made("bot") : Settled(k) => uses'[k].times = Times(rows[k].status)
    BY <1>4, <1>6, <2>1 DEF IInv, BotRows, Settled, Outcomes
  <2>4. \A k \in Made("bot") : Unanswered(k) /\ (records'[k] # "none" \/ k \in DOMAIN arriving') =>
          owner[JobOfRequest(k)] = "home"
    BY <1>4, <1>6, <1>8, <2>1 DEF IInv, BotRows
  <2> QED BY <1>1, <2>2, <2>3, <2>4 DEF IInv, BotRows, Made, Unanswered, Settled, JobOfRequest
<1>15. Arrivals' BY <1>1, <1>4, <1>8 DEF IInv, Arrivals, Unanswered
<1>16. HomeInbox' BY <1>1, <1>4 DEF IInv, HomeInbox, Made
<1>17. BotPage'
  <2>1. CASE step = "idle" BY <1>1, <1>9, <2>1 DEF IInv, BotPage, Unanswered
  <2>2. CASE step = "post"
    <3>1. page = DOMAIN arriving' \cup DOMAIN results' BY <1>3, <1>8, <1>9, <2>2 DEF IInv, BotPage
    <3>2. \A k \in DOMAIN results' : results'[k] = records'[k]
      BY <1>0, <1>6, <1>9, <2>2 DEF IInv, BotPage, TypeOK
    <3>3. i \in page BY <1>3, <2>2 DEF IInv, BotPage
    <3>4. \A k \in Made("bot") : Unanswered(k) /\ records'[k] # "none" => k \in page
      BY <1>6, <2>2, <3>3 DEF IInv, BotPage, Made
    <3>5. \A k \in page : Unanswered(k) BY DEF IInv, BotPage
    <3> QED BY <1>1, <2>2, <3>1, <3>2, <3>4, <3>5 DEF BotPage, Made, Unanswered
  <2> QED BY <1>4, <2>1, <2>2
<1>18. OnlyApplies(arriving) BY <1>3, <1>6 DEF OnlyApplies
<1>19. \A k \in DOMAIN arriving' : arriving'[k] = arriving[k] BY <1>2, <1>8, Taking
<1>20. \A k \in Ids : records'[k] # records[k] => k \in DOMAIN arriving BY <1>3, <1>6
<1> QED BY <1>8, <1>11, <1>12, <1>13, <1>14, <1>15, <1>16, <1>17, <1>18, <1>19, <1>20 DEF IInv

LEMMA StoreAnswersInv == ASSUME IInv, StoreAnswers PROVE IInv' /\ SameRequests
<1>1. /\ UNCHANGED <<owner, offered, clicks, value, records, uses, inbox, arriving, posted>>
      /\ step = "post" /\ DOMAIN arriving = {} /\ step' = "move" /\ page' = {}
      /\ DOMAIN results' = {} /\ results' \in [DOMAIN results' -> Outcomes]
  BY NothingTypes DEF StoreAnswers
<1>2. /\ rows \in [Ids -> Row] /\ DOMAIN results = page /\ page \subseteq Ids
      /\ \A i \in page : /\ i \in Made("bot") /\ rows[i].by = "bot" /\ rows[i].status = "pending"
                         /\ results[i] = records[i] /\ results[i] \in Outcomes
  BY <1>1 DEF IInv, Typed, TypeOK, BotPage, Made, Unanswered
<1>3. \A i \in Ids : rows'[i] = IF i \in DOMAIN results THEN [rows[i] EXCEPT !.status = results[i]]
                                ELSE rows[i]
  BY DEF StoreAnswers
<1>4. \A i \in Ids : /\ rows'[i].by = rows[i].by /\ rows'[i].target = rows[i].target
                     /\ rows'[i].payload = rows[i].payload
                     /\ rows'[i].status = IF i \in page THEN records[i] ELSE rows[i].status
  BY <1>2, <1>3 DEF Row
<1>5. rows' \in [Ids -> Row] BY <1>2 DEF StoreAnswers, Row, Outcomes
<1>6. SameRequests BY <1>2, <1>4 DEF SameRequests, Outcomes
<1>7. Made("home")' = Made("home") /\ Made("bot")' = Made("bot") /\ Numbered'
      /\ \A i \in Ids : JobOfRequest(i)' = JobOfRequest(i)
  BY <1>6, StillMade DEF Copies, IInv
<1>8. Typed' BY <1>1, <1>2, <1>5, <1>7 DEF IInv, Typed, TypeOK
<1>9. Unmade' BY <1>1, <1>6 DEF IInv, Unmade, SameRequests
<1>10. HomeRows'
  <2>1. \A i \in Made("home") : rows'[i].status = rows[i].status BY <1>2, <1>4 DEF Made
  <2> QED BY <1>1, <1>7, <2>1 DEF IInv, HomeRows, Made, Unanswered, Settled
<1>11. BotRows'
  <2>1. \A i \in page : records[i] \in Outcomes /\ uses[i].times = Times(records[i])
    BY <1>2 DEF IInv, BotRows, Unanswered
  <2>2. \A i \in Made("bot") : i \in Ids /\ rows'[i].status = IF i \in page THEN records[i] ELSE rows[i].status
    BY <1>4 DEF Made
  <2> QED BY <1>1, <1>7, <2>1, <2>2 DEF IInv, BotRows, Unanswered, Settled, Outcomes
<1>12. DOMAIN inbox = {} BY <1>1 DEF IInv, HomeInbox
<1>13. Arrivals' /\ HomeInbox' BY <1>1, <1>12 DEF Arrivals, HomeInbox
<1>14. BotPage'
  <2>1. \A i \in Made("bot") : rows'[i].status = "pending" => records[i] = "none"
    BY <1>1, <1>2, <1>4 DEF IInv, BotPage, Made, Unanswered, Outcomes
  <2> QED BY <1>1, <1>7, <2>1 DEF BotPage, Unanswered
<1> QED BY <1>6, <1>7, <1>8, <1>9, <1>10, <1>11, <1>13, <1>14 DEF IInv

(* Every request of the bot's that home has decided is answered by now.    *)
LEMMA MoveJobInv == ASSUME IInv, NEW j \in Jobs, MoveJob(j) PROVE IInv'
<1>1. /\ UNCHANGED <<clicks, value, rows, records, uses, step, inbox, page, arriving, posted, results>>
      /\ step = "move" /\ owner' = [owner EXCEPT ![j] = Other(@)] /\ offered' = offered \ {j}
  BY DEF MoveJob, Unoffered, round
<1>2. owner \in [Jobs -> Copies] /\ offered \subseteq {k \in Jobs : owner[k] = "home"}
  BY DEF IInv, Typed, TypeOK
<1>3. owner' \in [Jobs -> Copies] /\ offered' \subseteq {k \in Jobs : owner'[k] = "home"}
  BY <1>1, <1>2 DEF Other, Copies
<1>4. Typed' BY <1>1, <1>3 DEF IInv, Typed, TypeOK, Made
<1>5. DOMAIN arriving = {} /\ page = {} /\ \A i \in Made("bot") : Unanswered(i) => records[i] = "none"
  BY <1>1 DEF IInv, Arrivals, BotPage
<1>6. BotRows' BY <1>1, <1>5 DEF IInv, BotRows, Made, Unanswered, Settled
<1> QED BY <1>1, <1>4, <1>6 DEF IInv, Numbered, Unmade, HomeRows, Arrivals, HomeInbox, BotPage,
     Made, Unanswered, Settled, Waiting

LEMMA FinishRoundInv == ASSUME IInv, FinishRound PROVE IInv'
<1>1. /\ UNCHANGED <<owner, offered, clicks, value, rows, records, uses, inbox, page, arriving, posted, results>>
      /\ step = "move" /\ step' = "idle"
  BY DEF FinishRound
<1>2. Typed' BY <1>1 DEF IInv, Typed, TypeOK, Made
<1> QED BY <1>1, <1>2 DEF IInv, Numbered, Unmade, HomeRows, BotRows, Arrivals, HomeInbox, BotPage,
     Made, Unanswered, Settled, Waiting, JobOfRequest

LEMMA GiveUpInv == ASSUME IInv, GiveUp PROVE IInv'
<1>1. /\ UNCHANGED <<owner, offered, clicks, value, rows, records, uses, arriving, posted>>
      /\ step' = "idle" /\ page' = {}
      /\ DOMAIN inbox' = {} /\ inbox' \in [DOMAIN inbox' -> Payload]
      /\ DOMAIN results' = {} /\ results' \in [DOMAIN results' -> Outcomes]
  BY NothingTypes DEF GiveUp
<1>2. Typed' BY <1>1 DEF IInv, Typed, TypeOK, Made
<1>3. HomeInbox' /\ BotPage' BY <1>1 DEF HomeInbox, BotPage
<1> QED BY <1>1, <1>2, <1>3 DEF IInv, Numbered, Unmade, HomeRows, BotRows, Arrivals,
     Made, Unanswered, Settled, JobOfRequest

LEMMA StepInv == ASSUME IInv, [Next]_vars PROVE IInv'
<1>1. CASE UNCHANGED vars
  <2>1. UNCHANGED <<owner, offered, clicks, value, rows, records, uses, step, inbox, page, arriving,
                    posted, results>>
    BY <1>1 DEF vars, round
  <2>2. Typed' BY <2>1 DEF IInv, Typed, TypeOK, Made
  <2> QED BY <2>1, <2>2 DEF IInv, Numbered, Unmade, HomeRows, BotRows, Arrivals, HomeInbox, BotPage,
     Made, Unanswered, Settled, Waiting, JobOfRequest
<1>2. CASE UserStep BY <1>2, ClickInv, OfferInv DEF UserStep
<1>3. CASE RoundStep
  BY <1>3, StartRoundInv, ReadRequestsInv, MarkSentInv, AnswerHomeInv, PostResultsInv,
     ListLocalInv, SettleStoredInv, SendLocalInv, StoreAnswersInv, FinishRoundInv DEF RoundStep
<1> QED BY <1>1, <1>2, <1>3, AnswerBotInv, GiveUpInv, MoveJobInv DEF Next

(* The invariant holds in every state, on every timing.                    *)
THEOREM Inductive == Spec => []IInv
<1>1. Init => IInv BY InitInv
<1>2. IInv /\ [Next]_vars => IInv' BY StepInv
<1> QED BY <1>1, <1>2, PTL DEF Spec

-----------------------------------------------------------------------------
(* The theorems *)

(* Requests, records and what a round holds stay in their domains.         *)
THEOREM TypeCorrect == Spec => []TypeOK
<1>1. IInv => TypeOK BY DEF IInv, Typed
<1> QED BY <1>1, Inductive, PTL

(* A request is applied at most once, by however many rounds that stop     *)
(* anywhere it is sent, whoever owns its job by then and whatever the      *)
(* timing: the record commits with the change, and no job moves before the *)
(* answers of the round are stored.                                        *)
THEOREM AppliedAtMostOnce == Spec => []AppliedOnce
<1>1. IInv => AppliedOnce
  <2> SUFFICES ASSUME IInv, NEW i \in Ids PROVE uses[i].times <= 1 BY DEF AppliedOnce
  <2>1. \A outcome : Times(outcome) <= 1 BY DEF Times
  <2>2. CASE rows[i].status = "none" BY <2>2 DEF IInv, Unmade
  <2>3. CASE rows[i].status # "none"
    <3>1. rows[i].by \in Copies /\ rows[i].status \in {"pending", "sent", "applied", "refused"}
      BY <2>3 DEF IInv, Typed, TypeOK, Row
    <3>2. CASE i \in Made("home") BY <2>1, <3>2 DEF IInv, HomeRows
    <3>3. CASE i \in Made("bot") BY <2>1, <3>1, <3>3 DEF IInv, BotRows, Unanswered, Settled, Outcomes
    <3> QED BY <2>3, <3>1, <3>2, <3>3 DEF Made, Copies
  <2> QED BY <2>2, <2>3
<1> QED BY <1>1, Inductive, PTL

-----------------------------------------------------------------------------
(* What the round carries is what the request says *)

LEMMA FaithfulKept ==
  ASSUME IInv, Faithful, SameRequests, UNCHANGED <<uses, records, posted>>,
         inbox' = inbox \/ inbox' = Nothing, arriving' = arriving \/ arriving' = Nothing
  PROVE  Faithful'
<1>1. DOMAIN inbox \subseteq Ids /\ DOMAIN arriving \subseteq Ids BY DEF IInv, Typed, TypeOK, Made
<1>2. DOMAIN Nothing = {} BY NothingTypes
<1>3. Made("bot")' = Made("bot") BY StillMade DEF Copies
<1>4. \A i \in Ids : rows'[i].payload = rows[i].payload BY DEF SameRequests
<1>5. \A i \in DOMAIN inbox' : inbox'[i] = rows'[i].payload BY <1>1, <1>2, <1>4 DEF Faithful
<1>6. \A i \in DOMAIN arriving' : i \in DOMAIN arriving /\ arriving'[i] = rows'[i].payload
  BY <1>1, <1>2, <1>4 DEF Faithful
<1>7. \A i \in Made("bot") : records'[i] # "none" \/ i \in DOMAIN arriving' => i \in posted'
  BY <1>6 DEF Faithful
<1>8. \A i \in Ids : uses'[i].times # 0 => uses'[i].payload = rows'[i].payload
  BY <1>4 DEF Faithful
<1> QED BY <1>3, <1>5, <1>6, <1>7, <1>8 DEF Faithful

LEMMA ClickFaithful ==
  ASSUME IInv, Faithful, NoResend, NEW c \in Copies, NEW t \in Targets, NEW fields, Click(c, t, fields)
  PROVE  Faithful'
<1>0. Typed /\ Numbered BY DEF IInv
<1>1. UNCHANGED <<records, uses, step, inbox, arriving, posted>>
  BY <1>0, ClickCases DEF round
<1>2. CASE UNCHANGED rows BY <1>1, <1>2 DEF Faithful, Made
<1>3. CASE \E i \in Made(c), p \in Payload :
             Unanswered(i) /\ ~OnItsWay(i) /\ rows' = [rows EXCEPT ![i].payload = p]
  <2>1. PICK i \in Made(c), p \in Payload :
               Unanswered(i) /\ ~OnItsWay(i) /\ rows' = [rows EXCEPT ![i].payload = p]
    BY <1>3
  <2>2. i \in Ids /\ rows \in [Ids -> Row] BY DEF IInv, Typed, TypeOK, Made
  <2>3. /\ \A k \in Ids : rows'[k].by = rows[k].by /\ rows'[k].status = rows[k].status
        /\ \A k \in Ids \ {i} : rows'[k].payload = rows[k].payload
    BY <2>1, <2>2 DEF Row
  <2>4. Made("bot")' = Made("bot") BY <2>3 DEF Made
  <2>5. i \notin DOMAIN inbox
    <3>1. step = "mark" => i \notin DOMAIN inbox BY <2>1 DEF OnItsWay
    <3>2. step = "answer" => i \notin DOMAIN inbox BY <2>1 DEF IInv, HomeInbox, Unanswered
    <3>3. step \notin {"mark", "answer"} => i \notin DOMAIN inbox BY DEF IInv, HomeInbox
    <3> QED BY <3>1, <3>2, <3>3
  <2>6. records[i] = "none" /\ uses[i].times = 0 /\ i \notin DOMAIN arriving
    <3>1. CASE c = "home"
      <4>1. i \notin Made("bot") BY <3>1 DEF Made
      <4>2. i \notin DOMAIN arriving BY <4>1 DEF IInv, Typed, TypeOK
      <4> QED BY <2>1, <3>1, <4>2 DEF IInv, HomeRows, Times
    <3>2. CASE c = "bot"
      <4>1. i \notin posted BY <2>1 DEF OnItsWay
      <4>2. records[i] = "none" /\ i \notin DOMAIN arriving BY <3>2, <4>1 DEF Faithful
      <4> QED BY <2>1, <3>2, <4>2 DEF IInv, BotRows, Times
    <3> QED BY <3>1, <3>2 DEF Copies
  <2>7. \A k \in Ids : uses[k].times # 0 => uses[k].payload = rows'[k].payload
    BY <2>3, <2>6 DEF Faithful
  <2>8. /\ \A k \in DOMAIN inbox : inbox[k] = rows'[k].payload
        /\ \A k \in DOMAIN arriving : arriving[k] = rows'[k].payload
    BY <2>3, <2>5, <2>6 DEF Faithful, IInv, Typed, TypeOK, Made
  <2> QED BY <1>1, <2>4, <2>7, <2>8 DEF Faithful
<1>4. CASE \E i \in Ids, p \in Payload :
             /\ {k \in Ids : rows[k].status # "none"} = 1..(i - 1)
             /\ rows' = [rows EXCEPT ![i] = [by |-> c, target |-> t, payload |-> p,
                                             status |-> "pending"]]
  <2>1. PICK i \in Ids, p \in Payload :
             /\ {k \in Ids : rows[k].status # "none"} = 1..(i - 1)
             /\ rows' = [rows EXCEPT ![i] = [by |-> c, target |-> t, payload |-> p,
                                             status |-> "pending"]]
    BY <1>4
  <2>2. rows[i].status = "none"
    <3>1. i \in Nat /\ i \notin 1..(i - 1) BY Bounds DEF Ids
    <3> QED BY <2>1, <3>1
  <2>3. \A k \in Ids \ {i} : rows'[k] = rows[k] BY <2>1 DEF IInv, Typed, TypeOK
  <2>4. records[i] = "none" /\ uses[i].times = 0 BY <2>2 DEF IInv, Unmade
  <2>5. i \notin DOMAIN arriving /\ i \notin DOMAIN inbox BY <2>2 DEF IInv, Typed, TypeOK, Made
  <2>6. \A k \in Ids : uses[k].times # 0 => uses[k].payload = rows'[k].payload
    BY <2>3, <2>4 DEF Faithful
  <2>7. /\ \A k \in DOMAIN inbox : inbox[k] = rows'[k].payload
        /\ \A k \in DOMAIN arriving : arriving[k] = rows'[k].payload
    BY <2>3, <2>5 DEF Faithful, IInv, Typed, TypeOK, Made
  <2>8. \A k \in Ids : rows'[k].by = "bot" /\ rows'[k].status # "none"
                       /\ (records[k] # "none" \/ k \in DOMAIN arriving) => k \in posted
    BY <2>3, <2>4, <2>5 DEF Faithful, Made
  <2> QED BY <1>1, <2>6, <2>7, <2>8 DEF Faithful, Made
<1> QED BY <1>0, <1>2, <1>3, <1>4, ClickCases

LEMMA ReadRequestsFaithful == ASSUME IInv, Faithful, ReadRequests PROVE Faithful'
<1>1. UNCHANGED <<rows, records, uses, arriving, posted>> /\ inbox' = PayloadsOf(Served)
  BY DEF ReadRequests
<1>2. Served \subseteq Ids BY DEF Served, Made
<1>3. \A i \in DOMAIN inbox' : inbox'[i] = rows[i].payload
  BY <1>1, <1>2, Payloads DEF IInv, Typed
<1> QED BY <1>1, <1>3 DEF Faithful, Made

LEMMA AnswerHomeFaithful == ASSUME IInv, Faithful, AnswerHome PROVE Faithful'
<1>1. UNCHANGED <<rows, arriving, posted>> BY DEF AnswerHome
<1>2. \A i \in Ids : uses'[i].times # 0 => uses'[i].payload = rows[i].payload
  BY AnswerHomeInv DEF OnlyApplies, Faithful
<1>3. \A i \in DOMAIN inbox' : inbox'[i] = rows[i].payload
  BY AnswerHomeInv DEF Faithful
<1>4. \A i \in Made("bot") : records'[i] # "none" \/ i \in DOMAIN arriving => i \in posted
  BY AnswerHomeInv DEF Faithful
<1> QED BY <1>1, <1>2, <1>3, <1>4 DEF Faithful, Made

LEMMA SettleStoredFaithful == ASSUME IInv, Faithful, SettleStored PROVE Faithful'
<1>1. UNCHANGED <<records, inbox, arriving, posted>> BY DEF SettleStored
<1>2. SameRequests /\ \A k \in Ids : uses'[k] = uses[k] \/ uses'[k].payload = rows[k].payload
  BY SettleStoredInv
<1>3. Made("bot")' = Made("bot") BY <1>2, StillMade DEF Copies
<1>4. \A i \in Ids : rows'[i].payload = rows[i].payload BY <1>2 DEF SameRequests
<1>5. \A i \in Ids : uses'[i].times # 0 => uses'[i].payload = rows'[i].payload
  BY <1>2, <1>4 DEF Faithful
<1>6. DOMAIN inbox \subseteq Ids /\ DOMAIN arriving \subseteq Ids BY DEF IInv, Typed, TypeOK, Made
<1>7. /\ \A k \in DOMAIN inbox : inbox[k] = rows'[k].payload
      /\ \A k \in DOMAIN arriving : arriving[k] = rows'[k].payload
  BY <1>4, <1>6 DEF Faithful
<1> QED BY <1>1, <1>3, <1>5, <1>7 DEF Faithful

LEMMA SendLocalFaithful == ASSUME IInv, Faithful, SendLocal PROVE Faithful'
<1>1. /\ UNCHANGED <<rows, records, uses, inbox>>
      /\ arriving' = PayloadsOf(page) /\ posted' = posted \cup page
  BY DEF SendLocal
<1>2. page \subseteq Ids BY DEF IInv, Typed, TypeOK, Made
<1>3. DOMAIN arriving' = page /\ \A i \in page : arriving'[i] = rows[i].payload
  BY <1>1, <1>2, Payloads DEF IInv, Typed
<1> QED BY <1>1, <1>3 DEF Faithful, Made

LEMMA AnswerBotFaithful == ASSUME IInv, Faithful, AnswerBot PROVE Faithful'
<1>1. UNCHANGED <<rows, inbox, posted>> BY DEF AnswerBot
<1>2. \A i \in Ids : uses'[i].times # 0 => uses'[i].payload = rows[i].payload
  BY AnswerBotInv DEF OnlyApplies, Faithful
<1>3. \A i \in DOMAIN arriving' : arriving'[i] = rows[i].payload
  BY AnswerBotInv DEF Faithful
<1>4. \A i \in Made("bot") : records'[i] # "none" \/ i \in DOMAIN arriving' => i \in posted
  <2> SUFFICES ASSUME NEW i \in Made("bot"), records'[i] # "none" \/ i \in DOMAIN arriving'
               PROVE  i \in posted
    OBVIOUS
  <2>1. i \in Ids BY DEF Made
  <2>2. records[i] # "none" \/ i \in DOMAIN arriving BY <2>1, AnswerBotInv
  <2> QED BY <2>2 DEF Faithful
<1> QED BY <1>1, <1>2, <1>3, <1>4 DEF Faithful, Made

LEMMA StepFaithful == ASSUME NoResend, IInv, Faithful, [Next]_vars PROVE Faithful'
<1>1. CASE UNCHANGED vars BY <1>1, FaithfulKept DEF vars, round, SameRequests
<1>2. CASE UserStep
  <2>1. ASSUME NEW j \in Jobs, Offer(j) PROVE Faithful'
    BY <2>1, FaithfulKept DEF Offer, round, SameRequests
  <2> QED BY <1>2, <2>1, ClickFaithful DEF UserStep
<1>3. CASE RoundStep
  <2>1. CASE StartRound BY <2>1, FaithfulKept DEF StartRound, SameRequests
  <2>2. CASE MarkSent BY <2>2, FaithfulKept, MarkSentInv DEF MarkSent
  <2>3. CASE PostResults BY <2>3, FaithfulKept, PostResultsInv DEF PostResults
  <2>4. CASE ListLocal BY <2>4, FaithfulKept DEF ListLocal, SameRequests
  <2>5. CASE StoreAnswers BY <2>5, FaithfulKept, StoreAnswersInv DEF StoreAnswers
  <2>6. CASE FinishRound BY <2>6, FaithfulKept DEF FinishRound, SameRequests
  <2> QED BY <1>3, <2>1, <2>2, <2>3, <2>4, <2>5, <2>6, ReadRequestsFaithful, AnswerHomeFaithful,
       SettleStoredFaithful, SendLocalFaithful DEF RoundStep
<1>4. CASE GiveUp BY <1>4, FaithfulKept DEF GiveUp, SameRequests
<1>5. ASSUME NEW j \in Jobs, MoveJob(j) PROVE Faithful'
  BY <1>5, FaithfulKept DEF MoveJob, round, SameRequests
<1> QED BY <1>1, <1>2, <1>3, <1>4, <1>5, AnswerBotFaithful DEF Next

(* The answer that a copy shows says what was done on the other: all of    *)
(* what it now holds, or nothing of it.  Only a click that folds into a    *)
(* request whose answer was lost can break this.                           *)
THEOREM AnswersAreDone == NoResend => (Spec => []AnsweredAsDone)
<1> SUFFICES ASSUME NoResend PROVE Spec => []AnsweredAsDone OBVIOUS
<1>1. Init => IInv /\ Faithful
  <2> SUFFICES ASSUME Init PROVE Faithful BY InitInv
  <2>1. DOMAIN inbox = {} /\ DOMAIN arriving = {} BY NothingTypes DEF Init
  <2>2. \A i \in Ids : uses[i].times = 0 /\ records[i] = "none" BY DEF Init
  <2> QED BY <2>1, <2>2 DEF Faithful, Made
<1>2. IInv /\ Faithful /\ [Next]_vars => (IInv /\ Faithful)' BY StepInv, StepFaithful
<1>3. IInv /\ Faithful => AnsweredAsDone
  <2> SUFFICES ASSUME IInv, Faithful, NEW i \in Ids, Settled(i)
               PROVE  /\ rows[i].status = "applied" => uses[i].times > 0 /\ uses[i].payload = rows[i].payload
                      /\ rows[i].status = "refused" => uses[i].times = 0
    BY DEF AnsweredAsDone, Settled, Outcomes
  <2>1. rows[i].by \in Copies /\ rows[i].status # "none" BY DEF IInv, Typed, TypeOK, Row, Settled, Outcomes
  <2>2. uses[i].times = Times(rows[i].status)
    <3>1. CASE i \in Made("home") BY <3>1 DEF IInv, HomeRows
    <3>2. CASE i \in Made("bot") BY <3>2 DEF IInv, BotRows
    <3> QED BY <2>1, <3>1, <3>2 DEF Made, Copies
  <2> QED BY <2>2 DEF Times, Faithful
<1> QED BY <1>1, <1>2, <1>3, PTL DEF Spec

-----------------------------------------------------------------------------
(* The order of what the user did on a copy *)

(* A request that may still be applied, and the payloads it may have then. *)
Live(i) == Waiting(i) /\ records[i] = "none"
Versions(i) ==
  {rows[i].payload} \cup {inbox[k] : k \in DOMAIN inbox \cap {i}}
                    \cup {arriving[k] : k \in DOMAIN arriving \cap {i}}

Before(p, q) == \A f \in Fields : p[f] # 0 /\ q[f] # 0 => p[f] < q[f]
Precedes(i, k) ==
  /\ i < k /\ rows[i].status # "none" /\ rows[k].status # "none"
  /\ rows[i].by = rows[k].by /\ rows[i].target = rows[k].target

(* What the payloads and the values say was done on the copy it says.      *)
Clicked ==
  /\ \A t \in Targets, f \in Fields : value[t][f] \in 0..Len(clicks)
  /\ \A i \in Ids : rows[i].status # "none" =>
       \A p \in Versions(i), f \in Fields :
         p[f] # 0 => p[f] \in 1..Len(clicks) /\ clicks[p[f]] = rows[i].by

(* Only the last request of a copy for a target takes more clicks, ...     *)
Later ==
  \A i, k \in Ids : Precedes(i, k) =>
    /\ ~Unanswered(i)
    /\ \A p \in Versions(i), q \in Versions(k) : Before(p, q)

(* ... what may still be applied is newer than what it would replace, ...  *)
Ahead ==
  \A i \in Ids : Live(i) => \A p \in Versions(i), f \in Fields :
    LET old == value[rows[i].target][f]
    IN  old # 0 /\ p[f] # 0 /\ clicks[old] = rows[i].by => old < p[f]

(* ... and the round takes none without those before it.                   *)
Closed ==
  \A i, k \in Ids : Precedes(i, k) /\ k \in DOMAIN inbox /\ Live(i) => i \in DOMAIN inbox

Ordered == Clicked /\ Later /\ Ahead /\ Closed
NoDirect == "direct" \notin Windows

Newest ==
  \A t \in Targets, f \in Fields :
    LET old == value[t][f]
        new == value'[t][f]
    IN old # 0 /\ new # old /\ clicks'[new] = clicks'[old] => new > old

LEMMA FirstOf == ASSUME NEW S \in SUBSET Ids, S # {}
                 PROVE  NextOf(S) \in S /\ \A k \in S : NextOf(S) <= k
<1>1. S \in SUBSET Nat BY Bounds DEF Ids
<1> DEFINE R == OpToRel(<, Nat)
<1>2. IsWellFoundedOn(R, Nat) BY NatLessThanWellFounded
<1> HIDE DEF R
<1>3. PICK x \in S : \A y \in S : ~ (<<y, x>> \in R) BY <1>1, <1>2, WFMin
<1>4. \A y \in S : x <= y
  <2> TAKE y \in S
  <2>1. y < x => <<y, x>> \in R BY <1>1 DEF R, OpToRel
  <2> QED BY <1>1, <1>3, <2>1
<1> QED BY <1>3, <1>4 DEF NextOf, Min

(* What a step does that makes no request and no click: the payloads and   *)
(* the live requests are among those before.                               *)
Settles ==
  /\ SameRequests /\ UNCHANGED clicks
  /\ \A i \in Ids : /\ Versions(i)' \subseteq Versions(i)
                    /\ Unanswered(i)' => Unanswered(i)
                    /\ Live(i)' => Live(i)
  /\ Closed'

LEMMA RowsTyped ==
  ASSUME IInv, NEW i \in Ids
  PROVE  /\ rows[i] \in Row /\ rows[i].target \in Targets /\ rows[i].by \in Copies
         /\ rows[i].payload \in Payload /\ value \in [Targets -> Payload]
         /\ \A p \in Versions(i) : p \in Payload
<1>1. rows[i] \in Row /\ value \in [Targets -> Payload] /\ rows[i].payload \in Payload
  BY DEF IInv, Typed, TypeOK, Row
<1>2. \A k \in DOMAIN inbox : inbox[k] \in Payload BY DEF IInv, Typed, TypeOK
<1>3. \A k \in DOMAIN arriving : arriving[k] \in Payload BY DEF IInv, Typed, TypeOK
<1> QED BY <1>1, <1>2, <1>3 DEF Row, Versions

LEMMA SettlesOrdered ==
  ASSUME IInv, Ordered, Settles, UNCHANGED value
  PROVE  Ordered' /\ Newest
<1>1. \A i \in Ids : /\ rows'[i].by = rows[i].by /\ rows'[i].target = rows[i].target
                     /\ (rows'[i].status = "none" <=> rows[i].status = "none")
  BY DEF Settles, SameRequests
<1>2. \A i, k \in Ids : Precedes(i, k)' => Precedes(i, k) BY <1>1 DEF Precedes
<1>3. Clicked' BY <1>1 DEF Settles, Ordered, Clicked
<1>4. Later' BY <1>2 DEF Settles, Ordered, Later, Before
<1>5. Ahead' BY <1>1 DEF Settles, Ordered, Ahead
<1>6. Closed' BY DEF Settles
<1> QED BY <1>3, <1>4, <1>5, <1>6 DEF Ordered, Newest

(* A live request is applied when none before it is live.                  *)
LEMMA AppliesOrdered ==
  ASSUME IInv, Ordered, Settles, NEW i \in Ids, Live(i), ~Live(i)', NEW p \in Versions(i),
         value' = [value EXCEPT ![rows[i].target] = Merge(@, p)],
         \A k \in Ids : Precedes(k, i) => ~Live(k)
  PROVE  Ordered' /\ Newest
<1>1. \A k \in Ids : /\ rows'[k].by = rows[k].by /\ rows'[k].target = rows[k].target
                     /\ (rows'[k].status = "none" <=> rows[k].status = "none")
  BY DEF Settles, SameRequests
<1>2. \A m, k \in Ids : Precedes(m, k)' => Precedes(m, k) BY <1>1 DEF Precedes
<1>3. PICK t \in Targets, c \in Copies : t = rows[i].target /\ c = rows[i].by BY RowsTyped
<1>4. value \in [Targets -> Payload] /\ p \in Payload /\ Payload = [Fields -> 0..MaxClicks] /\ MaxClicks \in Nat
  BY RowsTyped, Bounds DEF Payload
<1>5. /\ \A s \in Targets : s # t => value'[s] = value[s]
      /\ value'[t] = [f \in Fields |-> IF p[f] # 0 THEN p[f] ELSE value[t][f]]
  BY <1>3, <1>4 DEF Merge
<1>6. \A f \in Fields : value'[t][f] = IF p[f] # 0 THEN p[f] ELSE value[t][f] BY <1>5
<1>7. rows[i].status # "none" BY DEF Live, Waiting
<1>8. \A f \in Fields : p[f] # 0 => p[f] \in 1..Len(clicks) /\ clicks[p[f]] = c
  BY <1>3, <1>7 DEF Ordered, Clicked
<1>9. clicks' = clicks /\ Len(clicks) \in Nat BY DEF Settles, IInv, Typed
<1>10. Clicked'
  <2>1. \A s \in Targets, f \in Fields : value'[s][f] \in 0..Len(clicks)
    <3> SUFFICES ASSUME NEW s \in Targets, NEW f \in Fields PROVE value'[s][f] \in 0..Len(clicks)
      OBVIOUS
    <3>1. value[s][f] \in 0..Len(clicks) BY DEF Ordered, Clicked
    <3>2. CASE s # t BY <1>5, <3>1, <3>2
    <3>3. CASE s = t /\ p[f] # 0 BY <1>6, <1>8, <1>9, <3>3
    <3>4. CASE s = t /\ p[f] = 0 BY <1>6, <3>1, <3>4
    <3> QED BY <3>2, <3>3, <3>4
  <2>2. \A k \in Ids : rows'[k].status # "none" =>
          \A q \in Versions(k)', f \in Fields :
            q[f] # 0 => q[f] \in 1..Len(clicks) /\ clicks[q[f]] = rows'[k].by
    BY <1>1 DEF Settles, Ordered, Clicked
  <2> QED BY <1>9, <2>1, <2>2 DEF Clicked
<1>11. Later' BY <1>2 DEF Settles, Ordered, Later, Before
<1>12. Ahead'
  <2> SUFFICES ASSUME NEW k \in Ids, Live(k)', NEW q \in Versions(k)', NEW f \in Fields, NEW old,
                      old = value'[rows[k].target][f], old # 0, q[f] # 0, clicks[old] = rows[k].by
               PROVE  old < q[f]
    BY <1>1, <1>9 DEF Ahead
  <2>1. Live(k) /\ k # i /\ q \in Versions(k) /\ rows[k].target \in Targets /\ rows[k].status # "none"
    BY RowsTyped DEF Settles, Live, Waiting
  <2>2. CASE rows[k].target # t \/ p[f] = 0
    <3>1. old = value[rows[k].target][f] BY <1>5, <1>6, <2>1, <2>2
    <3> QED BY <2>1, <3>1 DEF Ordered, Ahead
  <2>3. CASE rows[k].target = t /\ p[f] # 0
    <3>1. old = p[f] BY <1>6, <2>3
    <3>2. rows[k].by = c BY <1>8, <2>3, <3>1
    <3>3. k \in Int /\ i \in Int BY Bounds DEF Ids
    <3>4. ~(k < i) BY <1>3, <1>7, <2>1, <2>3, <3>2 DEF Precedes
    <3>5. Precedes(i, k) BY <1>3, <1>7, <2>1, <2>3, <3>2, <3>3, <3>4 DEF Precedes
    <3>6. Before(p, q) BY <2>1, <3>5 DEF Ordered, Later
    <3> QED BY <2>3, <3>1, <3>6 DEF Before
  <2> QED BY <2>2, <2>3
<1>13. Newest
  <2> SUFFICES ASSUME NEW s \in Targets, NEW f \in Fields, NEW old, NEW new,
                      old = value[s][f], new = value'[s][f],
                      old # 0, new # old, clicks[new] = clicks[old]
               PROVE  new > old
    BY <1>9 DEF Newest
  <2>1. s = t /\ p[f] # 0 /\ new = p[f] BY <1>5, <1>6
  <2>2. clicks[old] = c BY <1>8, <2>1
  <2>3. old < p[f] BY <1>3, <2>1, <2>2 DEF Ordered, Ahead
  <2>4. old \in Int /\ new \in Int BY <1>4, <2>1
  <2> QED BY <2>1, <2>3, <2>4
<1> QED BY <1>10, <1>11, <1>12, <1>13 DEF Ordered, Settles

LEMMA VersionsAmong ==
  ASSUME IInv, SameRequests,
         \A k \in DOMAIN inbox' : inbox'[k] \in Versions(k),
         \A k \in DOMAIN arriving' : arriving'[k] \in Versions(k)
  PROVE  \A i \in Ids : Versions(i)' \subseteq Versions(i)
<1> SUFFICES ASSUME NEW i \in Ids, NEW p \in Versions(i)' PROVE p \in Versions(i)
  OBVIOUS
<1>1. rows'[i].payload = rows[i].payload /\ rows[i].payload \in Versions(i)
  BY DEF SameRequests, Versions
<1>2. \/ p = rows'[i].payload \/ (i \in DOMAIN inbox' /\ p = inbox'[i])
      \/ (i \in DOMAIN arriving' /\ p = arriving'[i])
  BY DEF Versions
<1> QED BY <1>1, <1>2

LEMMA VersionsHave ==
  /\ \A i : rows[i].payload \in Versions(i)
  /\ \A i \in DOMAIN inbox : inbox[i] \in Versions(i)
  /\ \A i \in DOMAIN arriving : arriving[i] \in Versions(i)
BY DEF Versions

(* What most steps do: the round holds what it did, or nothing of it.      *)
LEMMA CarriesOn ==
  ASSUME IInv, Ordered, SameRequests, UNCHANGED clicks,
         inbox' = inbox \/ inbox' = Nothing, arriving' = arriving \/ arriving' = Nothing,
         \A i \in Ids : (Unanswered(i)' => Unanswered(i)) /\ (Live(i)' => Live(i))
  PROVE  Settles
<1>1. DOMAIN Nothing = {} BY NothingTypes
<1>2. \A k \in DOMAIN inbox' : inbox'[k] \in Versions(k) BY <1>1, VersionsHave
<1>3. \A k \in DOMAIN arriving' : arriving'[k] \in Versions(k) BY <1>1, VersionsHave
<1>4. \A i \in Ids : Versions(i)' \subseteq Versions(i) BY <1>2, <1>3, VersionsAmong
<1>5. Closed'
  <2>1. \A i, k \in Ids : Precedes(i, k)' => Precedes(i, k) BY DEF SameRequests, Precedes
  <2>2. inbox' = inbox \/ DOMAIN inbox' = {} BY <1>1
  <2> QED BY <2>1, <2>2 DEF Closed, Ordered
<1> QED BY <1>4, <1>5 DEF Settles

(* Statuses that only settle.                                              *)
LEMMA StatusSettles ==
  ASSUME UNCHANGED records, NEW i \in Ids,
         \/ rows'[i].status = rows[i].status
         \/ rows'[i].status \in Outcomes
         \/ rows'[i].status = "sent" /\ Waiting(i)
  PROVE  (Unanswered(i)' => Unanswered(i)) /\ (Live(i)' => Live(i))
BY DEF Unanswered, Live, Waiting, Outcomes

LEMMA QuietOrdered ==
  ASSUME IInv, Ordered,
         \/ StartRound \/ MarkSent \/ PostResults \/ ListLocal \/ StoreAnswers \/ FinishRound \/ GiveUp
         \/ (\E j \in Jobs : Offer(j) \/ MoveJob(j)) \/ UNCHANGED vars
  PROVE  Ordered' /\ Newest
<1>1. /\ UNCHANGED <<clicks, value, records>>
      /\ inbox' = inbox \/ inbox' = Nothing
      /\ arriving' = arriving \/ arriving' = Nothing
  BY DEF StartRound, MarkSent, PostResults, ListLocal, StoreAnswers, FinishRound, GiveUp, Offer, MoveJob,
     vars, round
<1>2. SameRequests
  <2>1. CASE UNCHANGED rows BY <2>1 DEF SameRequests
  <2> QED BY <2>1, MarkSentInv, PostResultsInv, StoreAnswersInv
      DEF StartRound, ListLocal, FinishRound, GiveUp, Offer, MoveJob, vars
<1>3. \A i \in Ids : \/ rows'[i].status = rows[i].status
                     \/ rows'[i].status \in Outcomes
                     \/ rows'[i].status = "sent" /\ Waiting(i)
  <2> SUFFICES ASSUME NEW i \in Ids
               PROVE  \/ rows'[i].status = rows[i].status
                      \/ rows'[i].status \in Outcomes
                      \/ rows'[i].status = "sent" /\ Waiting(i)
    OBVIOUS
  <2>1. rows[i] \in Row BY RowsTyped
  <2>2. results \in [DOMAIN results -> Outcomes] BY DEF IInv, Typed, TypeOK
  <2>3. CASE MarkSent
    <3>1. rows'[i] = IF i \in DOMAIN inbox THEN [rows[i] EXCEPT !.status = "sent"] ELSE rows[i]
      BY <2>3 DEF MarkSent
    <3>2. i \in DOMAIN inbox => Waiting(i) BY <2>3 DEF MarkSent, IInv, HomeInbox
    <3> QED BY <2>1, <3>1, <3>2 DEF Row
  <2>4. CASE PostResults
    <3>1. rows'[i] = IF i \in DOMAIN results /\ rows[i].status = "sent"
                     THEN [rows[i] EXCEPT !.status = results[i]] ELSE rows[i]
      BY <2>4 DEF PostResults, Answered
    <3> QED BY <2>1, <2>2, <3>1 DEF Row
  <2>5. CASE StoreAnswers
    <3>1. rows'[i] = IF i \in DOMAIN results THEN [rows[i] EXCEPT !.status = results[i]] ELSE rows[i]
      BY <2>5 DEF StoreAnswers
    <3> QED BY <2>1, <2>2, <3>1 DEF Row
  <2>6. CASE UNCHANGED rows BY <2>6
  <2> QED BY <2>3, <2>4, <2>5, <2>6 DEF StartRound, ListLocal, FinishRound, GiveUp, Offer, MoveJob, vars
<1>4. \A i \in Ids : (Unanswered(i)' => Unanswered(i)) /\ (Live(i)' => Live(i))
  BY <1>1, <1>3, StatusSettles
<1>5. Settles BY <1>1, <1>2, <1>4, CarriesOn
<1> QED BY <1>1, <1>5, SettlesOrdered

(* The round takes every request for a job that waits for it.              *)
LEMMA ReadRequestsOrdered == ASSUME IInv, Ordered, ReadRequests PROVE Ordered' /\ Newest
<1>1. /\ UNCHANGED <<owner, clicks, value, rows, records, arriving>>
      /\ inbox' = PayloadsOf(Served)
  BY DEF ReadRequests
<1>2. SameRequests BY <1>1 DEF SameRequests
<1>3. Served \subseteq Ids BY DEF Served, Made
<1>4. DOMAIN inbox' = Served /\ \A k \in Served : inbox'[k] = rows[k].payload
  BY <1>1, <1>3, Payloads DEF IInv, Typed
<1>5. \A i \in Ids : Versions(i)' \subseteq Versions(i)
  <2>1. \A k \in DOMAIN inbox' : inbox'[k] \in Versions(k) BY <1>4, VersionsHave
  <2>2. \A k \in DOMAIN arriving' : arriving'[k] \in Versions(k) BY <1>1, VersionsHave
  <2> QED BY <1>2, <2>1, <2>2, VersionsAmong
<1>6. \A i \in Ids : Unanswered(i)' = Unanswered(i) /\ Live(i)' = Live(i)
  BY <1>1 DEF Unanswered, Live, Waiting
<1>7. Closed'
  <2>1. \A i, k \in Ids : Precedes(i, k) /\ k \in Served /\ Live(i) => i \in Served
    BY DEF Precedes, Served, Made, Live, JobOfRequest
  <2>2. \A i, k \in Ids : Precedes(i, k)' = Precedes(i, k) BY <1>1 DEF Precedes
  <2> QED BY <1>4, <1>6, <2>1, <2>2 DEF Closed
<1>8. Settles BY <1>1, <1>2, <1>5, <1>6, <1>7 DEF Settles
<1> QED BY <1>1, <1>8, SettlesOrdered

LEMMA SendLocalOrdered == ASSUME IInv, Ordered, SendLocal PROVE Ordered' /\ Newest
<1>1. /\ UNCHANGED <<owner, clicks, value, rows, records, inbox>>
      /\ arriving' = PayloadsOf(page)
  BY DEF SendLocal
<1>2. SameRequests BY <1>1 DEF SameRequests
<1>3. page \subseteq Ids BY DEF IInv, Typed, TypeOK, Made
<1>4. DOMAIN arriving' = page /\ \A k \in page : arriving'[k] = rows[k].payload
  BY <1>1, <1>3, Payloads DEF IInv, Typed
<1>5. \A i \in Ids : Versions(i)' \subseteq Versions(i)
  <2>1. \A k \in DOMAIN inbox' : inbox'[k] \in Versions(k) BY <1>1, VersionsHave
  <2>2. \A k \in DOMAIN arriving' : arriving'[k] \in Versions(k) BY <1>4, VersionsHave
  <2> QED BY <1>2, <2>1, <2>2, VersionsAmong
<1>6. \A i \in Ids : Unanswered(i)' = Unanswered(i) /\ Live(i)' = Live(i)
  BY <1>1 DEF Unanswered, Live, Waiting
<1>7. Closed'
  <2>1. \A i, k \in Ids : Precedes(i, k)' = Precedes(i, k) BY <1>1 DEF Precedes
  <2> QED BY <1>1, <1>6, <2>1 DEF Closed, Ordered
<1>8. Settles BY <1>1, <1>2, <1>5, <1>6, <1>7 DEF Settles
<1> QED BY <1>1, <1>8, SettlesOrdered

(* An answer applies what it carries, or leaves the values.                *)
LEMMA AnswerApplies ==
  ASSUME IInv, NEW c, NEW i \in Ids, NEW payload, NEW outcome \in Outcomes,
         Answer(c, i, payload, outcome)
  PROVE  /\ \A k \in Ids : records[k] # "none" => records'[k] # "none"
         /\ records'[i] # "none"
         /\ \/ UNCHANGED value
            \/ /\ records[i] = "none"
               /\ value' = [value EXCEPT ![rows[i].target] = Merge(@, payload)]
<1>1. records \in [Ids -> Outcomes \cup {"none"}] BY DEF IInv, Typed, TypeOK
<1>2. CASE Earlier(i) # "none" BY <1>2 DEF Answer, NotApplied, Earlier
<1>3. CASE Earlier(i) = "none"
  <2>1. Settle(c, i, payload, outcome) BY <1>3 DEF Answer
  <2>2. records' = [records EXCEPT ![i] = outcome] /\ outcome # "none"
    BY <2>1 DEF Settle, Outcomes
  <2>3. UNCHANGED value \/ value' = [value EXCEPT ![rows[i].target] = Merge(@, payload)]
    BY <2>1 DEF Settle, Apply, NotApplied
  <2> QED BY <1>1, <1>3, <2>2, <2>3 DEF Earlier
<1> QED BY <1>2, <1>3

LEMMA AnswerHomeOrdered == ASSUME IInv, Ordered, AnswerHome PROVE Ordered' /\ Newest
<1>1. PICK i : i = NextOf(DOMAIN inbox)
  OBVIOUS
<1>2. DOMAIN inbox \subseteq Made("home") /\ DOMAIN inbox \subseteq Ids /\ DOMAIN inbox # {}
  BY DEF IInv, Typed, TypeOK, Made, AnswerHome
<1>3. i \in DOMAIN inbox /\ i \in Ids /\ \A k \in DOMAIN inbox : i <= k BY <1>1, <1>2, FirstOf
<1>4. PICK outcome \in Outcomes :
        /\ Answer("bot", i, inbox[i], outcome) /\ inbox' = Without(inbox, i)
        /\ UNCHANGED <<clicks, rows, arriving>> /\ step = "answer"
  BY <1>1 DEF AnswerHome
<1>5. DOMAIN inbox' = DOMAIN inbox \ {i} /\ \A k \in DOMAIN inbox' : inbox'[k] = inbox[k]
  BY <1>4, Taking
<1>6. /\ \A k \in Ids : records[k] # "none" => records'[k] # "none"
      /\ records'[i] # "none"
      /\ \/ UNCHANGED value
         \/ /\ records[i] = "none"
            /\ value' = [value EXCEPT ![rows[i].target] = Merge(@, inbox[i])]
  BY <1>3, <1>4, AnswerApplies
<1>7. \A k \in Ids : (Unanswered(k)' = Unanswered(k)) /\ (Live(k)' => Live(k)) /\ ~Live(i)'
  BY <1>4, <1>6 DEF Unanswered, Live, Waiting
<1>8. SameRequests BY <1>4 DEF SameRequests
<1>9. \A k \in Ids : Versions(k)' \subseteq Versions(k)
  <2>1. \A k \in DOMAIN inbox' : inbox'[k] \in Versions(k) BY <1>5, VersionsHave
  <2>2. \A k \in DOMAIN arriving' : arriving'[k] \in Versions(k) BY <1>4, VersionsHave
  <2> QED BY <1>8, <2>1, <2>2, VersionsAmong
<1>10. Closed'
  <2>1. \A m, k \in Ids : Precedes(m, k)' = Precedes(m, k) BY <1>4 DEF Precedes
  <2> QED BY <1>5, <1>7, <2>1 DEF Closed, Ordered
<1>11. Settles BY <1>4, <1>7, <1>8, <1>9, <1>10 DEF Settles
<1>12. CASE UNCHANGED value BY <1>11, <1>12, SettlesOrdered
<1>13. CASE records[i] = "none" /\ value' = [value EXCEPT ![rows[i].target] = Merge(@, inbox[i])]
  <2>1. Live(i)
    <3>1. rows[i].status = "sent" BY <1>3, <1>4 DEF IInv, HomeInbox
    <3> QED BY <1>13, <3>1 DEF Live, Waiting
  <2>2. inbox[i] \in Versions(i) BY <1>3, VersionsHave
  <2>3. \A k \in Ids : Precedes(k, i) => ~Live(k)
    <3> SUFFICES ASSUME NEW k \in Ids, Precedes(k, i), Live(k) PROVE FALSE
      OBVIOUS
    <3>1. k \in DOMAIN inbox BY <1>3 DEF Ordered, Closed
    <3>2. k < i /\ i <= k /\ k \in Int /\ i \in Int BY <1>3, <3>1, Bounds DEF Precedes, Ids
    <3> QED BY <3>2
  <2> QED BY <1>3, <1>7, <1>11, <1>13, <2>1, <2>2, <2>3, AppliesOrdered
<1> QED BY <1>6, <1>12, <1>13

(* Of the bot's requests for a target only the last one waits.             *)
LEMMA BotLast ==
  ASSUME IInv, Ordered, NEW i \in Made("bot"), NEW k \in Ids, Precedes(k, i)
  PROVE  ~Live(k)
<1>1. k \in Made("bot") /\ i \in Ids BY DEF Precedes, Made
<1>2. ~Unanswered(k) BY <1>1 DEF Ordered, Later
<1>3. rows[k].status # "sent" BY <1>1 DEF IInv, BotRows
<1> QED BY <1>2, <1>3 DEF Live, Waiting, Unanswered

LEMMA AnswerBotOrdered == ASSUME IInv, Ordered, AnswerBot PROVE Ordered' /\ Newest
<1>1. PICK i : i = NextOf(DOMAIN arriving)
  OBVIOUS
<1>2. DOMAIN arriving \subseteq Made("bot") /\ DOMAIN arriving \subseteq Ids /\ DOMAIN arriving # {}
  BY DEF IInv, Typed, TypeOK, Made, AnswerBot
<1>3. i \in DOMAIN arriving /\ i \in Ids /\ i \in Made("bot") BY <1>1, <1>2, FirstOf
<1>4. PICK outcome \in Outcomes :
        /\ Answer("home", i, arriving[i], outcome) /\ arriving' = Without(arriving, i)
        /\ UNCHANGED <<clicks, rows, inbox>>
  BY <1>1 DEF AnswerBot
<1>5. DOMAIN arriving' = DOMAIN arriving \ {i} /\ \A k \in DOMAIN arriving' : arriving'[k] = arriving[k]
  BY <1>4, Taking
<1>6. /\ \A k \in Ids : records[k] # "none" => records'[k] # "none"
      /\ records'[i] # "none"
      /\ \/ UNCHANGED value
         \/ /\ records[i] = "none"
            /\ value' = [value EXCEPT ![rows[i].target] = Merge(@, arriving[i])]
  BY <1>3, <1>4, AnswerApplies
<1>7. \A k \in Ids : (Unanswered(k)' = Unanswered(k)) /\ (Live(k)' => Live(k)) /\ ~Live(i)'
  BY <1>4, <1>6 DEF Unanswered, Live, Waiting
<1>8. SameRequests BY <1>4 DEF SameRequests
<1>9. \A k \in Ids : Versions(k)' \subseteq Versions(k)
  <2>1. \A k \in DOMAIN inbox' : inbox'[k] \in Versions(k) BY <1>4, VersionsHave
  <2>2. \A k \in DOMAIN arriving' : arriving'[k] \in Versions(k) BY <1>5, VersionsHave
  <2> QED BY <1>8, <2>1, <2>2, VersionsAmong
<1>10. Closed'
  <2>1. \A m, k \in Ids : Precedes(m, k)' = Precedes(m, k) BY <1>4 DEF Precedes
  <2> QED BY <1>4, <1>7, <2>1 DEF Closed, Ordered
<1>11. Settles BY <1>4, <1>7, <1>8, <1>9, <1>10 DEF Settles
<1>12. CASE UNCHANGED value BY <1>11, <1>12, SettlesOrdered
<1>13. CASE records[i] = "none" /\ value' = [value EXCEPT ![rows[i].target] = Merge(@, arriving[i])]
  <2>1. Live(i)
    <3>1. rows[i].status = "pending" BY <1>3 DEF IInv, Arrivals, Unanswered
    <3> QED BY <1>13, <3>1 DEF Live, Waiting
  <2>2. arriving[i] \in Versions(i) BY <1>3, VersionsHave
  <2>3. \A k \in Ids : Precedes(k, i) => ~Live(k) BY <1>3, BotLast
  <2> QED BY <1>3, <1>7, <1>11, <1>13, <2>1, <2>2, <2>3, AppliesOrdered
<1> QED BY <1>6, <1>12, <1>13

LEMMA SettleStoredOrdered == ASSUME IInv, Ordered, SettleStored PROVE Ordered' /\ Newest
<1>1. PICK i : i = NextOf(OursNow)
  OBVIOUS
<1>2. OursNow \subseteq page /\ page \subseteq Made("bot") /\ page \subseteq Ids /\ OursNow # {}
  BY DEF IInv, Typed, TypeOK, Made, SettleStored, OursNow
<1>3. i \in OursNow /\ i \in page /\ i \in Ids /\ i \in Made("bot") BY <1>1, <1>2, FirstOf
<1>4. PICK outcome \in Outcomes :
        /\ outcome = "applied" => Apply(i, rows[i].payload)
        /\ outcome = "refused" => NotApplied
        /\ rows' = [rows EXCEPT ![i].status = outcome]
        /\ UNCHANGED <<clicks, records, inbox, arriving>>
  BY <1>1 DEF SettleStored
<1>5. SameRequests BY SettleStoredInv
<1>6. rows[i].status = "pending" BY <1>3 DEF IInv, BotPage, Unanswered
<1>7. records[i] = "none"
  <2>1. owner[JobOfRequest(i)] = "bot" BY <1>3 DEF OursNow
  <2> QED BY <1>3, <1>6, <2>1 DEF IInv, BotRows, Unanswered
<1>8. rows'[i].status = outcome /\ \A k \in Ids : k # i => rows'[k].status = rows[k].status
  <2>1. rows \in [Ids -> Row] BY DEF IInv, Typed, TypeOK
  <2> QED BY <1>3, <1>4, <2>1 DEF Row
<1>9. \A k \in Ids : (Unanswered(k)' => Unanswered(k)) /\ (Live(k)' => Live(k))
  BY <1>4, <1>8, StatusSettles
<1>10. ~Live(i)' BY <1>8 DEF Live, Waiting, Outcomes
<1>11. Settles BY <1>4, <1>5, <1>9, CarriesOn
<1>12. CASE UNCHANGED value BY <1>11, <1>12, SettlesOrdered
<1>13. CASE value' = [value EXCEPT ![rows[i].target] = Merge(@, rows[i].payload)]
  <2>1. Live(i) BY <1>6, <1>7 DEF Live, Waiting
  <2>2. rows[i].payload \in Versions(i) BY VersionsHave
  <2>3. \A k \in Ids : Precedes(k, i) => ~Live(k) BY <1>3, BotLast
  <2> QED BY <1>3, <1>10, <1>11, <1>13, <2>1, <2>2, <2>3, AppliesOrdered
<1> QED BY <1>4, <1>12, <1>13 DEF Outcomes, Apply, NotApplied

(* A new click has a number above those so far.                            *)
LEMMA ClickCounts ==
  ASSUME IInv, NEW c \in Copies, NEW t \in Targets, NEW fields, Click(c, t, fields),
         NEW n, n = Len(clicks) + 1
  PROVE  /\ n \in 1..MaxClicks /\ Len(clicks) \in Nat /\ Len(clicks') = n /\ clicks'[n] = c
         /\ \A m \in 1..Len(clicks) : clicks'[m] = clicks[m] /\ m < n
         /\ \A m \in 0..Len(clicks) : m \in 0..n /\ m < n
         /\ UNCHANGED <<records, inbox, arriving>>
         /\ \A f \in Fields : Carries(fields, n)[f] \in {0, n}
<1>1. clicks \in Seq(Copies) /\ clicks' = Append(clicks, c) /\ n \in 1..MaxClicks
  BY Bounds DEF IInv, Typed, Click
<1>2. UNCHANGED <<records, inbox, arriving>> BY DEF Click, round
<1>3. \A f \in Fields : Carries(fields, n)[f] \in {0, n} BY DEF Carries
<1> QED BY <1>1, <1>2, <1>3

(* Where the copy owns the job, no request of its own waits.               *)
LEMMA DirectOrdered ==
  ASSUME NoDirect, IInv, Ordered, NEW c \in Copies, NEW t \in Targets, NEW fields, Click(c, t, fields),
         owner[JobOf[t]] = c
  PROVE  Ordered' /\ Newest
<1>1. PICK n, payload : n = Len(clicks) + 1 /\ payload = Carries(fields, n)
  OBVIOUS
<1>2. /\ n \in 1..MaxClicks /\ Len(clicks) \in Nat /\ Len(clicks') = n /\ clicks'[n] = c
      /\ \A m \in 1..Len(clicks) : clicks'[m] = clicks[m] /\ m < n
      /\ \A m \in 0..Len(clicks) : m \in 0..n /\ m < n
      /\ UNCHANGED <<records, inbox, arriving>>
      /\ \A f \in Fields : payload[f] \in {0, n}
  BY <1>1, ClickCounts
<1>3. /\ UNCHANGED rows /\ value' = [value EXCEPT ![t] = Merge(@, payload)]
      /\ \A k \in Made(c) : rows[k].target = t => ~Waiting(k)
  BY <1>1 DEF Click, NoDirect
<1>4. value \in [Targets -> Payload] BY DEF IInv, Typed, TypeOK
<1>5. \A s \in Targets, f \in Fields : value'[s][f] = value[s][f] \/ (s = t /\ value'[s][f] = n)
  <2>1. \A s \in Targets : s # t => value'[s] = value[s] BY <1>3, <1>4
  <2>2. value'[t] = [f \in Fields |-> IF payload[f] # 0 THEN payload[f] ELSE value[t][f]]
    BY <1>3, <1>4 DEF Merge
  <2>3. \A f \in Fields : value'[t][f] = value[t][f] \/ value'[t][f] = n BY <1>2, <2>2
  <2> QED BY <2>1, <2>3
<1>6. \A i \in Ids : /\ Versions(i)' = Versions(i) /\ Live(i)' = Live(i)
                     /\ Unanswered(i)' = Unanswered(i)
                     /\ \A k \in Ids : Precedes(i, k)' = Precedes(i, k)
  BY <1>2, <1>3 DEF Versions, Live, Waiting, Unanswered, Precedes
<1>7. \A s \in Targets, f \in Fields : value[s][f] \in 0..Len(clicks) BY DEF Ordered, Clicked
<1>8. Clicked'
  <2>1. \A s \in Targets, f \in Fields : value'[s][f] \in 0..n
    <3>1. n \in 0..n BY <1>2
    <3> QED BY <1>2, <1>5, <1>7, <3>1
  <2>2. \A i \in Ids : rows[i].status # "none" => \A p \in Versions(i), f \in Fields :
          p[f] # 0 => p[f] \in 1..n /\ clicks'[p[f]] = rows[i].by
    <3> SUFFICES ASSUME NEW i \in Ids, rows[i].status # "none", NEW p \in Versions(i), NEW f \in Fields, p[f] # 0
                 PROVE  p[f] \in 1..n /\ clicks'[p[f]] = rows[i].by
      OBVIOUS
    <3>1. p[f] \in 1..Len(clicks) /\ clicks[p[f]] = rows[i].by BY DEF Ordered, Clicked
    <3>2. p[f] \in 1..n BY <1>1, <1>2, <3>1
    <3> QED BY <1>2, <3>1, <3>2
  <2> QED BY <1>2, <1>3, <1>6, <2>1, <2>2 DEF Clicked
<1>9. Later' BY <1>6 DEF Ordered, Later, Before
<1>10. Closed' BY <1>2, <1>6 DEF Ordered, Closed
<1>11. Ahead'
  <2> SUFFICES ASSUME NEW i \in Ids, Live(i), NEW p \in Versions(i), NEW f \in Fields, NEW old,
                      old = value'[rows[i].target][f], old # 0, p[f] # 0, clicks'[old] = rows[i].by
               PROVE  old < p[f]
    BY <1>3, <1>6 DEF Ahead
  <2>1. rows[i].target \in Targets /\ rows[i].status # "none" BY RowsTyped DEF Live, Waiting
  <2>2. CASE old = value[rows[i].target][f]
    <3>1. old \in 1..Len(clicks) BY <1>7, <2>1, <2>2
    <3>2. clicks[old] = rows[i].by BY <1>2, <3>1
    <3> QED BY <2>2, <3>2 DEF Ordered, Ahead
  <2>3. CASE rows[i].target = t /\ old = n
    <3>1. rows[i].by = c BY <1>2, <2>3
    <3>2. i \in Made(c) BY <2>1, <3>1 DEF Made
    <3> QED BY <1>3, <2>3, <3>2 DEF Live
  <2> QED BY <1>5, <2>1, <2>2, <2>3
<1>12. Newest
  <2> SUFFICES ASSUME NEW s \in Targets, NEW f \in Fields, value'[s][f] # value[s][f]
               PROVE  value'[s][f] > value[s][f]
    BY DEF Newest
  <2>1. value'[s][f] = n /\ value[s][f] < n BY <1>2, <1>5, <1>7
  <2> QED BY <1>2, <1>7, <2>1
<1> QED BY <1>8, <1>9, <1>10, <1>11, <1>12 DEF Ordered

(* Where the copy does not own the job, the click goes into the last of    *)
(* its requests for the target.                                            *)
Takes(i, c, t, n) ==
  /\ rows'[i].by = c /\ rows'[i].target = t /\ rows'[i].status # "none"
  /\ \A k \in Ids : k # i => rows'[k] = rows[k]
  /\ rows[i].status # "none" => rows[i].by = c /\ rows[i].target = t /\ rows[i].status = rows'[i].status
  /\ rows[i].status = "none" => i \notin DOMAIN inbox
  /\ \A q \in Versions(i)', f \in Fields :
       q[f] \in {0, n} \/ (rows[i].status # "none" /\ \E p \in Versions(i) : q[f] = p[f])
  /\ \A k \in Ids : ~Precedes(i, k)' /\ (Precedes(k, i)' => ~Unanswered(k))

LEMMA TakesOrdered ==
  ASSUME IInv, Ordered, NEW c \in Copies, NEW t \in Targets, NEW fields, Click(c, t, fields),
         UNCHANGED value, NEW i \in Ids, NEW n, n = Len(clicks) + 1, Takes(i, c, t, n)
  PROVE  Ordered' /\ Newest
<1>1. /\ n \in 1..MaxClicks /\ Len(clicks) \in Nat /\ Len(clicks') = n /\ clicks'[n] = c
      /\ \A m \in 1..Len(clicks) : clicks'[m] = clicks[m] /\ m < n
      /\ \A m \in 0..Len(clicks) : m \in 0..n /\ m < n
      /\ UNCHANGED <<records, inbox, arriving>>
  BY ClickCounts
<1>2. \A m \in 1..Len(clicks) : m \in 1..n BY <1>1
<1>3. \A k \in Ids : k # i => /\ rows'[k] = rows[k] /\ Versions(k)' = Versions(k)
                              /\ Live(k)' = Live(k) /\ Unanswered(k)' = Unanswered(k)
  BY <1>1 DEF Takes, Versions, Live, Waiting, Unanswered
<1>4. \A m, k \in Ids : Precedes(m, k)' =>
        /\ m # i
        /\ k # i \/ rows[i].status # "none" => Precedes(m, k)
  BY <1>3 DEF Takes, Precedes
<1>5. \A s \in Targets, f \in Fields : value[s][f] \in 0..Len(clicks) BY DEF Ordered, Clicked
<1>6. \A k \in Ids : \A p \in Versions(k), f \in Fields : rows[k].status # "none" /\ p[f] # 0 =>
        p[f] \in 1..Len(clicks) /\ clicks[p[f]] = rows[k].by
  BY DEF Ordered, Clicked
<1>7. \A q \in Versions(i)', f \in Fields : q[f] # 0 => q[f] \in 1..n /\ clicks'[q[f]] = c
  <2> SUFFICES ASSUME NEW q \in Versions(i)', NEW f \in Fields, q[f] # 0
               PROVE  q[f] \in 1..n /\ clicks'[q[f]] = c
    OBVIOUS
  <2>1. CASE q[f] = n BY <1>1, <2>1
  <2>2. CASE rows[i].status # "none" /\ \E p \in Versions(i) : q[f] = p[f]
    <3>1. PICK p \in Versions(i) : q[f] = p[f] BY <2>2
    <3>2. p[f] \in 1..Len(clicks) /\ clicks[p[f]] = c BY <1>6, <2>2, <3>1 DEF Takes
    <3> QED BY <1>1, <1>2, <3>1, <3>2
  <2> QED BY <2>1, <2>2 DEF Takes
<1>8. Clicked'
  <2>1. \A s \in Targets, f \in Fields : value'[s][f] \in 0..Len(clicks') BY <1>1, <1>5
  <2>2. \A k \in Ids : k # i /\ rows'[k].status # "none" => \A p \in Versions(k)', f \in Fields :
          p[f] # 0 => p[f] \in 1..n /\ clicks'[p[f]] = rows'[k].by
    BY <1>1, <1>2, <1>3, <1>6
  <2>3. \A k \in Ids : rows'[k].status # "none" => \A p \in Versions(k)', f \in Fields :
          p[f] # 0 => p[f] \in 1..n /\ clicks'[p[f]] = rows'[k].by
    BY <1>7, <2>2 DEF Takes
  <2> QED BY <1>1, <2>1, <2>3 DEF Clicked
<1>9. Later'
  <2> SUFFICES ASSUME NEW m \in Ids, NEW k \in Ids, Precedes(m, k)'
               PROVE  /\ ~Unanswered(m)'
                      /\ \A p \in Versions(m)', q \in Versions(k)' : Before(p, q)
    BY DEF Later, Before
  <2>1. m # i /\ rows[m].status # "none" /\ Versions(m)' = Versions(m) /\ Unanswered(m)' = Unanswered(m)
    BY <1>3, <1>4 DEF Precedes
  <2>2. CASE k # i BY <1>3, <1>4, <2>1, <2>2 DEF Ordered, Later
  <2>3. CASE k = i
    <3>1. ~Unanswered(m) BY <2>3 DEF Takes
    <3>2. ASSUME NEW p \in Versions(m), NEW q \in Versions(i)', NEW f \in Fields, p[f] # 0, q[f] # 0
          PROVE  p[f] < q[f]
      <4>1. p[f] \in 1..Len(clicks) BY <1>6, <2>1, <3>2
      <4>2. CASE q[f] = n BY <1>1, <4>1, <4>2
      <4>3. CASE rows[i].status # "none" /\ \E r \in Versions(i) : q[f] = r[f]
        <5>1. PICK r \in Versions(i) : q[f] = r[f] BY <4>3
        <5>2. Before(p, r) BY <1>4, <2>3, <4>3 DEF Ordered, Later
        <5> QED BY <3>2, <5>1, <5>2 DEF Before
      <4> QED BY <3>2, <4>2, <4>3 DEF Takes
    <3> QED BY <2>1, <2>3, <3>1, <3>2 DEF Before
  <2> QED BY <2>2, <2>3
<1>10. Closed'
  <2> SUFFICES ASSUME NEW m \in Ids, NEW k \in Ids, Precedes(m, k)', k \in DOMAIN inbox, Live(m)'
               PROVE  m \in DOMAIN inbox
    BY <1>1 DEF Closed
  <2>1. m # i /\ Live(m) BY <1>3, <1>4
  <2>2. Precedes(m, k) BY <1>4 DEF Takes
  <2> QED BY <2>1, <2>2 DEF Ordered, Closed
<1>11. Ahead'
  <2> SUFFICES ASSUME NEW k \in Ids, Live(k)', NEW p \in Versions(k)', NEW f \in Fields, NEW old,
                      old = value[rows'[k].target][f], old # 0, p[f] # 0, clicks'[old] = rows'[k].by
               PROVE  old < p[f]
    BY DEF Ahead
  <2>1. CASE k # i
    <3>1. Live(k) /\ p \in Versions(k) /\ rows'[k] = rows[k] /\ rows[k].target \in Targets
      BY <1>3, <2>1, RowsTyped
    <3>2. old \in 1..Len(clicks) BY <1>5, <3>1
    <3>3. clicks[old] = rows[k].by BY <1>1, <3>1, <3>2
    <3> QED BY <3>1, <3>3 DEF Ordered, Ahead
  <2>2. CASE k = i
    <3>1. old = value[t][f] /\ clicks'[old] = c BY <2>2 DEF Takes
    <3>2. old \in 1..Len(clicks) BY <1>5, <3>1
    <3>3. CASE p[f] = n BY <1>1, <3>2, <3>3
    <3>4. CASE rows[i].status # "none" /\ \E q \in Versions(i) : p[f] = q[f]
      <4>1. PICK q \in Versions(i) : p[f] = q[f] BY <3>4
      <4>2. clicks[old] = rows[i].by /\ rows[i].target = t BY <1>1, <3>1, <3>2, <3>4 DEF Takes
      <4>3. Live(i) BY <1>1, <2>2, <3>4 DEF Takes, Live, Waiting
      <4> QED BY <3>1, <4>1, <4>2, <4>3 DEF Ordered, Ahead
    <3> QED BY <2>2, <3>3, <3>4 DEF Takes
  <2> QED BY <2>1, <2>2
<1> QED BY <1>8, <1>9, <1>10, <1>11 DEF Ordered, Newest

LEMMA EnqueueTakes ==
  ASSUME IInv, Ordered, NEW c \in Copies, NEW t \in Targets, NEW fields, Click(c, t, fields),
         owner[JobOf[t]] # c, NEW n, n = Len(clicks) + 1
  PROVE  UNCHANGED value /\ \E i \in Ids : Takes(i, c, t, n)
<1>1. PICK payload : payload = Carries(fields, n) OBVIOUS
<1>2. /\ UNCHANGED <<records, inbox, arriving>>
      /\ \A f \in Fields : payload[f] \in {0, n}
  BY <1>1, ClickCounts
<1>3. Enqueue(c, t, payload) /\ UNCHANGED value BY <1>1 DEF Click
<1>4. rows \in [Ids -> Row] BY DEF IInv, Typed, TypeOK
<1>5. CASE EarlierPending(c, t) # {}
  <2>1. PICK i : i = Min(EarlierPending(c, t)) OBVIOUS
  <2>2. i \in EarlierPending(c, t) BY <1>5, <2>1, EarlierId
  <2>3. rows' = [rows EXCEPT ![i].payload = Folded(i, payload)]
    BY <1>3, <1>5, <2>1 DEF Enqueue
  <2>4. i \in Ids /\ rows[i].by = c /\ rows[i].target = t /\ rows[i].status = "pending"
    BY <2>2 DEF EarlierPending, Made
  <2>5. /\ rows'[i].by = c /\ rows'[i].target = t /\ rows'[i].status = "pending"
        /\ rows'[i].payload = Folded(i, payload)
        /\ \A k \in Ids : k # i => rows'[k] = rows[k]
    BY <1>4, <2>3, <2>4 DEF Row
  <2>6. \A f \in Fields : Folded(i, payload)[f] \in {0, n, rows[i].payload[f]}
    BY <1>2 DEF Folded, Merge
  <2>7. \A q \in Versions(i)', f \in Fields : q[f] \in {0, n} \/ \E p \in Versions(i) : q[f] = p[f]
    <3> SUFFICES ASSUME NEW q \in Versions(i)', NEW f \in Fields
                 PROVE  q[f] \in {0, n} \/ \E p \in Versions(i) : q[f] = p[f]
      OBVIOUS
    <3>1. q = rows'[i].payload \/ q \in Versions(i) BY <1>2 DEF Versions
    <3>2. CASE q = rows'[i].payload
      <4>1. q[f] \in {0, n} \/ q[f] = rows[i].payload[f] BY <2>5, <2>6, <3>2
      <4> QED BY <4>1, VersionsHave
    <3>3. CASE q \in Versions(i) BY <3>3
    <3> QED BY <3>1, <3>2, <3>3
  <2>8. \A m, k \in Ids : Precedes(m, k)' => Precedes(m, k)
    <3>1. \A k \in Ids : /\ rows'[k].by = rows[k].by /\ rows'[k].target = rows[k].target
                         /\ rows'[k].status = rows[k].status
      BY <2>4, <2>5
    <3> QED BY <3>1 DEF Precedes
  <2>9. \A k \in Ids : ~Precedes(i, k)' /\ (Precedes(k, i)' => ~Unanswered(k))
    <3>1. Unanswered(i) BY <2>4 DEF Unanswered
    <3> QED BY <2>4, <2>8, <3>1 DEF Ordered, Later
  <2>10. Takes(i, c, t, n) BY <2>4, <2>5, <2>7, <2>9 DEF Takes
  <2> QED BY <1>3, <2>4, <2>10
<1>6. CASE EarlierPending(c, t) = {}
  <2>1. PICK i \in Ids : /\ i = Cardinality(Made("home") \cup Made("bot")) + 1
                         /\ rows' = [rows EXCEPT ![i] = [by |-> c, target |-> t, payload |-> payload,
                                                         status |-> "pending"]]
    BY <1>3, <1>6 DEF Enqueue
  <2>2. PICK m \in 0..MaxClicks : {k \in Ids : rows[k].status # "none"} = 1..m BY DEF IInv, Numbered
  <2>3. Made("home") \cup Made("bot") = {k \in Ids : rows[k].status # "none"}
    BY DEF Made, IInv, Typed, TypeOK, Row, Copies
  <2>4. Cardinality(1..m) = m BY FS_Interval, Bounds
  <2>5. i = m + 1 BY <2>1, <2>2, <2>3, <2>4
  <2>6. rows[i].status = "none" BY <2>2, <2>5, Bounds
  <2>7. \A k \in Ids : rows[k].status # "none" => k < i BY <2>2, <2>5, Bounds
  <2>8. /\ rows'[i].by = c /\ rows'[i].target = t /\ rows'[i].status = "pending"
        /\ rows'[i].payload = payload
        /\ \A k \in Ids : k # i => rows'[k] = rows[k]
    BY <1>4, <2>1
  <2>9. i \notin DOMAIN inbox /\ i \notin DOMAIN arriving
    BY <2>6 DEF IInv, Typed, TypeOK, Made
  <2>10. \A q \in Versions(i)' : q = payload BY <1>2, <2>8, <2>9 DEF Versions
  <2>11. \A k \in Ids : ~Precedes(i, k)' /\ (Precedes(k, i)' => ~Unanswered(k))
    <3> SUFFICES ASSUME NEW k \in Ids
                 PROVE  ~Precedes(i, k)' /\ (Precedes(k, i)' => ~Unanswered(k))
      OBVIOUS
    <3>1. k \in Int /\ i \in Int BY Bounds DEF Ids
    <3>2. ~Precedes(i, k)' BY <2>7, <2>8, <3>1 DEF Precedes
    <3>3. ASSUME Precedes(k, i)' PROVE ~Unanswered(k)
      <4>1. k # i BY <3>1, <3>3 DEF Precedes
      <4>2. rows[k].by = c /\ rows[k].target = t /\ rows[k].status # "none"
        BY <2>8, <3>3, <4>1 DEF Precedes
      <4>3. k \in Made(c) BY <4>2 DEF Made
      <4>4. rows[k].status # "pending" BY <1>6, <4>2, <4>3 DEF EarlierPending
      <4> QED BY <4>4 DEF Unanswered
    <3> QED BY <3>2, <3>3
  <2>12. Takes(i, c, t, n) BY <1>2, <2>6, <2>8, <2>9, <2>10, <2>11 DEF Takes
  <2> QED BY <1>3, <2>12
<1> QED BY <1>5, <1>6

LEMMA StepOrdered ==
  ASSUME NoDirect, IInv, Ordered, [Next]_vars
  PROVE  Ordered' /\ Newest
<1>1. ASSUME NEW c \in Copies, NEW t \in Targets, NEW fields, Click(c, t, fields)
      PROVE  Ordered' /\ Newest
  <2>1. CASE owner[JobOf[t]] = c BY <1>1, <2>1, DirectOrdered
  <2>2. CASE owner[JobOf[t]] # c
    <3>1. PICK n : n = Len(clicks) + 1 OBVIOUS
    <3>2. UNCHANGED value /\ \E i \in Ids : Takes(i, c, t, n) BY <1>1, <2>2, <3>1, EnqueueTakes
    <3> QED BY <1>1, <3>1, <3>2, TakesOrdered
  <2> QED BY <2>1, <2>2
<1>2. CASE UNCHANGED vars BY <1>2, QuietOrdered
<1>3. CASE UserStep BY <1>1, <1>3, QuietOrdered DEF UserStep
<1>4. CASE RoundStep
  BY <1>4, QuietOrdered, ReadRequestsOrdered, AnswerHomeOrdered, SettleStoredOrdered, SendLocalOrdered
     DEF RoundStep
<1>5. CASE AnswerBot \/ GiveUp \/ \E j \in Jobs : MoveJob(j)
  BY <1>5, AnswerBotOrdered, QuietOrdered
<1> QED BY <1>2, <1>3, <1>4, <1>5 DEF Next

(* What the user did later on a copy is never replaced by what they did    *)
(* earlier there, wherever the round stops, whatever folds and whoever     *)
(* owns the job by then: the round takes the requests in the order they    *)
(* were made and none without those before it.  The exception is a change  *)
(* made at once, on a job that came to the copy, while an older request of *)
(* the copy for it still waits (SyncRequests.Windows, "direct").           *)
THEOREM NewestAlwaysStands == NoDirect => (Spec => NewestStands)
<1> SUFFICES ASSUME NoDirect PROVE Spec => NewestStands
  OBVIOUS
<1>1. Init => IInv /\ Ordered
  <2> SUFFICES ASSUME Init PROVE Ordered BY InitInv
  <2>1. /\ \A i \in Ids : rows[i] = NotMade
        /\ \A t \in Targets, f \in Fields : value[t][f] = 0
        /\ clicks = <<>> /\ DOMAIN inbox = {}
    BY NothingTypes DEF Init, Empty
  <2>2. \A i \in Ids : rows[i].status = "none"
    <3>1. NotMade.status = "none" BY DEF NotMade
    <3> QED BY <2>1, <3>1
  <2>3. Clicked BY <2>1, <2>2 DEF Clicked
  <2>4. Later /\ Ahead /\ Closed BY <2>2 DEF Later, Ahead, Closed, Precedes, Live, Waiting
  <2> QED BY <2>3, <2>4 DEF Ordered
<1>2. IInv /\ Ordered /\ [Next]_vars => (IInv /\ Ordered)' BY StepInv, StepOrdered
<1>3. IInv /\ Ordered /\ [Next]_vars =>
        [\A t \in Targets, f \in Fields :
           LET old == value[t][f]
               new == value'[t][f]
           IN  old # 0 /\ new # old /\ clicks'[new] = clicks'[old] => new > old]_vars
  BY StepOrdered DEF Newest
<1> QED BY <1>1, <1>2, <1>3, PTL DEF Spec, NewestStands

=============================================================================
