----------------------------- MODULE Knowledge -----------------------------
(***************************************************************************)
(* The Career KB: the bullets of the user's jobs and projects, what is     *)
(* approved of them, which are wordings of which, and the notes that tie   *)
(* them to a base resume (models/career_kb.py).  Bullets arrive by many    *)
(* ways (kb_ingest.py, kb_consolidation.py, kb_base_sync.py,               *)
(* tailoring_session.py), are reworded and approved by the user and by a   *)
(* connected agent (routers/career_kb.py, mcp_server/client.py), and are   *)
(* combined, split, moved and ported (kb_claims.py, career_kb.py).         *)
(*                                                                         *)
(* A request that changes bullets loads them first and writes only the     *)
(* columns that it found different; intakes, deletions and merges can      *)
(* commit in between, and with the window "overlap" another change can.    *)
(***************************************************************************)
EXTENDS Integers, FiniteSets

CONSTANTS
  Points, Items,
  Texts,     \* wordings that differ after normalization
  MaxNotes,  \* bounds the notes
  Slow,      \* the changes that others may come between: a bound
  Windows,   \* the overlaps that may happen: "overlap"
  None

ASSUME KnowledgeConstants ==
  /\ MaxNotes \in Nat
  /\ Slow \subseteq {"approve", "retire", "reword", "agent", "unmerge", "combine", "move"}
  /\ Windows \subseteq {"overlap"}
  /\ None \notin Points \cup Items \cup Texts

VARIABLES
  items,    \* the rows of kb_entities
  points,   \* the rows of kb_points
  notes,    \* the rows of kb_port_log for one base resume
  vouched,  \* the text of each bullet that the user last typed, brought or approved
  request   \* a request between its load and its commit

vars == <<items, points, notes, vouched, request>>

-----------------------------------------------------------------------------
(* Rows *)

(* unconfirmed: the provenance is user_cannot_confirm.  approved_at is set *)
(* exactly while the state is approved, so it is not a column here.        *)
Point == [item : Items \cup {None}, text : Texts \cup {None},
          state : {"draft", "approved", "retired"},
          into : Points \cup {None}, unconfirmed : BOOLEAN]
NoPoint == [item |-> None, text |-> None, state |-> "draft", into |-> None, unconfirmed |-> FALSE]
Columns == DOMAIN NoPoint
Note == [item : Items, point : Points, text : Texts, dir : {"from", "to"}]

Live(rows) == {p \in Points : rows[p].item # None}
Of(rows, i) == {p \in Points : rows[p].item = i}
Active(rows, i) == {p \in Of(rows, i) : rows[p].state # "retired"}
TextsOf(rows, S) == {rows[p].text : p \in S}

(* Ids are never used again: one that a request still means is not fresh.  *)
Meant == IF request = None THEN {} ELSE Live(request.seen)
Fresh == Points \ (Live(points) \cup Meant)
FreshItems == Items \ (items \cup {request.new[p].item : p \in Meant})

Init ==
  /\ items = Items
  /\ points = [p \in Points |-> NoPoint]
  /\ notes = {}
  /\ vouched = [p \in Points |-> None]
  /\ request = None

-----------------------------------------------------------------------------
(* A request and its commit *)

(* The columns that a request changed, over what is there by now.          *)
Written(now, seen, new) ==
  [p \in Points |-> [c \in Columns |-> IF new[p][c] # seen[p][c] THEN new[p][c] ELSE now[p][c]]]

Touched(seen, new) == {p \in Points : new[p] # seen[p]}
Vouch(claims) == [p \in Points |-> IF \E t \in Texts : <<p, t>> \in claims
                                   THEN CHOOSE t \in Texts : <<p, t>> \in claims
                                   ELSE vouched[p]]

(* A request that makes new of the rows it loaded; claims are the texts    *)
(* that the user vouches for with it.                                      *)
Save(op, new, claims) ==
  \/ /\ request = None \/ "overlap" \in Windows
     /\ points' = new
     /\ vouched' = Vouch(claims)
     /\ UNCHANGED <<items, notes, request>>
  \/ /\ op \in Slow
     /\ request = None
     /\ request' = [seen |-> points, new |-> new, claims |-> claims]
     /\ UNCHANGED <<items, points, notes, vouched>>

(* The commit fails if a row or an item it needs is gone.                  *)
Commit ==
  /\ request # None
  /\ LET rows == Written(points, request.seen, request.new)
         mine == Touched(request.seen, request.new)
         lands == /\ mine \subseteq Live(points)
                  /\ \A p \in mine : rows[p].item \in items /\ rows[p].into \in Live(points) \cup {None}
     IN IF lands THEN points' = rows /\ vouched' = Vouch(request.claims)
                 ELSE UNCHANGED <<points, vouched>>
  /\ request' = None
  /\ UNCHANGED <<items, notes>>

-----------------------------------------------------------------------------
(* The state of a bullet *)

(* An active claim never carries a pointer.                                *)
WithState(row, s) ==
  [row EXCEPT !.state = s, !.into = IF s = "retired" THEN @ ELSE None]

Approve ==
  \E p \in Live(points) :
    Save("approve", [points EXCEPT ![p] = WithState(@, "approved")], {<<p, points[p].text>>})

Retire ==
  \E p \in Live(points) : Save("retire", [points EXCEPT ![p] = WithState(@, "retired")], {})

(* The user's own edit in the page, an adopted wording too, and an edit    *)
(* that approves.                                                          *)
Reword ==
  \E p \in Live(points), t \in Texts, approving \in BOOLEAN :
    LET row == IF approving THEN WithState(points[p], "approved") ELSE points[p]
    IN Save("reword", [points EXCEPT ![p] = [row EXCEPT !.text = t]], {<<p, t>>})

(* kb_edit_point: the edit and the demotion travel together.               *)
\* mutant: the agent's edit leaves the state alone
RewordedOnly(row, t) == [row EXCEPT !.text = t]
AgentReworded(row, t) == [WithState(row, "draft") EXCEPT !.text = t]
AgentRewords ==
  \E p \in Live(points), t \in Texts :
    Save("agent", [points EXCEPT ![p] = AgentReworded(@, t)], {})

Unmerge ==
  \E p \in Live(points) : Save("unmerge", [points EXCEPT ![p].into = None], {})

-----------------------------------------------------------------------------
(* Combine, split, move *)

MayCombine(k, others) ==
  /\ points[k].state # "retired" /\ ~points[k].unconfirmed
  /\ points[k].into = None
  /\ others # {} /\ k \notin others
  /\ \A o \in others :
       /\ points[o].item = points[k].item
       /\ ~points[o].unconfirmed
       /\ points[o].state = "retired" => points[o].into # None

(* The wordings of a loser follow it to the keeper.                        *)
\* mutant: combine does not flatten
CombinedFlatless(rows, k, others) ==
  [p \in Points |-> IF p \in others THEN [rows[p] EXCEPT !.state = "retired", !.into = k]
                    ELSE rows[p]]
Combined(rows, k, others) ==
  [p \in Points |->
     IF p \in others THEN [rows[p] EXCEPT !.state = "retired", !.into = k]
     ELSE IF rows[p].into \in others THEN [rows[p] EXCEPT !.into = k]
     ELSE rows[p]]

Combine ==
  \E k \in Live(points), others \in SUBSET Live(points) :
    /\ MayCombine(k, others)
    /\ Save("combine", Combined(points, k, others), {})

(* A claim moves with its wordings; a wording moved on its own is none.    *)
MovedTo(rows, p, i) ==
  [q \in Points |->
     IF q = p THEN [rows[p] EXCEPT !.item = i, !.into = None]
     ELSE IF rows[q].into = p THEN [rows[q] EXCEPT !.item = i]
     ELSE rows[q]]

Move ==
  \E p \in Live(points), i \in items :
    /\ points[p].item # i
    /\ Save("move", MovedTo(points, p, i), {})

(* A resume's wording becomes its own claim; its notes follow the words.   *)
Split ==
  \E p \in Live(points), q \in Fresh, t \in Texts :
    LET carried == {n \in notes : n.point = p /\ n.dir = "from" /\ n.text = t}
    IN /\ t # points[p].text /\ carried # {}
       /\ points' = [points EXCEPT ![q] = [NoPoint EXCEPT !.item = points[p].item, !.text = t,
                                                          !.state = "approved"]]
       /\ vouched' = [vouched EXCEPT ![q] = t]
       /\ notes' = (notes \ carried) \cup {[n EXCEPT !.point = q] : n \in carried}
       /\ UNCHANGED <<items, request>>

-----------------------------------------------------------------------------
(* Deletions and merges of items *)

(* The foreign keys: a wording of a deleted claim is none, and a note goes *)
(* with its claim and with its item.                                       *)
Without(rows, gone) ==
  [p \in Points |-> IF p \in gone THEN NoPoint
                    ELSE [rows[p] EXCEPT !.into = IF @ \in gone THEN None ELSE @]]

DeletePoint ==
  \E p \in Live(points) :
    /\ points' = Without(points, {p})
    /\ notes' = {n \in notes : n.point # p}
    /\ vouched' = [vouched EXCEPT ![p] = None]
    /\ UNCHANGED <<items, request>>

CreateItem ==
  \E i \in FreshItems : items' = items \cup {i} /\ UNCHANGED <<points, notes, vouched, request>>

DeleteItem ==
  \E i \in items :
    LET gone == Of(points, i)
    IN /\ items' = items \ {i}
       /\ points' = Without(points, gone)
       /\ notes' = {n \in notes : n.point \notin gone /\ n.item # i}
       /\ vouched' = [p \in Points |-> IF p \in gone THEN None ELSE vouched[p]]
       /\ UNCHANGED request

MergeItems ==
  \E source, target \in items :
    /\ source # target
    /\ items' = items \ {source}
    /\ points' = [p \in Points |-> IF points[p].item = source THEN [points[p] EXCEPT !.item = target]
                                   ELSE points[p]]
    /\ notes' = {IF n.item = source THEN [n EXCEPT !.item = target] ELSE n : n \in notes}
    /\ UNCHANGED <<vouched, request>>

-----------------------------------------------------------------------------
(* Intakes *)

Add(p, i, t, s) == points' = [points EXCEPT ![p] = [NoPoint EXCEPT !.item = i, !.text = t, !.state = s]]
Noted(i, p, t, dir) ==
  IF \E n \in notes : n.point = p /\ n.text = t THEN notes
  ELSE notes \cup {[item |-> i, point |-> p, text |-> t, dir |-> dir]}
RoomForNotes == Cardinality(notes) < MaxNotes

(* The user types it.                                                      *)
CreatePoint ==
  \E i \in items, t \in Texts, p \in Fresh :
    /\ Add(p, i, t, "approved")
    /\ vouched' = [vouched EXCEPT ![p] = t]
    /\ UNCHANGED <<items, notes, request>>

(* A model writes it from a document of the item: the bullets it was told  *)
(* of may be old by the time it answers, so its text may be any.           *)
Mint ==
  \E i \in items, t \in Texts, p \in Fresh :
    /\ Add(p, i, t, "draft")
    /\ UNCHANGED <<items, notes, vouched, request>>

(* From free text, on an item it chose or a new one.                       *)
Capture ==
  \E i \in items \cup FreshItems, t \in Texts, p \in Fresh :
    /\ items' = items \cup {i}
    /\ Add(p, i, t, "draft")
    /\ UNCHANGED <<notes, vouched, request>>

(* From a document that comes first; it is compared after the answer.      *)
IngestDocument ==
  \E i \in items \cup FreshItems, t \in Texts, p \in Fresh :
    /\ t \notin TextsOf(points, Active(points, i))
    /\ items' = items \cup {i}
    /\ Add(p, i, t, "draft")
    /\ UNCHANGED <<notes, vouched, request>>

(* An agent writes it (kb_add_points), and nothing the item has had.       *)
AddDraft ==
  \E i \in items, t \in Texts, p \in Fresh :
    /\ t \notin TextsOf(points, Of(points, i))
    /\ Add(p, i, t, "draft")
    /\ UNCHANGED <<items, notes, vouched, request>>

(* An answer in a gap analysis, unless an active bullet says it.           *)
WriteBack ==
  \E i \in items, t \in Texts, p \in Fresh :
    /\ t \notin TextsOf(points, Active(points, i))
    /\ Add(p, i, t, "draft")
    /\ UNCHANGED <<items, notes, vouched, request>>

(* "I can't confirm this" is kept once, under any item.                    *)
CannotConfirm ==
  \E i \in items, t \in Texts, p \in Fresh :
    /\ \A q \in Live(points) : ~(points[q].unconfirmed /\ points[q].text = t)
    /\ points' = [points EXCEPT ![p] = [item |-> i, text |-> t, state |-> "retired",
                                        into |-> None, unconfirmed |-> TRUE]]
    /\ UNCHANGED <<items, notes, vouched, request>>

(* A resume the user brought: each bullet is an active one's, or a new     *)
(* approved one, or part of a merged text that a model wrote.              *)
Import ==
  \E i \in items, t \in Texts :
    /\ RoomForNotes
    /\ \/ \E p \in Active(points, i) :
            /\ notes' = Noted(i, p, t, "from")
            /\ UNCHANGED <<points, vouched>>
       \/ \E p \in Fresh :
            /\ Add(p, i, t, "approved")
            /\ vouched' = [vouched EXCEPT ![p] = t]
            /\ notes' = Noted(i, p, t, "from")
       \/ \E p \in Fresh, merged \in Texts :
            /\ Add(p, i, merged, "draft")
            /\ notes' = Noted(i, p, t, "from")
            /\ UNCHANGED vouched
    /\ UNCHANGED <<items, request>>

(* A resume that an agent read: verbatim drafts, none that the item has    *)
(* had in any state.                                                       *)
IngestParsed ==
  \E i \in items, t \in Texts :
    LET same == {p \in Of(points, i) : points[p].text = t}
    IN /\ RoomForNotes
       /\ \/ \E p \in same : notes' = Noted(i, p, t, "from") /\ UNCHANGED points
          \/ \E p \in Fresh : /\ same = {}
                              /\ Add(p, i, t, "draft")
                              /\ notes' = Noted(i, p, t, "from")
       /\ UNCHANGED <<items, vouched, request>>

(* The sync of a base resume: a bullet that an active one says is in sync, *)
(* one that is close to it is noted as its wording, another is a draft.    *)
BaseSync ==
  \E i \in items, t \in Texts :
    LET close == {p \in Active(points, i) : ~points[p].unconfirmed}
    IN /\ RoomForNotes
       /\ t \notin TextsOf(points, close)
       /\ \/ \E p \in close : notes' = Noted(i, p, t, "from") /\ UNCHANGED points
          \/ \E p \in Fresh : /\ t \notin TextsOf(points, Active(points, i))
                              /\ Add(p, i, t, "draft")
                              /\ UNCHANGED notes
       /\ UNCHANGED <<items, vouched, request>>

(* An approved bullet goes into the resume, in its words or adapted ones.  *)
Port ==
  \E p \in Live(points), t \in Texts :
    /\ RoomForNotes
    /\ points[p].state = "approved"
    /\ notes' = notes \cup {[item |-> points[p].item, point |-> p, text |-> t, dir |-> "to"]}
    /\ UNCHANGED <<items, points, vouched, request>>

-----------------------------------------------------------------------------
(* Specification *)

Intake ==
  \/ CreatePoint \/ Mint \/ Capture \/ IngestDocument \/ AddDraft \/ WriteBack \/ CannotConfirm
  \/ Import \/ IngestParsed \/ BaseSync
Edit == Approve \/ Retire \/ Reword \/ AgentRewords \/ Unmerge \/ Combine \/ Move \/ Split
Next ==
  \/ Intake \/ Edit \/ Commit \/ Port
  \/ DeletePoint \/ CreateItem \/ DeleteItem \/ MergeItems

Spec == Init /\ [][Next]_vars

-----------------------------------------------------------------------------
(* Properties *)

TypeOK ==
  /\ items \subseteq Items
  /\ points \in [Points -> Point]
  /\ notes \subseteq Note
  /\ vouched \in [Points -> Texts \cup {None}]
  /\ request = None \/ request \in [seen : [Points -> Point], new : [Points -> Point],
                                    claims : SUBSET (Points \X Texts)]

(* Every wording is one step from its claim, on the same item, retired and *)
(* not one that the user could not confirm, and its claim is nobody's      *)
(* wording: kb_claims.combine flattens, a claim takes its wordings along,  *)
(* and one that is used again leaves its claim (_apply_point_state).       *)
WordingsAreOneLevel ==
  \A p \in Live(points) : points[p].into # None =>
    LET keeper == points[points[p].into]
    IN /\ points[p].state = "retired" /\ ~points[p].unconfirmed
       /\ keeper.item = points[p].item
       /\ keeper.into = None

(* What resumes are offered, the user has typed, brought or approved as it *)
(* reads now: no agent and no model changes an approved bullet, and none   *)
(* makes one (kb_edit_point's demotion, the drafts of the intakes).        *)
ApprovedIsVouched ==
  \A p \in Live(points) : points[p].state = "approved" => vouched[p] = points[p].text

(* A note of where a bullet was used goes only with its bullet; a cascade  *)
(* takes it then (models/career_kb.py, KBPortLog).                         *)
NotesGoWithTheirPoint ==
  [][\A n \in notes : (\A m \in notes' : m.text # n.text \/ m.dir # n.dir)
                        => n.point \notin Live(points')]_vars
=============================================================================
