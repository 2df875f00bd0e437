-------------------------- MODULE Knowledge_proofs --------------------------
(***************************************************************************)
(* Proofs about Knowledge, for any bullets, items and texts and whichever  *)
(* changes are slow: that wordings stay one step from their claim, and     *)
(* that no bullet is approved that the user has not vouched for, as long   *)
(* as two changes do not overlap; and type correctness, which holds even   *)
(* where they do.                                                          *)
(***************************************************************************)
EXTENDS Knowledge, TLAPS

NoOverlap == "overlap" \notin Windows

-----------------------------------------------------------------------------
(* The inductive invariant *)

Table(rows) == rows \in [Points -> Point]

(* A table of bullets as it should be: a free id holds nothing, and a      *)
(* pointer leads to a claim that has none.                                 *)
Sorted(rows) ==
  /\ \A p \in Points : rows[p].item = None => rows[p] = NoPoint
  /\ \A p \in Points : rows[p].item # None => rows[p].text # None
  /\ \A p \in Points : rows[p].into # None =>
       /\ rows[p].item # None
       /\ rows[p].state = "retired" /\ ~rows[p].unconfirmed
       /\ rows[rows[p].into].item = rows[p].item
       /\ rows[rows[p].into].into = None

Claimed(claims, p) == \E t \in Texts : <<p, t>> \in claims

(* What a change makes of the table it loaded.  It neither adds nor        *)
(* removes a bullet, and moves a claim and its wordings together.          *)
Change(seen, new, claims) ==
  /\ Table(new) /\ claims \subseteq Points \X Texts
  /\ Sorted(new)
  /\ \A p \in Points : new[p].item = None <=> seen[p].item = None
  /\ \A p \in Points : new[p].into # None =>
       (new[p].item = seen[p].item <=> new[new[p].into].item = seen[new[p].into].item)
  /\ \A p \in Points : Claimed(claims, p) => seen[p].item # None

(* The user vouches for p as it will read, with this change or before it.  *)
Vouches(new, claims, p) ==
  new[p].state = "approved" =>
    IF Claimed(claims, p) THEN \A t \in Texts : <<p, t>> \in claims => t = new[p].text
    ELSE vouched[p] = new[p].text

(* Since the running request loaded its table, bullets came and went, but  *)
(* those that are still there were only moved, with all of their item, or  *)
(* lost a pointer.                                                         *)
Pending(seen, new, claims) ==
  /\ Table(seen) /\ Sorted(seen) /\ Change(seen, new, claims)
  /\ \A p \in Points : seen[p].item # None /\ points[p].item # None =>
       /\ points[p].state = seen[p].state /\ points[p].text = seen[p].text
       /\ points[p].unconfirmed = seen[p].unconfirmed
       /\ points[p].into \in {seen[p].into, None}
       /\ Vouches(new, claims, p)
  /\ \A p, q \in Points :
       seen[p].item # None /\ points[p].item # None /\ points[q].item # None
         /\ seen[p].item = seen[q].item => points[p].item = points[q].item
  /\ \A p \in Points : seen[p].item = None => points[p].into = None

Typed ==
  /\ items \subseteq Items
  /\ Table(points)
  /\ vouched \in [Points -> Texts \cup {None}]

Vouched == \A p \in Points : points[p].state = "approved" => vouched[p] = points[p].text
Housed == \A p \in Points : points[p].item # None => points[p].item \in items

Requested == request # None =>
  /\ request = [seen |-> request.seen, new |-> request.new, claims |-> request.claims]
  /\ Pending(request.seen, request.new, request.claims)

IInv == Typed /\ Sorted(points) /\ Vouched /\ Housed /\ Requested

-----------------------------------------------------------------------------
LEMMA Nones == None \notin Points /\ None \notin Items /\ None \notin Texts
BY KnowledgeConstants

LEMMA InitInv == Init => IInv
BY Nones DEF Init, IInv, Typed, Table, Sorted, Vouched, Housed, Requested, NoPoint, Point

(* The step of a change that nothing comes between, or that only loads.    *)
LEMMA SaveInv ==
  ASSUME IInv, NoOverlap, NEW op, NEW new, NEW claims, Save(op, new, claims),
         Change(points, new, claims),
         \A p \in Points : new[p].item # None => new[p].item \in items,
         \A p \in Points : Vouches(new, claims, p)
  PROVE  IInv'
<1>1. CASE points' = new /\ vouched' = Vouch(claims) /\ UNCHANGED <<items, notes, request>> /\ request = None
  <2>1. Typed'
    <3>1. vouched' \in [Points -> Texts \cup {None}] BY <1>1 DEF Vouch, IInv, Typed
    <3> QED BY <1>1, <3>1 DEF IInv, Typed, Change, Table
  <2>2. Vouched'
    <3>1. ASSUME NEW p \in Points, new[p].state = "approved" PROVE vouched'[p] = new[p].text
      <4>1. CASE Claimed(claims, p)
        <5>1. vouched'[p] = CHOOSE t \in Texts : <<p, t>> \in claims
          BY <1>1, <4>1 DEF Vouch, Claimed
        <5>2. vouched'[p] \in Texts /\ <<p, vouched'[p]>> \in claims
          BY <4>1, <5>1 DEF Claimed
        <5> QED BY <3>1, <4>1, <5>2 DEF Vouches
      <4>2. CASE ~Claimed(claims, p)
        <5>1. vouched'[p] = vouched[p] BY <1>1, <4>2 DEF Vouch, Claimed
        <5> QED BY <3>1, <4>2, <5>1 DEF Vouches
      <4> QED BY <4>1, <4>2
    <3> QED BY <1>1, <3>1 DEF Vouched
  <2> QED BY <1>1, <2>1, <2>2 DEF IInv, Change, Housed, Requested
<1>2. CASE request' = [seen |-> points, new |-> new, claims |-> claims]
           /\ UNCHANGED <<items, points, notes, vouched>>
  <2>1. request'.seen = points /\ request'.new = new /\ request'.claims = claims BY <1>2
  <2>2. Table(points) /\ Sorted(points) BY DEF IInv, Typed
  <2>3. \A p \in Points : points[p].item = None => points[p].into = None
    BY <2>2 DEF Sorted, NoPoint
  <2>4. Pending(points, new, claims) BY <2>2, <2>3 DEF Pending
  <2>5. Requested'
    <3>1. Pending(request.seen, request.new, request.claims)'
      BY <1>2, <2>1, <2>4 DEF Pending, Vouches
    <3> QED BY <1>2, <2>1, <3>1 DEF Requested
  <2>6. Typed' /\ Sorted(points)' /\ Vouched' /\ Housed'
    BY <1>2 DEF IInv, Typed, Sorted, Vouched, Housed
  <2> QED BY <2>5, <2>6 DEF IInv
<1> QED BY <1>1, <1>2 DEF Save, NoOverlap

(* The columns of a row, one by one. *)
LEMMA Merging ==
  ASSUME NEW now, NEW seen, NEW new, Table(now), Table(seen), Table(new), NEW p \in Points
  PROVE  LET row == Written(now, seen, new)[p]
         IN  /\ row \in Point
             /\ row.item = IF new[p].item # seen[p].item THEN new[p].item ELSE now[p].item
             /\ row.text = IF new[p].text # seen[p].text THEN new[p].text ELSE now[p].text
             /\ row.state = IF new[p].state # seen[p].state THEN new[p].state ELSE now[p].state
             /\ row.into = IF new[p].into # seen[p].into THEN new[p].into ELSE now[p].into
             /\ row.unconfirmed = IF new[p].unconfirmed # seen[p].unconfirmed
                                  THEN new[p].unconfirmed ELSE now[p].unconfirmed
             /\ new[p] = seen[p] => row = now[p]
BY DEF Written, Table, Point, Columns, NoPoint

(* A change that bullets came and went beside: a pointer it made, and one  *)
(* that it left alone, still leads to a claim on the same item.            *)
LEMMA CommitInv ==
  ASSUME IInv, Commit
  PROVE  IInv'
<1> DEFINE seen == request.seen
           new == request.new
           claims == request.claims
           rows == Written(points, seen, new)
           mine == Touched(seen, new)
<1>1. Pending(seen, new, claims) /\ request' = None /\ UNCHANGED <<items, notes>>
  BY DEF Commit, IInv, Requested
<1>2. Requested' BY <1>1 DEF Requested
<1>3. CASE UNCHANGED <<points, vouched>>
  BY <1>1, <1>2, <1>3 DEF IInv, Typed, Vouched, Housed
<1>4. CASE /\ points' = rows /\ vouched' = Vouch(claims)
           /\ mine \subseteq Live(points)
           /\ \A p \in mine : rows[p].item \in items /\ rows[p].into \in Live(points) \cup {None}
  <2> HIDE DEF rows, seen, new, claims, mine
  <2>0. /\ Table(points) /\ Sorted(points) /\ Table(seen) /\ Sorted(seen) /\ Table(new) /\ Sorted(new)
        /\ Housed /\ Vouched /\ items \subseteq Items /\ Change(seen, new, claims)
    BY <1>1 DEF IInv, Typed, Pending, Change
  <2>1. \A p \in Points :
          /\ rows[p] \in Point
          /\ rows[p].item = IF new[p].item # seen[p].item THEN new[p].item ELSE points[p].item
          /\ rows[p].text = IF new[p].text # seen[p].text THEN new[p].text ELSE points[p].text
          /\ rows[p].state = IF new[p].state # seen[p].state THEN new[p].state ELSE points[p].state
          /\ rows[p].into = IF new[p].into # seen[p].into THEN new[p].into ELSE points[p].into
          /\ rows[p].unconfirmed = IF new[p].unconfirmed # seen[p].unconfirmed
                                   THEN new[p].unconfirmed ELSE points[p].unconfirmed
          /\ new[p] = seen[p] => rows[p] = points[p]
    BY <2>0, Merging DEF rows
  <2>2. \A p \in Points : p \notin mine => new[p] = seen[p] BY DEF mine, Touched
  <2>3. \A p \in Points : seen[p].item = None => new[p] = seen[p]
    BY <2>0 DEF Change, Sorted
  <2>4. \A p \in Points : p \in mine => points[p].item # None /\ seen[p].item # None
    BY <1>4, <2>3 DEF Live, mine, Touched
  <2>5. \A p \in Points : rows[p].item = None <=> points[p].item = None
    BY <2>0, <2>1, <2>2, <2>4 DEF Change
  <2>6. \A p \in Points : points[p].item # None /\ seen[p].item # None =>
          rows[p].state = new[p].state /\ rows[p].text = new[p].text
            /\ rows[p].unconfirmed = new[p].unconfirmed
    BY <1>1, <2>1 DEF Pending
  <2>7. Sorted(rows)
    <3>1. ASSUME NEW p \in Points, rows[p].item = None PROVE rows[p] = NoPoint
      <4>1. p \notin mine /\ points[p] = NoPoint BY <3>1, <2>0, <2>4, <2>5 DEF Sorted
      <4> QED BY <4>1, <2>1, <2>2
    <3>2. ASSUME NEW p \in Points, rows[p].into # None
          PROVE  /\ rows[p].item # None
                 /\ rows[p].state = "retired" /\ ~rows[p].unconfirmed
                 /\ rows[rows[p].into].item = rows[p].item
                 /\ rows[rows[p].into].into = None
      <4> DEFINE k == rows[p].into
      <4> HIDE DEF k
      <4>1. k \in Points /\ k # None BY <3>2, <2>1 DEF k, Point
      <4>2. points[p].item # None BY <2>0, <2>1, <2>2, <2>4, <3>2 DEF Sorted
      <4>3. seen[p].item # None
        <5>1. SUFFICES ASSUME seen[p].item = None PROVE FALSE OBVIOUS
        <5>2. rows[p].into = points[p].into BY <5>1, <2>1, <2>3
        <5> QED BY <5>1, <5>2, <3>2, <1>1 DEF Pending
      <4>4. new[p].into = k
        BY <1>1, <2>1, <3>2, <4>2, <4>3 DEF Pending, k
      <4>5. /\ new[p].state = "retired" /\ ~new[p].unconfirmed
            /\ new[k].item = new[p].item /\ new[k].into = None
        BY <2>0, <4>1, <4>4 DEF Sorted
      <4>6. seen[k].item # None
        BY <2>0, <4>1, <4>3, <4>5 DEF Change
      <4>7. points[k].item # None
        <5>1. CASE p \in mine BY <5>1, <1>4, <3>2, <4>1 DEF Live, k
        <5>2. CASE p \notin mine
          <6>1. points[p].into = k BY <5>2, <2>1, <2>2 DEF k
          <6> QED BY <6>1, <2>0, <4>1, <4>2 DEF Sorted
        <5> QED BY <5>1, <5>2
      <4>8. rows[k].into = None
        BY <1>1, <2>1, <4>1, <4>5, <4>6, <4>7 DEF Pending
      <4>9. rows[k].item = rows[p].item
        <5>1. new[p].item = seen[p].item <=> new[k].item = seen[k].item
          BY <2>0, <4>1, <4>4 DEF Change
        <5>2. CASE new[p].item = seen[p].item
          <6>1. seen[k].item = seen[p].item BY <5>1, <5>2, <4>5
          <6>2. points[k].item = points[p].item
            BY <1>1, <4>1, <4>2, <4>3, <4>6, <4>7, <6>1 DEF Pending
          <6> QED BY <5>1, <5>2, <6>2, <2>1, <4>1
        <5>3. CASE new[p].item # seen[p].item BY <5>1, <5>3, <2>1, <4>1, <4>5
        <5> QED BY <5>2, <5>3
      <4> QED BY <2>5, <2>6, <4>2, <4>3, <4>5, <4>8, <4>9 DEF k
    <3>3. ASSUME NEW p \in Points, rows[p].item # None PROVE rows[p].text # None
      <4>1. points[p].item # None BY <3>3, <2>5
      <4>2. CASE seen[p].item = None BY <4>1, <4>2, <2>0, <2>1, <2>3 DEF Sorted
      <4>3. CASE seen[p].item # None BY <4>1, <4>3, <2>0, <2>6 DEF Sorted, Change
      <4> QED BY <4>2, <4>3
    <3> QED BY <3>1, <3>2, <3>3 DEF Sorted
  <2>8. Housed'
    <3>1. ASSUME NEW p \in Points, rows[p].item # None PROVE rows[p].item \in items
      BY <3>1, <1>4, <2>0, <2>1, <2>2 DEF Housed
    <3> QED BY <3>1, <1>1, <1>4 DEF Housed
  <2>9. \A p \in Points : vouched'[p] = IF Claimed(claims, p)
                                        THEN CHOOSE t \in Texts : <<p, t>> \in claims
                                        ELSE vouched[p]
    BY <1>4 DEF Vouch, Claimed
  <2>10. Vouched'
    <3>1. ASSUME NEW p \in Points, rows[p].state = "approved" PROVE vouched'[p] = rows[p].text
      <4>1. CASE seen[p].item # None /\ points[p].item # None
        <5>1. Vouches(new, claims, p) /\ rows[p].text = new[p].text /\ new[p].state = "approved"
          BY <1>1, <2>6, <3>1, <4>1 DEF Pending
        <5>2. CASE Claimed(claims, p)
          <6>1. vouched'[p] \in Texts /\ <<p, vouched'[p]>> \in claims BY <2>9, <5>2 DEF Claimed
          <6> QED BY <5>1, <5>2, <6>1 DEF Vouches
        <5>3. CASE ~Claimed(claims, p) BY <5>1, <5>3, <2>9 DEF Vouches
        <5> QED BY <5>2, <5>3
      <4>2. CASE points[p].item = None
        BY <2>0, <2>5, <2>7, <3>1, <4>2 DEF Sorted, NoPoint
      <4>3. CASE seen[p].item = None /\ points[p].item # None
        <5>1. rows[p] = points[p] BY <2>1, <2>3, <4>3
        <5>2. ~Claimed(claims, p) BY <2>0, <4>3 DEF Change
        <5> QED BY <2>0, <2>9, <3>1, <5>1, <5>2 DEF Vouched
      <4> QED BY <4>1, <4>2, <4>3
    <3> QED BY <3>1, <1>4 DEF Vouched
  <2>11. Typed'
    <3>1. rows \in [Points -> Point]
      BY <2>1 DEF rows, Written
    <3>2. vouched' \in [Points -> Texts \cup {None}] BY <1>4 DEF Vouch, IInv, Typed
    <3> QED BY <1>1, <1>4, <3>1, <3>2, <2>0 DEF Typed, Table
  <2> QED BY <1>2, <1>4, <2>7, <2>8, <2>10, <2>11 DEF IInv
<1> QED BY <1>3, <1>4 DEF Commit

-----------------------------------------------------------------------------
(* The changes *)

(* A change of one row that keeps its item and either leaves its pointer   *)
(* and state as they are, or clears the pointer, or retires it.            *)
LEMMA OneRow ==
  ASSUME IInv, NoOverlap, NEW op, NEW p \in Live(points), NEW row \in Point,
         NEW claims \in SUBSET ({p} \X Texts),
         Save(op, [points EXCEPT ![p] = row], claims),
         row.item = points[p].item, row.text # None,
         row.into \in {points[p].into, None},
         row.into # None => row.state = "retired" /\ row.unconfirmed = points[p].unconfirmed,
         Vouches([points EXCEPT ![p] = row], claims, p)
  PROVE  IInv'
<1> DEFINE new == [points EXCEPT ![p] = row]
<1>1. /\ p \in Points /\ points[p].item # None /\ Table(points) /\ Sorted(points)
      /\ new[p] = row /\ \A q \in Points : q # p => new[q] = points[q]
  BY DEF IInv, Typed, Table, Live
<1>2. Table(new) BY <1>1 DEF Table
<1> HIDE DEF new
<1>3. \A q \in Points : new[q].item = points[q].item /\ new[q].into \in {points[q].into, None}
  BY <1>1
<1>4. Sorted(new) BY <1>1, <1>3 DEF Sorted, Table, Point
<1>5. claims \subseteq Points \X Texts BY <1>1
<1>6. \A q \in Points : Claimed(claims, q) => q = p BY DEF Claimed
<1>7. Change(points, new, claims) BY <1>1, <1>2, <1>3, <1>4, <1>5, <1>6 DEF Change, Table, Point
<1>8. \A q \in Points : new[q].item # None => new[q].item \in items BY <1>3 DEF IInv, Housed
<1>9. \A q \in Points : Vouches(new, claims, q)
  <2>1. ASSUME NEW q \in Points, q # p PROVE Vouches(new, claims, q)
    BY <2>1, <1>1, <1>6 DEF Vouches, IInv, Vouched
  <2> QED BY <2>1 DEF new
<1> QED BY <1>7, <1>8, <1>9, SaveInv DEF new

LEMMA ApproveInv == ASSUME IInv, NoOverlap, Approve PROVE IInv'
<1>1. PICK p \in Live(points) :
        Save("approve", [points EXCEPT ![p] = WithState(@, "approved")], {<<p, points[p].text>>})
  BY DEF Approve
<1> DEFINE row == WithState(points[p], "approved")
           claims == {<<p, points[p].text>>}
<1>2. p \in Points /\ points[p] \in Point /\ points[p].text \in Texts
  BY DEF IInv, Typed, Table, Live, Sorted, Point
<1>3. Save("approve", [points EXCEPT ![p] = row], claims) BY <1>1 DEF IInv, Typed, Table
<1>4. /\ row \in Point /\ row.item = points[p].item /\ row.text = points[p].text
      /\ row.into = None /\ row.state = "approved"
  BY <1>2 DEF WithState, Point
<1>5. [points EXCEPT ![p] = row][p] = row BY <1>2 DEF IInv, Typed, Table
<1>6. claims \in SUBSET ({p} \X Texts) BY <1>2
<1> HIDE DEF row
<1>7. Vouches([points EXCEPT ![p] = row], claims, p)
  BY <1>2, <1>4, <1>5 DEF Vouches, Claimed
<1> QED BY <1>2, <1>3, <1>4, <1>6, <1>7, OneRow, Nones

LEMMA RetireInv == ASSUME IInv, NoOverlap, Retire PROVE IInv'
<1>1. PICK p \in Live(points) : Save("retire", [points EXCEPT ![p] = WithState(@, "retired")], {})
  BY DEF Retire
<1> DEFINE row == WithState(points[p], "retired")
<1>2. p \in Points /\ points[p] \in Point /\ points[p].text \in Texts
  BY DEF IInv, Typed, Table, Live, Sorted, Point
<1>3. Save("retire", [points EXCEPT ![p] = row], {}) BY <1>1 DEF IInv, Typed, Table
<1>4. /\ row \in Point /\ row.item = points[p].item /\ row.text = points[p].text
      /\ row.into = points[p].into /\ row.state = "retired" /\ row.unconfirmed = points[p].unconfirmed
  BY <1>2 DEF WithState, Point
<1>5. [points EXCEPT ![p] = row][p] = row BY <1>2 DEF IInv, Typed, Table
<1> HIDE DEF row
<1>6. Vouches([points EXCEPT ![p] = row], {}, p) BY <1>4, <1>5 DEF Vouches
<1> QED BY <1>2, <1>3, <1>4, <1>6, OneRow, Nones

LEMMA RewordInv == ASSUME IInv, NoOverlap, Reword PROVE IInv'
<1>1. PICK p \in Live(points), t \in Texts, approving \in BOOLEAN :
        LET row == IF approving THEN WithState(points[p], "approved") ELSE points[p]
        IN  Save("reword", [points EXCEPT ![p] = [row EXCEPT !.text = t]], {<<p, t>>})
  BY DEF Reword
<1> DEFINE old == IF approving THEN WithState(points[p], "approved") ELSE points[p]
           row == [old EXCEPT !.text = t]
           claims == {<<p, t>>}
<1>2. p \in Points /\ points[p] \in Point BY DEF IInv, Typed, Table, Live
<1>3. Save("reword", [points EXCEPT ![p] = row], claims) BY <1>1
<1>4. old \in Point /\ old.item = points[p].item /\ old.into \in {points[p].into, None}
      /\ (old.into # None => old = points[p])
  BY <1>2 DEF WithState, Point
<1> HIDE DEF old
<1>5. /\ row \in Point /\ row.item = old.item /\ row.text = t
      /\ row.into = old.into /\ row.state = old.state /\ row.unconfirmed = old.unconfirmed
  BY <1>4 DEF Point
<1>6. [points EXCEPT ![p] = row][p] = row BY <1>2 DEF IInv, Typed, Table
<1>7. claims \in SUBSET ({p} \X Texts) OBVIOUS
<1> HIDE DEF row
<1>8. Vouches([points EXCEPT ![p] = row], claims, p) BY <1>5, <1>6 DEF Vouches, Claimed
<1>9. row.into # None => row.state = "retired" /\ row.unconfirmed = points[p].unconfirmed
  BY <1>2, <1>4, <1>5 DEF IInv, Sorted
<1> QED BY <1>2, <1>3, <1>4, <1>5, <1>7, <1>8, <1>9, OneRow, Nones

LEMMA AgentRewordsInv == ASSUME IInv, NoOverlap, AgentRewords PROVE IInv'
<1>1. PICK p \in Live(points), t \in Texts :
        Save("agent", [points EXCEPT ![p] = AgentReworded(@, t)], {})
  BY DEF AgentRewords
<1> DEFINE row == AgentReworded(points[p], t)
<1>2. p \in Points /\ points[p] \in Point BY DEF IInv, Typed, Table, Live
<1>3. Save("agent", [points EXCEPT ![p] = row], {}) BY <1>1 DEF IInv, Typed, Table
<1>4. /\ row \in Point /\ row.item = points[p].item /\ row.text = t
      /\ row.into = None /\ row.state = "draft"
  BY <1>2 DEF AgentReworded, WithState, Point
<1>5. [points EXCEPT ![p] = row][p] = row BY <1>2 DEF IInv, Typed, Table
<1> HIDE DEF row
<1>6. Vouches([points EXCEPT ![p] = row], {}, p) BY <1>4, <1>5 DEF Vouches
<1> QED BY <1>2, <1>3, <1>4, <1>6, OneRow, Nones

LEMMA UnmergeInv == ASSUME IInv, NoOverlap, Unmerge PROVE IInv'
<1>1. PICK p \in Live(points) : Save("unmerge", [points EXCEPT ![p].into = None], {})
  BY DEF Unmerge
<1> DEFINE row == [points[p] EXCEPT !.into = None]
<1>2. p \in Points /\ points[p] \in Point /\ points[p].text \in Texts
  BY DEF IInv, Typed, Table, Live, Sorted, Point
<1>3. Save("unmerge", [points EXCEPT ![p] = row], {}) BY <1>1 DEF IInv, Typed, Table
<1>4. /\ row \in Point /\ row.item = points[p].item /\ row.text = points[p].text
      /\ row.into = None /\ row.state = points[p].state
  BY <1>2 DEF Point
<1>5. [points EXCEPT ![p] = row][p] = row BY <1>2 DEF IInv, Typed, Table
<1> HIDE DEF row
<1>6. Vouches([points EXCEPT ![p] = row], {}, p)
  BY <1>2, <1>4, <1>5 DEF Vouches, Claimed, IInv, Vouched
<1> QED BY <1>2, <1>3, <1>4, <1>6, OneRow, Nones

(* The losers and their wordings all point to the keeper, which has no     *)
(* pointer and shares their item.                                          *)
LEMMA CombineInv == ASSUME IInv, NoOverlap, Combine PROVE IInv'
<1>1. PICK k \in Live(points), others \in SUBSET Live(points) :
        MayCombine(k, others) /\ Save("combine", Combined(points, k, others), {})
  BY DEF Combine
<1> DEFINE new == Combined(points, k, others)
<1>2. /\ Table(points) /\ Sorted(points) /\ k \in Points /\ points[k].item # None
      /\ others \subseteq Points /\ k \notin others /\ points[k].into = None
      /\ \A o \in others : /\ points[o].item = points[k].item /\ ~points[o].unconfirmed
      /\ None \notin others
  BY <1>1, Nones DEF IInv, Typed, Live, MayCombine
<1>3. \A p \in Points :
        /\ new[p] \in Point
        /\ new[p].item = points[p].item /\ new[p].text = points[p].text
        /\ new[p].unconfirmed = points[p].unconfirmed
        /\ new[p].state = IF p \in others THEN "retired" ELSE points[p].state
        /\ new[p].into = IF p \in others \/ points[p].into \in others THEN k ELSE points[p].into
        /\ p \notin others /\ points[p].into \notin others => new[p] = points[p]
  <2> TAKE p \in Points
  <2>1. new[p] = IF p \in others THEN [points[p] EXCEPT !.state = "retired", !.into = k]
                 ELSE IF points[p].into \in others THEN [points[p] EXCEPT !.into = k]
                 ELSE points[p]
    BY DEF Combined
  <2>2. points[p] \in Point /\ k \in Points BY <1>2 DEF Table
  <2> HIDE DEF new
  <2>3. CASE p \in others
    <3>1. new[p] = [points[p] EXCEPT !.state = "retired", !.into = k] BY <2>1, <2>3
    <3> QED BY <2>2, <2>3, <3>1 DEF Point
  <2>4. CASE p \notin others /\ points[p].into \in others
    <3>1. new[p] = [points[p] EXCEPT !.into = k] BY <2>1, <2>4
    <3> QED BY <2>2, <2>4, <3>1 DEF Point
  <2>5. CASE p \notin others /\ points[p].into \notin others
    BY <2>1, <2>2, <2>5
  <2> QED BY <2>3, <2>4, <2>5
<1>4. Table(new) BY <1>2, <1>3 DEF Combined, Table
<1>5. Save("combine", new, {}) BY <1>1
<1> HIDE DEF new
<1>6. Sorted(new)
  <2>1. \A p \in Points : points[p].item = None => p \notin others /\ points[p].into = None
    BY <1>2, Nones DEF Sorted, Live, NoPoint
  <2>2. \A p \in Points : new[p].item = None => new[p] = NoPoint
    BY <1>2, <1>3, <2>1 DEF Sorted
  <2>3. ASSUME NEW p \in Points, new[p].into # None
        PROVE  /\ new[p].item # None
               /\ new[p].state = "retired" /\ ~new[p].unconfirmed
               /\ new[new[p].into].item = new[p].item
               /\ new[new[p].into].into = None
    <3>1. CASE p \in others \/ points[p].into \in others
      <4>1. new[p].into = k /\ new[k].into = None /\ new[k].item = points[k].item
        BY <3>1, <1>2, <1>3
      <4> QED BY <3>1, <4>1, <1>2, <1>3, Nones DEF Sorted, Live
    <3>2. CASE p \notin others /\ points[p].into \notin others
      <4>1. points[p].into \in Points BY <3>2, <2>3, <1>2, <1>3 DEF Table, Point
      <4> QED BY <3>2, <4>1, <2>3, <1>2, <1>3, Nones DEF Sorted
    <3> QED BY <3>1, <3>2
  <2> QED BY <1>2, <1>3, <2>2, <2>3 DEF Sorted
<1>7. Change(points, new, {})
  <2>1. \A p \in Points : new[p].into # None => new[p].into \in Points BY <1>3 DEF Point
  <2> QED BY <1>3, <1>4, <1>6, <2>1 DEF Change, Claimed
<1>8. \A p \in Points : new[p].item # None => new[p].item \in items BY <1>3 DEF IInv, Housed
<1>9. \A p \in Points : Vouches(new, {}, p) BY <1>3 DEF Vouches, Claimed, IInv, Vouched
<1> QED BY <1>5, <1>7, <1>8, <1>9, SaveInv

LEMMA MoveInv == ASSUME IInv, NoOverlap, Move PROVE IInv'
<1>1. PICK p \in Live(points), i \in items :
        points[p].item # i /\ Save("move", MovedTo(points, p, i), {})
  BY DEF Move
<1> DEFINE new == MovedTo(points, p, i)
<1>2. /\ Table(points) /\ Sorted(points) /\ p \in Points /\ points[p].item # None
      /\ i \in Items /\ i # None
  BY Nones DEF IInv, Typed, Live
<1>3. \A q \in Points :
        /\ new[q] \in Point
        /\ new[q].item = IF q = p \/ points[q].into = p THEN i ELSE points[q].item
        /\ new[q].text = points[q].text /\ new[q].state = points[q].state
        /\ new[q].unconfirmed = points[q].unconfirmed
        /\ new[q].into = IF q = p THEN None ELSE points[q].into
        /\ q # p /\ points[q].into # p => new[q] = points[q]
  BY <1>2 DEF MovedTo, Table, Point
<1>4. Table(new) BY <1>2, <1>3 DEF MovedTo, Table
<1>5. Save("move", new, {}) BY <1>1
<1> HIDE DEF new
<1>6. \A q \in Points : points[q].item = None => q # p /\ points[q].into # p
  BY <1>2, Nones DEF Sorted, NoPoint
<1>7. ASSUME NEW q \in Points, new[q].into # None
      PROVE  /\ new[q].into = points[q].into /\ new[q].into \in Points /\ q # p
             /\ new[q].item # None
             /\ new[q].state = "retired" /\ ~new[q].unconfirmed
             /\ new[new[q].into].item = new[q].item
             /\ new[new[q].into].into = None
             /\ points[new[q].into].item = points[q].item
  <2>1. new[q].into = points[q].into /\ new[q].into \in Points /\ q # p
    BY <1>3, <1>7 DEF Point
  <2>2. points[points[q].into].into = None /\ points[points[q].into].item = points[q].item
        /\ points[q].state = "retired" /\ ~points[q].unconfirmed /\ points[q].item # None
    BY <1>2, <1>7, <2>1 DEF Sorted
  <2>3. points[points[q].into].into # p BY <2>2, <1>2, Nones
  <2> QED BY <1>2, <1>3, <2>1, <2>2, <2>3
<1>8. Sorted(new) BY <1>2, <1>3, <1>6, <1>7 DEF Sorted
<1>9. Change(points, new, {})
  BY <1>2, <1>3, <1>4, <1>6, <1>7, <1>8 DEF Change, Claimed
<1>10. \A q \in Points : new[q].item # None => new[q].item \in items BY <1>3 DEF IInv, Housed
<1>11. \A q \in Points : Vouches(new, {}, q) BY <1>3 DEF Vouches, Claimed, IInv, Vouched
<1> QED BY <1>5, <1>9, <1>10, <1>11, SaveInv

-----------------------------------------------------------------------------
(* What can come between a change and its commit *)

(* A new bullet takes an id that no running request means.                 *)
LEMMA AddInv ==
  ASSUME IInv, NEW p \in Fresh, NEW row \in Point,
         row.item \in items', row.text # None, row.into = None,
         points' = [points EXCEPT ![p] = row],
         items \subseteq items', items' \subseteq Items,
         vouched' \in [Points -> Texts \cup {None}],
         \A q \in Points : q # p => vouched'[q] = vouched[q],
         row.state = "approved" => vouched'[p] = row.text,
         UNCHANGED request
  PROVE  IInv'
<1>1. /\ p \in Points /\ points[p].item = None /\ Table(points) /\ Sorted(points)
      /\ row.item # None
  BY Nones DEF Fresh, Live, IInv, Typed
<1>2. points'[p] = row /\ \A q \in Points : q # p => points'[q] = points[q]
  BY <1>1 DEF Table
<1>3. Typed' BY <1>1 DEF Typed, Table
<1>4. ASSUME NEW q \in Points, points'[q].into # None
      PROVE  q # p /\ points[q].into # p /\ points[q].into \in Points
  <2>1. q # p BY <1>2, <1>4
  <2>2. points[q].into \in Points BY <1>1, <1>2, <1>4, <2>1 DEF Table, Point
  <2>3. points[points[q].into].item # None BY <1>1, <1>2, <1>4, <2>1 DEF Sorted
  <2> QED BY <1>1, <2>1, <2>2, <2>3
<1>5. Sorted(points)' BY <1>1, <1>2, <1>4 DEF Sorted
<1>6. Vouched' BY <1>2 DEF Vouched, IInv
<1>7. Housed' BY <1>1, <1>2 DEF Housed, IInv
<1>8. Requested'
  <2>1. SUFFICES ASSUME request # None
                 PROVE  Pending(request.seen, request.new, request.claims)'
    BY DEF IInv, Requested
  <2>2. Pending(request.seen, request.new, request.claims) BY <2>1 DEF IInv, Requested
  <2>3. request.seen[p].item = None BY <1>1, <2>1 DEF Fresh, Meant, Live
  <2>4. \A q \in Points : request.seen[q].item # None => q # p BY <2>3
  <2> QED BY <1>2, <2>2, <2>3, <2>4 DEF Pending, Vouches
<1> QED BY <1>3, <1>5, <1>6, <1>7, <1>8 DEF IInv

(* Bullets go, and the pointers to them; the items they leave may go too.  *)
LEMMA WithoutInv ==
  ASSUME IInv, NEW gone \in SUBSET Points, points' = Without(points, gone),
         vouched' = [p \in Points |-> IF p \in gone THEN None ELSE vouched[p]],
         items' \subseteq items,
         \A p \in Points : points[p].item # None /\ p \notin gone => points[p].item \in items',
         UNCHANGED request
  PROVE  IInv'
<1>1. Table(points) /\ Sorted(points) /\ None \notin gone BY Nones DEF IInv, Typed
<1>2. \A p \in gone : points'[p] = NoPoint BY DEF Without
<1>3. ASSUME NEW p \in Points, p \notin gone
      PROVE  /\ points'[p] \in Point
             /\ points'[p].item = points[p].item /\ points'[p].text = points[p].text
             /\ points'[p].state = points[p].state /\ points'[p].unconfirmed = points[p].unconfirmed
             /\ points'[p].into = IF points[p].into \in gone THEN None ELSE points[p].into
             /\ points[p].into = None => points'[p] = points[p]
  <2>1. points'[p] = [points[p] EXCEPT !.into = IF @ \in gone THEN None ELSE @]
    BY <1>3 DEF Without
  <2>2. points[p] \in Point BY <1>1 DEF Table
  <2> QED BY <1>1, <2>1, <2>2 DEF Point
<1>4. NoPoint \in Point BY DEF NoPoint, Point
<1>5. Typed'
  <2>1. points' \in [Points -> Point] BY <1>2, <1>3, <1>4 DEF Without
  <2>2. vouched' \in [Points -> Texts \cup {None}] BY DEF IInv, Typed
  <2> QED BY <2>1, <2>2 DEF IInv, Typed, Table
<1>6. NoPoint.item = None /\ NoPoint.into = None /\ NoPoint.state = "draft" BY DEF NoPoint
<1>7. ASSUME NEW p \in Points, points'[p].into # None
      PROVE  /\ p \notin gone /\ points'[p].into = points[p].into
             /\ points[p].into \in Points \ gone /\ points[p].into # None
  BY <1>1, <1>2, <1>3, <1>6, <1>7 DEF Table, Point
<1>8. Sorted(points)'
  <2>1. \A p \in Points : points'[p].item = None => points'[p] = NoPoint
    BY <1>1, <1>2, <1>3, <1>6 DEF Sorted
  <2>2. \A p \in Points : points'[p].item # None => points'[p].text # None
    BY <1>1, <1>2, <1>3, <1>6 DEF Sorted
  <2>3. ASSUME NEW p \in Points, points'[p].into # None
        PROVE  /\ points'[p].item # None
               /\ points'[p].state = "retired" /\ ~points'[p].unconfirmed
               /\ points'[points'[p].into].item = points'[p].item
               /\ points'[points'[p].into].into = None
    BY <1>1, <1>3, <1>7, <2>3 DEF Sorted
  <2> QED BY <2>1, <2>2, <2>3 DEF Sorted
<1>9. Vouched' BY <1>2, <1>3, <1>6 DEF Vouched, IInv
<1>10. Housed' BY <1>2, <1>3, <1>6 DEF Housed
<1>11. Requested'
  <2>1. SUFFICES ASSUME request # None
                 PROVE  Pending(request.seen, request.new, request.claims)'
    BY DEF IInv, Requested
  <2>2. Pending(request.seen, request.new, request.claims) BY <2>1 DEF IInv, Requested
  <2>3. \A p \in Points : points'[p].item # None =>
          /\ p \notin gone /\ points[p].item # None /\ vouched'[p] = vouched[p]
          /\ points'[p].into \in {points[p].into, None}
    BY <1>2, <1>3, <1>6
  <2>4. \A p \in Points : points[p].into = None => points'[p].into = None
    BY <1>2, <1>3, <1>6
  <2> QED BY <1>3, <2>2, <2>3, <2>4 DEF Pending, Vouches
<1> QED BY <1>5, <1>8, <1>9, <1>10, <1>11 DEF IInv

LEMMA MergeItemsInv == ASSUME IInv, MergeItems PROVE IInv'
<1>1. PICK source \in items, target \in items :
        /\ source # target
        /\ items' = items \ {source}
        /\ points' = [p \in Points |-> IF points[p].item = source
                                       THEN [points[p] EXCEPT !.item = target] ELSE points[p]]
        /\ UNCHANGED <<vouched, request>>
  BY DEF MergeItems
<1>2. /\ Table(points) /\ Sorted(points) /\ source # None /\ target # None
      /\ target \in Items
  BY Nones DEF IInv, Typed
<1>3. ASSUME NEW p \in Points
      PROVE  /\ points'[p] \in Point
             /\ points'[p].item = IF points[p].item = source THEN target ELSE points[p].item
             /\ points'[p].text = points[p].text /\ points'[p].state = points[p].state
             /\ points'[p].unconfirmed = points[p].unconfirmed /\ points'[p].into = points[p].into
             /\ points[p].item = None => points'[p] = points[p]
  <2>1. points[p] \in Point BY <1>2 DEF Table
  <2>2. points'[p] = IF points[p].item = source THEN [points[p] EXCEPT !.item = target] ELSE points[p]
    BY <1>1
  <2>3. CASE points[p].item = source
    <3>1. points'[p] = [points[p] EXCEPT !.item = target] BY <2>2, <2>3
    <3> QED BY <1>2, <2>1, <2>3, <3>1 DEF Point
  <2>4. CASE points[p].item # source BY <2>1, <2>2, <2>4
  <2> QED BY <2>3, <2>4
<1>4. Typed'
  <2>1. points' \in [Points -> Point] BY <1>1, <1>3
  <2> QED BY <1>1, <2>1 DEF IInv, Typed, Table
<1>5. Sorted(points)'
  <2>1. \A p \in Points : points'[p].item = None => points'[p] = NoPoint
    BY <1>2, <1>3 DEF Sorted
  <2>2. ASSUME NEW p \in Points, points'[p].into # None
        PROVE  /\ points'[p].item # None
               /\ points'[p].state = "retired" /\ ~points'[p].unconfirmed
               /\ points'[points'[p].into].item = points'[p].item
               /\ points'[points'[p].into].into = None
    <3>1. points[p].into \in Points /\ points[p].into # None BY <1>2, <1>3, <2>2 DEF Table, Point
    <3> QED BY <1>2, <1>3, <2>2, <3>1 DEF Sorted
  <2>3. \A p \in Points : points'[p].item # None => points'[p].text # None
    BY <1>2, <1>3 DEF Sorted
  <2> QED BY <2>1, <2>2, <2>3 DEF Sorted
<1>6. Vouched' BY <1>1, <1>3 DEF Vouched, IInv
<1>7. Housed' BY <1>1, <1>3 DEF Housed, IInv
<1>8. Requested'
  <2>1. SUFFICES ASSUME request # None
                 PROVE  Pending(request.seen, request.new, request.claims)'
    BY <1>1 DEF IInv, Requested
  <2>2. Pending(request.seen, request.new, request.claims) BY <2>1 DEF IInv, Requested
  <2>3. \A p \in Points : points'[p].item # None => points[p].item # None BY <1>2, <1>3
  <2>4. \A p \in Points : Vouches(request.new, request.claims, p)
                            <=> Vouches(request.new, request.claims, p)'
    BY <1>1 DEF Vouches
  <2> QED BY <1>1, <1>3, <2>2, <2>3, <2>4 DEF Pending
<1> QED BY <1>4, <1>5, <1>6, <1>7, <1>8 DEF IInv

-----------------------------------------------------------------------------
LEMMA DeletePointInv == ASSUME IInv, DeletePoint PROVE IInv'
<1>1. PICK p \in Live(points) :
        /\ points' = Without(points, {p})
        /\ vouched' = [vouched EXCEPT ![p] = None]
        /\ UNCHANGED <<items, request>>
  BY DEF DeletePoint
<1>2. vouched' = [q \in Points |-> IF q \in {p} THEN None ELSE vouched[q]]
  BY <1>1 DEF IInv, Typed
<1> QED BY <1>1, <1>2, WithoutInv DEF Live, IInv, Housed

LEMMA DeleteItemInv == ASSUME IInv, DeleteItem PROVE IInv'
<1>1. PICK i \in items :
        /\ items' = items \ {i}
        /\ points' = Without(points, Of(points, i))
        /\ vouched' = [p \in Points |-> IF p \in Of(points, i) THEN None ELSE vouched[p]]
        /\ UNCHANGED request
  BY DEF DeleteItem
<1>2. \A p \in Points : points[p].item # None /\ p \notin Of(points, i) => points[p].item \in items'
  BY <1>1 DEF Of, IInv, Housed
<1> QED BY <1>1, <1>2, WithoutInv DEF Of

(* Nothing happens to the bullets.                                         *)
LEMMA StayInv ==
  ASSUME IInv, items \subseteq items', items' \subseteq Items, UNCHANGED <<points, vouched, request>>
  PROVE  IInv'
<1>1. Requested'
  <2>1. SUFFICES ASSUME request # None
                 PROVE  Pending(request.seen, request.new, request.claims)'
    BY DEF IInv, Requested
  <2> QED BY <2>1 DEF IInv, Requested, Pending, Vouches
<1> QED BY <1>1 DEF IInv, Typed, Sorted, Vouched, Housed

(* A bullet that an intake, or a split, adds.                              *)
LEMMA NewBullet ==
  ASSUME IInv, NEW p \in Fresh, NEW i \in Items, NEW t \in Texts, NEW s \in {"draft", "approved"},
         points' = [points EXCEPT ![p] = [NoPoint EXCEPT !.item = i, !.text = t, !.state = s]],
         items' \in SUBSET Items, items \subseteq items', i \in items',
         IF s = "approved" THEN vouched' = [vouched EXCEPT ![p] = t] ELSE UNCHANGED vouched,
         UNCHANGED request
  PROVE  IInv'
<1> DEFINE row == [NoPoint EXCEPT !.item = i, !.text = t, !.state = s]
<1>1. row \in Point /\ row.item = i /\ row.text = t /\ row.state = s /\ row.into = None
  BY DEF NoPoint, Point
<1>2. p \in Points /\ vouched \in [Points -> Texts \cup {None}] BY DEF Fresh, IInv, Typed
<1>3. vouched' \in [Points -> Texts \cup {None}] /\ \A q \in Points : q # p => vouched'[q] = vouched[q]
  BY <1>2
<1>4. row.state = "approved" => vouched'[p] = row.text BY <1>1, <1>2
<1>5. row.text # None /\ row.item \in items' BY <1>1, Nones
<1>6. points' = [points EXCEPT ![p] = row] OBVIOUS
<1> HIDE DEF row
<1> QED BY <1>1, <1>3, <1>4, <1>5, <1>6, AddInv

LEMMA IntakeInv == ASSUME IInv, Intake PROVE IInv'
<1> items \subseteq Items BY DEF IInv, Typed
<1>1. CASE CreatePoint
  <2>1. PICK i \in items, t \in Texts, p \in Fresh :
          Add(p, i, t, "approved") /\ vouched' = [vouched EXCEPT ![p] = t] /\ UNCHANGED <<items, request>>
    BY <1>1 DEF CreatePoint
  <2> QED BY <2>1, NewBullet DEF Add
<1>2. CASE Mint \/ AddDraft \/ WriteBack
  <2>1. PICK i \in items, t \in Texts, p \in Fresh :
          Add(p, i, t, "draft") /\ UNCHANGED <<items, vouched, request>>
    BY <1>2 DEF Mint, AddDraft, WriteBack
  <2> QED BY <2>1, NewBullet DEF Add
<1>3. CASE Capture \/ IngestDocument
  <2>1. PICK i \in items \cup FreshItems, t \in Texts, p \in Fresh :
          items' = items \cup {i} /\ Add(p, i, t, "draft") /\ UNCHANGED <<vouched, request>>
    BY <1>3 DEF Capture, IngestDocument
  <2>2. i \in Items BY DEF FreshItems
  <2> QED BY <2>1, <2>2, NewBullet DEF Add
<1>4. CASE CannotConfirm
  <2>1. PICK i \in items, t \in Texts, p \in Fresh :
          /\ points' = [points EXCEPT ![p] = [item |-> i, text |-> t, state |-> "retired",
                                              into |-> None, unconfirmed |-> TRUE]]
          /\ UNCHANGED <<items, vouched, request>>
    BY <1>4 DEF CannotConfirm
  <2> DEFINE row == [item |-> i, text |-> t, state |-> "retired", into |-> None, unconfirmed |-> TRUE]
  <2>2. row \in Point /\ row.item \in items' /\ row.text # None /\ row.into = None
        /\ row.state # "approved"
    BY <2>1, Nones DEF Point
  <2>3. points' = [points EXCEPT ![p] = row] BY <2>1
  <2>4. vouched' \in [Points -> Texts \cup {None}] BY <2>1 DEF IInv, Typed
  <2> HIDE DEF row
  <2> QED BY <2>1, <2>2, <2>3, <2>4, AddInv
<1>5. CASE Import
  <2>1. PICK i \in items, t \in Texts :
          /\ \/ UNCHANGED <<points, vouched>>
             \/ \E p \in Fresh : Add(p, i, t, "approved") /\ vouched' = [vouched EXCEPT ![p] = t]
             \/ \E p \in Fresh, merged \in Texts : Add(p, i, merged, "draft") /\ UNCHANGED vouched
          /\ UNCHANGED <<items, request>>
    BY <1>5 DEF Import
  <2>2. CASE UNCHANGED <<points, vouched>> BY <2>1, <2>2, StayInv
  <2>3. CASE \E p \in Fresh : Add(p, i, t, "approved") /\ vouched' = [vouched EXCEPT ![p] = t]
    BY <2>1, <2>3, NewBullet DEF Add
  <2>4. CASE \E p \in Fresh, merged \in Texts : Add(p, i, merged, "draft") /\ UNCHANGED vouched
    BY <2>1, <2>4, NewBullet DEF Add
  <2> QED BY <2>1, <2>2, <2>3, <2>4
<1>6. CASE IngestParsed \/ BaseSync
  <2>1. PICK i \in items, t \in Texts :
          /\ UNCHANGED points \/ \E p \in Fresh : Add(p, i, t, "draft")
          /\ UNCHANGED <<items, vouched, request>>
    BY <1>6 DEF IngestParsed, BaseSync
  <2>2. CASE UNCHANGED points BY <2>1, <2>2, StayInv
  <2>3. CASE \E p \in Fresh : Add(p, i, t, "draft") BY <2>1, <2>3, NewBullet DEF Add
  <2> QED BY <2>1, <2>2, <2>3
<1> QED BY <1>1, <1>2, <1>3, <1>4, <1>5, <1>6 DEF Intake

LEMMA SplitInv == ASSUME IInv, Split PROVE IInv'
<1>1. PICK p \in Live(points), q \in Fresh, t \in Texts :
        /\ points' = [points EXCEPT ![q] = [NoPoint EXCEPT !.item = points[p].item, !.text = t,
                                                           !.state = "approved"]]
        /\ vouched' = [vouched EXCEPT ![q] = t]
        /\ UNCHANGED <<items, request>>
  BY DEF Split
<1>2. points[p].item \in items /\ items \subseteq Items BY DEF Live, IInv, Housed, Typed
<1> QED BY <1>1, <1>2, NewBullet

LEMMA StepInv == ASSUME NoOverlap, IInv, [Next]_vars PROVE IInv'
<1> items \subseteq Items BY DEF IInv, Typed
<1>1. CASE Intake BY <1>1, IntakeInv
<1>2. CASE Edit
  BY <1>2, ApproveInv, RetireInv, RewordInv, AgentRewordsInv, UnmergeInv, CombineInv, MoveInv,
     SplitInv DEF Edit
<1>3. CASE Commit BY <1>3, CommitInv
<1>4. CASE Port BY <1>4, StayInv DEF Port
<1>5. CASE DeletePoint BY <1>5, DeletePointInv
<1>6. CASE CreateItem
  <2>1. items' \subseteq Items /\ items \subseteq items' /\ UNCHANGED <<points, vouched, request>>
    BY <1>6 DEF CreateItem, FreshItems
  <2> QED BY <2>1, StayInv
<1>7. CASE DeleteItem BY <1>7, DeleteItemInv
<1>8. CASE MergeItems BY <1>8, MergeItemsInv
<1>9. CASE UNCHANGED vars BY <1>9, StayInv DEF vars
<1> QED BY <1>1, <1>2, <1>3, <1>4, <1>5, <1>6, <1>7, <1>8, <1>9 DEF Next

-----------------------------------------------------------------------------
(* The theorems *)

LEMMA Invariance == NoOverlap => (Spec => []IInv)
<1> SUFFICES ASSUME NoOverlap PROVE Spec => []IInv OBVIOUS
<1>1. Init => IInv BY InitInv
<1>2. IInv /\ [Next]_vars => IInv' BY StepInv
<1> QED BY <1>1, <1>2, PTL DEF Spec

(* If two changes of bullets do not overlap, every wording is one step     *)
(* from its claim, on the claim's item, whatever intakes, deletions and    *)
(* merges of items come between a change and its commit (kb_claims.py).    *)
THEOREM OneLevel == NoOverlap => (Spec => []WordingsAreOneLevel)
<1> SUFFICES ASSUME NoOverlap PROVE Spec => []WordingsAreOneLevel OBVIOUS
<1>1. IInv => WordingsAreOneLevel BY DEF IInv, Sorted, Live, WordingsAreOneLevel
<1>2. Spec => []IInv BY Invariance
<1> QED BY <1>1, <1>2, PTL

(* If two changes of bullets do not overlap, nothing but the user's own    *)
(* word makes or keeps a bullet approved (kb_edit_point, the intakes).     *)
THEOREM NothingApprovesForTheUser == NoOverlap => (Spec => []ApprovedIsVouched)
<1> SUFFICES ASSUME NoOverlap PROVE Spec => []ApprovedIsVouched OBVIOUS
<1>1. IInv => ApprovedIsVouched BY DEF IInv, Vouched, Live, ApprovedIsVouched
<1>2. Spec => []IInv BY Invariance
<1> QED BY <1>1, <1>2, PTL

-----------------------------------------------------------------------------
(* Type correctness, whatever overlaps *)

(* A bullet has an item and a text, or neither, and no pointer then.       *)
Worded(rows) ==
  /\ \A p \in Points : rows[p].item = None <=> rows[p].text = None
  /\ \A p \in Points : rows[p].item = None => rows[p].into = None

(* What is loaded and what is made of it are tables of the same bullets.   *)
Loaded == request # None =>
  /\ Worded(request.seen) /\ Worded(request.new)
  /\ \A p \in Points : request.new[p].item = None <=> request.seen[p].item = None

Shaped == TypeOK /\ Worded(points) /\ Loaded

LEMMA InitShaped == Init => Shaped
<1> SUFFICES ASSUME Init PROVE Shaped OBVIOUS
<1>1. NoPoint \in Point BY DEF NoPoint, Point
<1> QED BY <1>1 DEF Init, Shaped, TypeOK, Worded, Loaded, NoPoint

(* A change of a table into one of the same bullets.                       *)
LEMMA SaveShaped ==
  ASSUME Shaped, NEW op, NEW new \in [Points -> Point], NEW claims \in SUBSET (Points \X Texts),
         Save(op, new, claims), Worded(new),
         \A p \in Points : new[p].item = None <=> points[p].item = None
  PROVE  Shaped'
<1>1. CASE points' = new /\ vouched' = Vouch(claims) /\ UNCHANGED <<items, notes, request>>
  <2>1. vouched' \in [Points -> Texts \cup {None}] BY <1>1 DEF Vouch, Shaped, TypeOK
  <2> QED BY <1>1, <2>1 DEF Shaped, TypeOK, Worded, Loaded
<1>2. CASE request' = [seen |-> points, new |-> new, claims |-> claims]
           /\ UNCHANGED <<items, points, notes, vouched>>
  <2>1. request'.seen = points /\ request'.new = new BY <1>2
  <2>2. Loaded' BY <1>2, <2>1 DEF Loaded, Worded, Shaped
  <2> QED BY <1>2, <2>2 DEF Shaped, TypeOK, Worded
<1> QED BY <1>1, <1>2 DEF Save

(* A change of one row that keeps its item.                                *)
LEMMA RowShaped ==
  ASSUME Shaped, NEW op, NEW p \in Live(points), NEW row \in Point,
         NEW claims \in SUBSET (Points \X Texts),
         Save(op, [points EXCEPT ![p] = row], claims),
         row.item = points[p].item, row.text # None
  PROVE  Shaped'
<1> DEFINE new == [points EXCEPT ![p] = row]
<1>1. p \in Points /\ points \in [Points -> Point] /\ Worded(points) /\ points[p].item # None
  BY DEF Shaped, TypeOK, Live
<1>2. new \in [Points -> Point] /\ new[p] = row /\ \A q \in Points : q # p => new[q] = points[q]
  BY <1>1
<1> HIDE DEF new
<1>3. Worded(new) /\ \A q \in Points : new[q].item = None <=> points[q].item = None
  BY <1>1, <1>2 DEF Worded
<1>4. Save(op, new, claims) BY DEF new
<1> QED BY <1>2, <1>3, <1>4, SaveShaped

LEMMA StateOfRow ==
  ASSUME NEW row \in Point, NEW s \in {"draft", "approved", "retired"}
  PROVE  /\ WithState(row, s) \in Point
         /\ WithState(row, s).item = row.item /\ WithState(row, s).text = row.text
BY DEF WithState, Point

LEMMA RowEditsShaped ==
  ASSUME Shaped, Approve \/ Retire \/ Reword \/ AgentRewords \/ Unmerge
  PROVE  Shaped'
<1>1. points \in [Points -> Point] BY DEF Shaped, TypeOK
<1>2. ASSUME NEW p \in Live(points)
      PROVE  p \in Points /\ points[p] \in Point /\ points[p].text \in Texts
  BY <1>1, <1>2 DEF Live, Shaped, Worded, Point
<1>3. CASE Approve
  <2>1. PICK p \in Live(points) :
          Save("approve", [points EXCEPT ![p] = WithState(@, "approved")], {<<p, points[p].text>>})
    BY <1>3 DEF Approve
  <2> DEFINE row == WithState(points[p], "approved")
             claims == {<<p, points[p].text>>}
  <2>2. claims \in SUBSET (Points \X Texts) BY <1>2
  <2>3. row \in Point /\ row.item = points[p].item /\ row.text # None BY <1>2, StateOfRow, Nones
  <2>4. Save("approve", [points EXCEPT ![p] = row], claims) BY <1>1, <1>2, <2>1
  <2> HIDE DEF row, claims
  <2> QED BY <2>2, <2>3, <2>4, RowShaped
<1>4. CASE Retire
  <2>1. PICK p \in Live(points) : Save("retire", [points EXCEPT ![p] = WithState(@, "retired")], {})
    BY <1>4 DEF Retire
  <2> DEFINE row == WithState(points[p], "retired")
  <2>2. row \in Point /\ row.item = points[p].item /\ row.text # None BY <1>2, StateOfRow, Nones
  <2>3. Save("retire", [points EXCEPT ![p] = row], {}) BY <1>1, <1>2, <2>1
  <2> HIDE DEF row
  <2> QED BY <2>2, <2>3, RowShaped
<1>5. CASE Reword
  <2>1. PICK p \in Live(points), t \in Texts, approving \in BOOLEAN :
          LET row == IF approving THEN WithState(points[p], "approved") ELSE points[p]
          IN  Save("reword", [points EXCEPT ![p] = [row EXCEPT !.text = t]], {<<p, t>>})
    BY <1>5 DEF Reword
  <2> DEFINE old == IF approving THEN WithState(points[p], "approved") ELSE points[p]
             row == [old EXCEPT !.text = t]
             claims == {<<p, t>>}
  <2>2. claims \in SUBSET (Points \X Texts) BY <1>2
  <2>3. old \in Point /\ old.item = points[p].item BY <1>2, StateOfRow
  <2>4. Save("reword", [points EXCEPT ![p] = row], claims) BY <2>1
  <2>5. row \in Point /\ row.item = points[p].item /\ row.text # None
    <3> HIDE DEF old
    <3> QED BY <2>3, Nones DEF Point
  <2> HIDE DEF row, claims
  <2> QED BY <2>2, <2>4, <2>5, RowShaped
<1>6. CASE AgentRewords
  <2>1. PICK p \in Live(points), t \in Texts :
          Save("agent", [points EXCEPT ![p] = AgentReworded(@, t)], {})
    BY <1>6 DEF AgentRewords
  <2> DEFINE old == WithState(points[p], "draft")
             row == AgentReworded(points[p], t)
  <2>2. old \in Point /\ old.item = points[p].item BY <1>2, StateOfRow
  <2>3. Save("agent", [points EXCEPT ![p] = row], {}) BY <1>1, <1>2, <2>1
  <2>4. row = [old EXCEPT !.text = t] BY DEF AgentReworded
  <2> HIDE DEF row, old
  <2>5. row \in Point /\ row.item = points[p].item /\ row.text # None
    BY <2>2, <2>4, Nones DEF Point
  <2> QED BY <2>3, <2>5, RowShaped
<1>7. CASE Unmerge
  <2>1. PICK p \in Live(points) : Save("unmerge", [points EXCEPT ![p].into = None], {})
    BY <1>7 DEF Unmerge
  <2> DEFINE row == [points[p] EXCEPT !.into = None]
  <2>2. row \in Point /\ row.item = points[p].item /\ row.text # None BY <1>2, Nones DEF Point
  <2>3. Save("unmerge", [points EXCEPT ![p] = row], {}) BY <1>1, <1>2, <2>1
  <2> HIDE DEF row
  <2> QED BY <2>2, <2>3, RowShaped
<1> QED BY <1>3, <1>4, <1>5, <1>6, <1>7

LEMMA TableEditsShaped ==
  ASSUME Shaped, Combine \/ Move
  PROVE  Shaped'
<1>1. points \in [Points -> Point] /\ items \subseteq Items /\ Worded(points)
  BY DEF Shaped, TypeOK
<1>2. CASE Combine
  <2>1. PICK k \in Live(points), others \in SUBSET Live(points) :
          Save("combine", Combined(points, k, others), {})
    BY <1>2 DEF Combine
  <2> DEFINE new == Combined(points, k, others)
  <2>2. k \in Points BY DEF Live
  <2>3. \A p \in Points : /\ new[p] \in Point
                          /\ new[p].item = points[p].item /\ new[p].text = points[p].text
    BY <1>1, <2>2 DEF Combined, Point
  <2>4. new \in [Points -> Point] BY <2>3 DEF Combined
  <2> HIDE DEF new
  <2>5. \A p \in Points : points[p].item = None => new[p].into = None
    BY <1>1, <2>2, Nones DEF Combined, Worded, Live, new
  <2>6. Worded(new) BY <1>1, <2>3, <2>5 DEF Worded
  <2>7. Save("combine", new, {}) BY <2>1 DEF new
  <2> QED BY <2>3, <2>4, <2>6, <2>7, SaveShaped
<1>3. CASE Move
  <2>1. PICK p \in Live(points), i \in items : Save("move", MovedTo(points, p, i), {})
    BY <1>3 DEF Move
  <2> DEFINE new == MovedTo(points, p, i)
  <2>2. p \in Points /\ points[p].item # None /\ i \in Items /\ i # None BY <1>1, Nones DEF Live
  <2>3. \A q \in Points : /\ new[q] \in Point /\ new[q].text = points[q].text
                          /\ new[q].into \in {points[q].into, None}
                          /\ \/ new[q].item = points[q].item
                             \/ new[q].item = i /\ (q = p \/ points[q].into = p)
    BY <1>1, <2>2 DEF MovedTo, Point
  <2>4. new \in [Points -> Point] BY <2>3 DEF MovedTo
  <2> HIDE DEF new
  <2>5. \A q \in Points : new[q].item = None <=> points[q].item = None
    BY <1>1, <2>2, <2>3, Nones DEF Worded
  <2>6. Worded(new) BY <1>1, <2>3, <2>5 DEF Worded
  <2>7. Save("move", new, {}) BY <2>1 DEF new
  <2> QED BY <2>4, <2>5, <2>6, <2>7, SaveShaped
<1> QED BY <1>2, <1>3

(* A commit writes column by column, so a row may come of two changes.     *)
LEMMA CommitShaped == ASSUME Shaped, Commit PROVE Shaped'
<1> DEFINE seen == request.seen
           new == request.new
           claims == request.claims
           rows == Written(points, seen, new)
<1>1. /\ request # None /\ request' = None /\ UNCHANGED <<items, notes>>
      /\ points \in [Points -> Point] /\ seen \in [Points -> Point] /\ new \in [Points -> Point]
      /\ Worded(points) /\ Worded(seen) /\ Worded(new)
      /\ \A p \in Points : new[p].item = None <=> seen[p].item = None
  BY DEF Commit, Shaped, TypeOK, Loaded
<1>2. CASE UNCHANGED <<points, vouched>>
  BY <1>1, <1>2 DEF Shaped, TypeOK, Worded, Loaded
<1>3. CASE points' = rows /\ vouched' = Vouch(claims) /\ Touched(seen, new) \subseteq Live(points)
  <2> HIDE DEF rows, seen, new, claims
  <2>1. \A p \in Points :
          /\ rows[p] \in Point
          /\ rows[p].item = IF new[p].item # seen[p].item THEN new[p].item ELSE points[p].item
          /\ rows[p].text = IF new[p].text # seen[p].text THEN new[p].text ELSE points[p].text
          /\ new[p] = seen[p] => rows[p] = points[p]
    BY <1>1, Merging DEF rows, Table
  <2>2. rows \in [Points -> Point] BY <2>1 DEF rows, Written
  <2>3. ASSUME NEW p \in Points
        PROVE  /\ rows[p].item = None <=> rows[p].text = None
               /\ rows[p].item = None => rows[p].into = None
    <3>1. CASE new[p] = seen[p] BY <1>1, <2>1, <3>1 DEF Worded
    <3>2. CASE new[p] # seen[p]
      <4>1. points[p].item # None BY <1>3, <3>2 DEF Touched, Live
      <4>2. rows[p].item # None /\ rows[p].text # None BY <1>1, <2>1, <4>1 DEF Worded
      <4> QED BY <4>2
    <3> QED BY <3>1, <3>2
  <2>4. Worded(rows) BY <2>3 DEF Worded
  <2>5. vouched' \in [Points -> Texts \cup {None}] BY <1>3 DEF Vouch, Shaped, TypeOK
  <2> QED BY <1>1, <1>3, <2>2, <2>4, <2>5 DEF Shaped, TypeOK, Worded, Loaded
<1> QED BY <1>2, <1>3 DEF Commit

LEMMA RemovalsShaped ==
  ASSUME Shaped, DeletePoint \/ DeleteItem \/ MergeItems
  PROVE  Shaped'
<1>1. /\ points \in [Points -> Point] /\ items \subseteq Items /\ Worded(points) /\ Loaded
      /\ notes \subseteq Note /\ vouched \in [Points -> Texts \cup {None}]
      /\ request = None \/ request \in [seen : [Points -> Point], new : [Points -> Point],
                                        claims : SUBSET (Points \X Texts)]
  BY DEF Shaped, TypeOK
<1>2. ASSUME NEW gone \in SUBSET Points, points' = Without(points, gone)
      PROVE  points' \in [Points -> Point] /\ Worded(points)'
  <2>1. NoPoint \in Point BY DEF NoPoint, Point
  <2>2. \A p \in Points : IF p \in gone THEN points'[p] = NoPoint
                          ELSE /\ points'[p] \in Point /\ points'[p].item = points[p].item
                               /\ points'[p].text = points[p].text
                               /\ points'[p].into \in {points[p].into, None}
    BY <1>1, <1>2 DEF Without, Point
  <2>3. points' \in [Points -> Point] BY <1>2, <2>1, <2>2 DEF Without
  <2>4. Worded(points)' BY <1>1, <2>2 DEF Worded, NoPoint
  <2> QED BY <2>3, <2>4
<1>3. CASE DeletePoint
  <2>1. PICK p \in Live(points) :
          /\ points' = Without(points, {p}) /\ notes' \subseteq notes
          /\ vouched' = [vouched EXCEPT ![p] = None] /\ UNCHANGED <<items, request>>
    BY <1>3 DEF DeletePoint
  <2>2. points' \in [Points -> Point] /\ Worded(points)' BY <1>2, <2>1 DEF Live
  <2>3. vouched' \in [Points -> Texts \cup {None}] BY <1>1, <2>1
  <2> QED BY <1>1, <2>1, <2>2, <2>3 DEF Shaped, TypeOK, Loaded, Worded
<1>4. CASE DeleteItem
  <2>1. PICK i \in items :
          /\ items' = items \ {i} /\ points' = Without(points, Of(points, i))
          /\ notes' \subseteq notes /\ UNCHANGED request
          /\ vouched' = [p \in Points |-> IF p \in Of(points, i) THEN None ELSE vouched[p]]
    BY <1>4 DEF DeleteItem
  <2>2. points' \in [Points -> Point] /\ Worded(points)' BY <1>2, <2>1 DEF Of
  <2>3. vouched' \in [Points -> Texts \cup {None}] BY <1>1, <2>1
  <2> QED BY <1>1, <2>1, <2>2, <2>3 DEF Shaped, TypeOK, Loaded, Worded
<1>5. CASE MergeItems
  <2>1. PICK source \in items, target \in items :
          /\ items' = items \ {source} /\ UNCHANGED <<vouched, request>>
          /\ points' = [p \in Points |-> IF points[p].item = source
                                         THEN [points[p] EXCEPT !.item = target] ELSE points[p]]
          /\ notes' = {IF n.item = source THEN [n EXCEPT !.item = target] ELSE n : n \in notes}
    BY <1>5 DEF MergeItems
  <2>2. source \in Items /\ target \in Items BY <1>1
  <2>3. \A p \in Points : /\ points'[p] \in Point /\ points'[p].text = points[p].text
                          /\ points'[p].into = points[p].into
                          /\ points'[p].item = None <=> points[p].item = None
    BY <1>1, <2>1, <2>2, Nones DEF Point
  <2>4. points' \in [Points -> Point] BY <2>1, <2>3
  <2>5. Worded(points)' BY <1>1, <2>3 DEF Worded
  <2>6. \A n \in Note : [n EXCEPT !.item = target] \in Note BY <2>2 DEF Note
  <2>7. notes' \subseteq Note BY <1>1, <2>1, <2>6
  <2> QED BY <1>1, <2>1, <2>4, <2>5, <2>7 DEF Shaped, TypeOK, Loaded, Worded
<1> QED BY <1>3, <1>4, <1>5

(* A new bullet, with an item, a text and no pointer.                      *)
LEMMA NewShaped ==
  ASSUME Shaped, NEW p \in Fresh, NEW row \in Point, points' = [points EXCEPT ![p] = row],
         row.item # None, row.text # None, items' \subseteq Items, notes' \subseteq Note,
         \/ UNCHANGED vouched
         \/ \E t \in Texts : vouched' = [vouched EXCEPT ![p] = t],
         UNCHANGED request
  PROVE  Shaped'
<1>1. /\ p \in Points /\ points \in [Points -> Point] /\ Worded(points) /\ Loaded
      /\ vouched \in [Points -> Texts \cup {None}]
      /\ request = None \/ request \in [seen : [Points -> Point], new : [Points -> Point],
                                        claims : SUBSET (Points \X Texts)]
  BY DEF Fresh, Shaped, TypeOK
<1>2. points' \in [Points -> Point] /\ points'[p] = row
      /\ \A q \in Points : q # p => points'[q] = points[q]
  BY <1>1
<1>3. Worded(points)' BY <1>1, <1>2 DEF Worded
<1>4. vouched' \in [Points -> Texts \cup {None}] BY <1>1
<1>5. Loaded' BY <1>1 DEF Loaded, Worded
<1> QED BY <1>1, <1>2, <1>3, <1>4, <1>5 DEF Shaped, TypeOK

LEMMA AddShaped ==
  ASSUME Shaped, NEW p \in Fresh, NEW i \in Items, NEW t \in Texts, NEW s \in {"draft", "approved"},
         Add(p, i, t, s), items' \subseteq Items, notes' \subseteq Note,
         \/ UNCHANGED vouched
         \/ \E w \in Texts : vouched' = [vouched EXCEPT ![p] = w],
         UNCHANGED request
  PROVE  Shaped'
<1> DEFINE row == [NoPoint EXCEPT !.item = i, !.text = t, !.state = s]
<1>1. row \in Point /\ row.item # None /\ row.text # None BY Nones DEF NoPoint, Point
<1>2. points' = [points EXCEPT ![p] = row] BY DEF Add
<1> HIDE DEF row
<1> QED BY <1>1, <1>2, NewShaped

(* The rows stay, and the notes and items are still of their kind.         *)
LEMMA StayShaped ==
  ASSUME Shaped, items' \subseteq Items, notes' \subseteq Note, UNCHANGED <<points, vouched, request>>
  PROVE  Shaped'
BY DEF Shaped, TypeOK, Worded, Loaded

LEMMA NotedIsNotes ==
  ASSUME notes \subseteq Note, NEW i \in Items, NEW p \in Points, NEW t \in Texts
  PROVE  Noted(i, p, t, "from") \subseteq Note
BY DEF Noted, Note

LEMMA IntakeShaped == ASSUME Shaped, Intake PROVE Shaped'
<1>0. items \subseteq Items /\ notes \subseteq Note /\ Fresh \subseteq Points /\ FreshItems \subseteq Items
  BY DEF Shaped, TypeOK, Fresh, FreshItems
<1>1. CASE CreatePoint
  <2>1. PICK i \in items, t \in Texts, p \in Fresh :
          /\ Add(p, i, t, "approved") /\ vouched' = [vouched EXCEPT ![p] = t]
          /\ UNCHANGED <<items, notes, request>>
    BY <1>1 DEF CreatePoint
  <2> QED BY <1>0, <2>1, AddShaped
<1>2. CASE Mint \/ AddDraft \/ WriteBack
  <2>1. PICK i \in items, t \in Texts, p \in Fresh :
          Add(p, i, t, "draft") /\ UNCHANGED <<items, notes, vouched, request>>
    BY <1>2 DEF Mint, AddDraft, WriteBack
  <2> QED BY <1>0, <2>1, AddShaped
<1>3. CASE Capture \/ IngestDocument
  <2>1. PICK i \in items \cup FreshItems, t \in Texts, p \in Fresh :
          /\ items' = items \cup {i} /\ Add(p, i, t, "draft")
          /\ UNCHANGED <<notes, vouched, request>>
    BY <1>3 DEF Capture, IngestDocument
  <2> QED BY <1>0, <2>1, AddShaped
<1>4. CASE CannotConfirm
  <2>1. PICK i \in items, t \in Texts, p \in Fresh :
          /\ points' = [points EXCEPT ![p] = [item |-> i, text |-> t, state |-> "retired",
                                              into |-> None, unconfirmed |-> TRUE]]
          /\ UNCHANGED <<items, notes, vouched, request>>
    BY <1>4 DEF CannotConfirm
  <2> DEFINE row == [item |-> i, text |-> t, state |-> "retired", into |-> None, unconfirmed |-> TRUE]
  <2>2. row \in Point /\ row.item # None /\ row.text # None BY <1>0, Nones DEF Point
  <2>3. points' = [points EXCEPT ![p] = row] BY <2>1
  <2> HIDE DEF row
  <2> QED BY <1>0, <2>1, <2>2, <2>3, NewShaped
<1>5. CASE Import
  <2>1. PICK i \in items, t \in Texts :
          /\ \/ \E p \in Active(points, i) : notes' = Noted(i, p, t, "from") /\ UNCHANGED <<points, vouched>>
             \/ \E p \in Fresh : /\ Add(p, i, t, "approved") /\ vouched' = [vouched EXCEPT ![p] = t]
                                 /\ notes' = Noted(i, p, t, "from")
             \/ \E p \in Fresh, merged \in Texts :
                  Add(p, i, merged, "draft") /\ notes' = Noted(i, p, t, "from") /\ UNCHANGED vouched
          /\ UNCHANGED <<items, request>>
    BY <1>5 DEF Import
  <2>2. notes' \subseteq Note BY <1>0, <2>1, NotedIsNotes DEF Active, Of
  <2>3. CASE UNCHANGED <<points, vouched>> BY <1>0, <2>1, <2>2, <2>3, StayShaped
  <2>4. CASE \E p \in Fresh : Add(p, i, t, "approved") /\ vouched' = [vouched EXCEPT ![p] = t]
    BY <1>0, <2>1, <2>2, <2>4, AddShaped
  <2>5. CASE \E p \in Fresh, merged \in Texts : Add(p, i, merged, "draft") /\ UNCHANGED vouched
    BY <1>0, <2>1, <2>2, <2>5, AddShaped
  <2> QED BY <2>1, <2>3, <2>4, <2>5
<1>6. CASE IngestParsed
  <2>1. PICK i \in items, t \in Texts :
          /\ \/ \E p \in Of(points, i) : notes' = Noted(i, p, t, "from") /\ UNCHANGED points
             \/ \E p \in Fresh : Add(p, i, t, "draft") /\ notes' = Noted(i, p, t, "from")
          /\ UNCHANGED <<items, vouched, request>>
    BY <1>6 DEF IngestParsed
  <2>2. notes' \subseteq Note BY <1>0, <2>1, NotedIsNotes DEF Of
  <2>3. CASE UNCHANGED points BY <1>0, <2>1, <2>2, <2>3, StayShaped
  <2>4. CASE \E p \in Fresh : Add(p, i, t, "draft") BY <1>0, <2>1, <2>2, <2>4, AddShaped
  <2> QED BY <2>1, <2>3, <2>4
<1>7. CASE BaseSync
  <2>1. PICK i \in items, t \in Texts :
          /\ \/ \E p \in Of(points, i) : notes' = Noted(i, p, t, "from") /\ UNCHANGED points
             \/ \E p \in Fresh : Add(p, i, t, "draft") /\ UNCHANGED notes
          /\ UNCHANGED <<items, vouched, request>>
    BY <1>7 DEF BaseSync, Active
  <2>2. notes' \subseteq Note BY <1>0, <2>1, NotedIsNotes DEF Of
  <2>3. CASE UNCHANGED points BY <1>0, <2>1, <2>2, <2>3, StayShaped
  <2>4. CASE \E p \in Fresh : Add(p, i, t, "draft") BY <1>0, <2>1, <2>2, <2>4, AddShaped
  <2> QED BY <2>1, <2>3, <2>4
<1> QED BY <1>1, <1>2, <1>3, <1>4, <1>5, <1>6, <1>7 DEF Intake

LEMMA SplitShaped == ASSUME Shaped, Split PROVE Shaped'
<1>1. PICK p \in Live(points), q \in Fresh, t \in Texts, carried \in SUBSET notes :
        /\ points' = [points EXCEPT ![q] = [NoPoint EXCEPT !.item = points[p].item, !.text = t,
                                                           !.state = "approved"]]
        /\ vouched' = [vouched EXCEPT ![q] = t]
        /\ notes' = (notes \ carried) \cup {[n EXCEPT !.point = q] : n \in carried}
        /\ UNCHANGED <<items, request>>
  <2>1. PICK p \in Live(points), q \in Fresh, t \in Texts :
          LET carried == {n \in notes : n.point = p /\ n.dir = "from" /\ n.text = t}
          IN /\ points' = [points EXCEPT ![q] = [NoPoint EXCEPT !.item = points[p].item, !.text = t,
                                                                !.state = "approved"]]
             /\ vouched' = [vouched EXCEPT ![q] = t]
             /\ notes' = (notes \ carried) \cup {[n EXCEPT !.point = q] : n \in carried}
             /\ UNCHANGED <<items, request>>
    BY Zenon DEF Split
  <2>2. {n \in notes : n.point = p /\ n.dir = "from" /\ n.text = t} \in SUBSET notes OBVIOUS
  <2> QED BY Zenon, <2>1, <2>2
<1>2. q \in Points /\ points[p].item \in Items /\ items \subseteq Items /\ notes \subseteq Note
  BY DEF Fresh, Live, Shaped, TypeOK, Point
<1>3. \A n \in Note : [n EXCEPT !.point = q] \in Note BY <1>2 DEF Note
<1>4. notes' \subseteq Note BY <1>1, <1>2, <1>3
<1>5. Add(q, points[p].item, t, "approved") BY <1>1 DEF Add
<1> QED BY <1>1, <1>2, <1>4, <1>5, AddShaped

LEMMA StepShaped == ASSUME Shaped, [Next]_vars PROVE Shaped'
<1>0. items \subseteq Items /\ notes \subseteq Note BY DEF Shaped, TypeOK
<1>1. CASE Intake BY <1>1, IntakeShaped
<1>2. CASE Edit BY <1>2, RowEditsShaped, TableEditsShaped, SplitShaped DEF Edit
<1>3. CASE Commit BY <1>3, CommitShaped
<1>4. CASE Port
  <2>1. PICK p \in Live(points), t \in Texts :
          /\ notes' = notes \cup {[item |-> points[p].item, point |-> p, text |-> t, dir |-> "to"]}
          /\ UNCHANGED <<items, points, vouched, request>>
    BY <1>4 DEF Port
  <2>2. p \in Points /\ points[p].item \in Items BY DEF Live, Shaped, TypeOK, Point
  <2>3. notes' \subseteq Note BY <1>0, <2>1, <2>2 DEF Note
  <2> QED BY <1>0, <2>1, <2>3, StayShaped
<1>5. CASE DeletePoint \/ DeleteItem \/ MergeItems BY <1>5, RemovalsShaped
<1>6. CASE CreateItem
  <2>1. items' \subseteq Items /\ UNCHANGED <<points, notes, vouched, request>>
    BY <1>0, <1>6 DEF CreateItem, FreshItems
  <2> QED BY <1>0, <2>1, StayShaped
<1>7. CASE UNCHANGED vars BY <1>0, <1>7, StayShaped DEF vars
<1> QED BY <1>1, <1>2, <1>3, <1>4, <1>5, <1>6, <1>7 DEF Next

(* Whatever changes overlap, the tables stay of their types: a commit,     *)
(* which writes column by column over what is there by then, makes a row   *)
(* of them, and every note, pointer and claim is of a bullet and a text.   *)
THEOREM TypeCorrect == Spec => []TypeOK
<1>1. Init => Shaped BY InitShaped
<1>2. Shaped /\ [Next]_vars => Shaped' BY StepShaped
<1>3. Shaped => TypeOK BY DEF Shaped
<1> QED BY <1>1, <1>2, <1>3, PTL DEF Spec
=============================================================================
