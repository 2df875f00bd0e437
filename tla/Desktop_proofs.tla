--------------------------- MODULE Desktop_proofs ---------------------------
(***************************************************************************)
(* Proofs about Desktop, for any number of runs and servers, any time,     *)
(* restart limit and window.  Restarts stay within their window on every   *)
(* timing.  When no launch overlaps another that is not recorded yet, and  *)
(* no supervisor dies before its servers are recorded and listen, stop     *)
(* leaves nothing running and the run that watches is the recorded one.    *)
(***************************************************************************)
EXTENDS Desktop, SequenceTheorems, WellFoundedInduction, TLAPS

NoWindow == Windows = {}

-----------------------------------------------------------------------------
(* The inductive invariant *)

Command == [verb : {"none", "start", "stop", "restart", "update"},
            step : {"idle", "look", "find", "ask", "wait", "sweep", "stopped", "uv", "launch", "ready"},
            target : Runs \cup {Nobody}, again : BOOLEAN, quiet : BOOLEAN]
Typed == TypeOK /\ runs \in [Runs -> Run] /\ command \in Command

(* A run acts once it has found the ports free.                            *)
Acts(r) == runs[r].step \notin {"none", "look", "gone"}
Fresh(r) ==
  /\ runs[r].starting /\ runs[r].at = 1
  /\ \A n \in Names : runs[r].child[n] = Nobody

(* One run acts, and one is early; the record names the one that acts.     *)
Alone ==
  /\ \A r, q \in Runs : Acts(r) /\ Acts(q) => r = q
  /\ \A r, q \in Runs : Early(r) /\ Early(q) => r = q
  /\ \A r \in Runs : Acts(r) /\ ~Early(r) => files.supervisor = r
  /\ \A r \in Runs : Early(r) \/ runs[r].step = "none" => files.supervisor # r

(* A command that has looked keeps launches away until it has stopped.     *)
Commands ==
  /\ command.step \in {"find", "ask", "wait", "sweep", "launch"} => \A r \in Runs : ~Early(r)
  /\ command.step \in {"ask", "wait"} => \A r \in Runs : Alive(r) => r = command.target
  /\ command.step = "sweep" => \A r \in Runs : ~Alive(r)
  /\ StoppedMeansStopped

(* Which of its servers a run has noted.                                   *)
Noted(r, n) ==
  IF runs[r].starting
  THEN (n = Spec1(r) /\ runs[r].step = "await") \/ (n = "backend" /\ runs[r].at = 2)
  ELSE ~(n = Spec1(r) /\ runs[r].step = "note")

Progress(r) ==
  /\ runs[r].step \in {"none", "look", "clear", "record", "signals"} => Fresh(r)
  /\ runs[r].step \in {"watch", "scan"} => ~runs[r].starting
  /\ runs[r].step = "spawn" => ~Lives(runs[r].child[Spec1(r)])
  /\ runs[r].starting /\ runs[r].at = 1 /\ runs[r].step = "spawn" => Fresh(r)
  /\ runs[r].starting /\ runs[r].at = 1 => runs[r].child["web"] = Nobody
  /\ runs[r].step \in {"spawn", "note", "await", "watch", "scan"} =>
       \A n \in Names : Noted(r, n) => files.server[n] = runs[r].child[n]
  /\ runs[r].step \in {"stop backend", "cleanup"} => ~Lives(runs[r].child["web"])
  /\ runs[r].step = "cleanup" => ~Lives(runs[r].child["backend"])

(* What lives is a server that the run which acts holds, or one that a run *)
(* left behind, which listens and is recorded.                             *)
Held ==
  \A s \in Servers : Lives(s) =>
    \/ \E r \in Runs : Acts(r) /\ servers[s].run = r /\ runs[r].child[servers[s].name] = s
    \/ (\A r \in Runs : ~Acts(r)) /\ servers[s].state = "up" /\ s \in Recorded

IInv == Typed /\ Alone /\ Commands /\ (\A r \in Runs : Progress(r)) /\ Held

(* The exits are the last of the restarts, and the others are too old.     *)
LastOf(times, exits) ==
  LET old == Len(times) - Len(exits)
  IN  /\ Len(exits) <= Len(times)
      /\ \A i \in 1..Len(exits) : exits[i] = times[old + i]
      /\ \A i \in 1..old : now - times[i] >= Span
Counted(r, n) ==
  /\ Len(runs[r].exits[n]) <= MaxRestarts
  /\ LastOf(runs[r].restarts[n], runs[r].exits[n])
Ending(r) == runs[r].step \in {"stop web", "stop backend", "cleanup", "gone"}
InOrder(times) ==
  /\ \A i \in 1..Len(times) : times[i] <= now
  /\ \A i, j \in 1..Len(times) : i <= j => times[i] <= times[j]
Spaced(times) ==
  \A i, j \in 1..Len(times) : i <= j /\ times[j] - times[i] < Span => j - i < MaxRestarts
Counting ==
  \A r \in Runs, n \in Names :
    /\ InOrder(runs[r].restarts[n]) /\ Spaced(runs[r].restarts[n])
    /\ ~Ending(r) => Counted(r, n)

-----------------------------------------------------------------------------
(* Numbers, and the times within the window *)

LEMMA Constants ==
  /\ LastRun \in Nat /\ LastServer \in Nat /\ LastTime \in Nat
  /\ MaxRestarts \in Nat /\ Span \in Nat
BY DesktopConstants

(* Some numbers have a least one.                                          *)
LEMMA LeastOf == ASSUME NEW S \in SUBSET Nat, S # {} PROVE \E x \in S : \A y \in S : x <= y
<1> DEFINE R == OpToRel(<, Nat)
<1>1. IsWellFoundedOn(R, Nat) BY NatLessThanWellFounded
<1> HIDE DEF R
<1>2. PICK x \in S : \A y \in S : ~ (<<y, x>> \in R) BY <1>1, WFMin
<1>3. \A y \in S : x <= y
  <2> TAKE y \in S
  <2>1. y < x => <<y, x>> \in R BY DEF R, OpToRel
  <2> QED BY <1>2, <2>1
<1> QED BY <1>3

(* A set of numbers that has 0, and with each number the next, has all up  *)
(* to a bound.                                                             *)
LEMMA UpTo ==
  ASSUME NEW n \in Nat, NEW P, 0 \in P, \A m \in 0..(n - 1) : m \in P => m + 1 \in P
  PROVE  \A m \in 0..n : m \in P
<1> SUFFICES ASSUME NEW z \in 0..n, z \notin P PROVE FALSE
  OBVIOUS
<1> DEFINE Bad == {m \in 0..n : m \notin P}
<1>1. Bad \in SUBSET Nat /\ Bad # {}
  OBVIOUS
<1>2. PICK x \in Bad : \A y \in Bad : x <= y
  BY <1>1, LeastOf
<1>3. x \in 0..n /\ x \notin P
  BY <1>2
<1>4. x # 0 /\ x - 1 \in 0..(n - 1) /\ (x - 1) + 1 = x
  BY <1>3
<1>5. x - 1 \notin P
  BY <1>3, <1>4
<1>6. x - 1 \in Bad
  BY <1>4, <1>5
<1>7. x <= x - 1
  BY <1>2, <1>6
<1> QED
  BY <1>3, <1>7

(* What Within keeps at each position, and the functions that keep it.     *)
Keeps(times, f, i) ==
  IF i = 0 THEN <<>>
  ELSE IF now - times[i] < Span THEN Append(f[i - 1], times[i]) ELSE f[i - 1]
KeepsAll(times, f, m) == f = [i \in 0..m |-> Keeps(times, f, i)]

LEMMA KeepsNext ==
  ASSUME NEW times, NEW m \in Nat, NEW f, KeepsAll(times, f, m)
  PROVE  \E g : KeepsAll(times, g, m + 1)
<1>1. PICK g : g = [i \in 0..(m + 1) |-> IF i <= m THEN f[i] ELSE Keeps(times, f, i)]
  OBVIOUS
<1>2. \A i \in 0..(m + 1) : i \in Int /\ (i <= m => i \in 0..m) /\ (~(i <= m) => i = m + 1)
  OBVIOUS
<1>3. \A i \in 0..m : f[i] = Keeps(times, f, i)
  BY DEF KeepsAll
<1>4. \A i \in 0..m : g[i] = f[i]
  BY <1>1
<1>5. g[m + 1] = Keeps(times, f, m + 1)
  BY <1>1
<1>6. \A i \in 0..(m + 1) : Keeps(times, g, i) = Keeps(times, f, i)
  BY <1>2, <1>4 DEF Keeps
<1>7. \A i \in 0..(m + 1) : g[i] = Keeps(times, g, i)
  BY <1>2, <1>3, <1>4, <1>5, <1>6
<1>8. g = [i \in 0..(m + 1) |-> g[i]]
  BY <1>1
<1> QED
  BY <1>7, <1>8 DEF KeepsAll

LEMMA KeepsSome == ASSUME NEW times, NEW n \in Nat PROVE \E f : KeepsAll(times, f, n)
<1> DEFINE P == {m \in Nat : \E f : KeepsAll(times, f, m)}
<1>1. 0 \in P
  <2>1. PICK f : f = [i \in 0..0 |-> <<>>]
    OBVIOUS
  <2>2. f = [i \in 0..0 |-> Keeps(times, f, i)]
    BY <2>1 DEF Keeps
  <2> QED
    BY <2>2 DEF KeepsAll
<1>2. \A m \in 0..(n - 1) : m \in P => m + 1 \in P
  BY KeepsNext
<1>3. n \in P
  <2> HIDE DEF P
  <2> QED BY <1>1, <1>2, UpTo
<1> QED
  BY <1>3

LEMMA WithinKeeps ==
  ASSUME NEW times, NEW n \in Nat, n = Len(times)
  PROVE  \E f : Within(times) = f[n] /\ \A i \in 0..n : f[i] = Keeps(times, f, i)
<1> DEFINE kept[i \in 0..Len(times)] ==
             IF i = 0 THEN <<>>
             ELSE IF now - times[i] < Span THEN Append(kept[i - 1], times[i]) ELSE kept[i - 1]
<1>1. Within(times) = kept[n]
  BY DEF Within
<1>2. PICK f : KeepsAll(times, f, n)
  BY KeepsSome
<1>3. f = [i \in 0..Len(times) |->
             IF i = 0 THEN <<>>
             ELSE IF now - times[i] < Span THEN Append(f[i - 1], times[i]) ELSE f[i - 1]]
  BY <1>2 DEF KeepsAll, Keeps
<1>4. kept = [i \in 0..Len(times) |->
                IF i = 0 THEN <<>>
                ELSE IF now - times[i] < Span THEN Append(kept[i - 1], times[i]) ELSE kept[i - 1]]
  BY <1>3
<1> HIDE DEF kept
<1>5. \A i \in 0..n : kept[i] = Keeps(times, kept, i)
  BY <1>4 DEF Keeps
<1> QED
  BY <1>1, <1>5

(* The kept times are the last ones, and the others are out of the window. *)
EndsAfter(times, kept, i, k) ==
  /\ Len(kept) = i - k
  /\ \A j \in 1..(i - k) : kept[j] = times[k + j]
  /\ \A j \in 1..k : now - times[j] >= Span
  /\ k < i => now - times[i] < Span

LEMMA EndsNext ==
  ASSUME NEW T \in SUBSET Int, NEW times \in Seq(T), now \in Int,
         \A i, j \in 1..Len(times) : i <= j => times[i] <= times[j],
         NEW i \in Nat, i + 1 \in 1..Len(times), NEW k \in 0..i, NEW f,
         f[i] \in Seq(T), EndsAfter(times, f[i], i, k), f[i + 1] = Keeps(times, f, i + 1)
  PROVE  f[i + 1] \in Seq(T) /\ \E l \in 0..(i + 1) : EndsAfter(times, f[i + 1], i + 1, l)
<1>1. PICK s \in Seq(T), t \in T, u \in {f[i + 1]} : s = f[i] /\ t = times[i + 1] /\ u = f[i + 1]
  <2>1. times[i + 1] \in T
    BY ElementOfSeq
  <2> QED
    BY <2>1
<1>2. t \in Int /\ Span \in Int
  BY Constants
<1>3. u = IF now - t < Span THEN Append(s, t) ELSE s
  BY <1>1 DEF Keeps
<1>4. EndsAfter(times, s, i, k)
  BY <1>1
<1>5. CASE now - t < Span
  <2>1. u = Append(s, t) /\ u \in Seq(T)
    BY <1>3, <1>5, AppendProperties
  <2>2. Len(u) = (i + 1) - k
    BY <1>4, <2>1, AppendProperties DEF EndsAfter
  <2>3. \A j \in 1..((i + 1) - k) : u[j] = times[k + j]
    <3>1. Len(s) = i - k /\ \A j \in 1..(i - k) : s[j] = times[k + j]
      BY <1>4 DEF EndsAfter
    <3>2. \A j \in 1..(i - k) : u[j] = s[j]
      BY <2>1, <3>1, AppendProperties
    <3>3. u[(i + 1) - k] = t
      <4>1. Len(s) + 1 = (i + 1) - k
        BY <3>1
      <4>2. u[Len(s) + 1] = t
        BY <2>1, AppendProperties
      <4> QED
        BY <4>1, <4>2
    <3>4. \A j \in 1..((i + 1) - k) : j \in 1..(i - k) \/ (j = (i + 1) - k /\ k + j = i + 1)
      OBVIOUS
    <3> QED
      BY <1>1, <3>1, <3>2, <3>3, <3>4
  <2>4. EndsAfter(times, u, i + 1, k)
    BY <1>1, <1>4, <1>5, <2>2, <2>3 DEF EndsAfter
  <2> QED
    BY <1>1, <2>1, <2>4
<1>6. CASE ~(now - t < Span)
  <2>1. u = s
    BY <1>3, <1>6
  <2>2. k = i
    <3> SUFFICES ASSUME k < i PROVE FALSE
      OBVIOUS
    <3>1. i \in 1..Len(times) /\ times[i] <= t /\ now - times[i] < Span
      BY <1>1, <1>4 DEF EndsAfter
    <3>2. times[i] \in Int
      BY <3>1, ElementOfSeq
    <3> QED
      BY <1>2, <1>6, <3>1, <3>2
  <2>3. now - times[i + 1] >= Span
    BY <1>1, <1>2, <1>6
  <2>4. EndsAfter(times, u, i + 1, i + 1)
    BY <1>4, <2>1, <2>2, <2>3 DEF EndsAfter
  <2> QED
    BY <1>1, <2>1, <2>4
<1> QED
  BY <1>5, <1>6

LEMMA WithinIs ==
  ASSUME NEW T \in SUBSET Int, NEW times \in Seq(T), now \in Int,
         \A i, j \in 1..Len(times) : i <= j => times[i] <= times[j]
  PROVE  /\ Within(times) \in Seq(T)
         /\ \E k \in 0..Len(times) : EndsAfter(times, Within(times), Len(times), k)
<1>1. PICK n \in Nat : n = Len(times)
  OBVIOUS
<1>2. PICK f : Within(times) = f[n] /\ \A i \in 0..n : f[i] = Keeps(times, f, i)
  BY <1>1, WithinKeeps
<1> DEFINE Q == {i \in Nat : f[i] \in Seq(T) /\ \E k \in 0..i : EndsAfter(times, f[i], i, k)}
<1>3. 0 \in Q
  <2>1. f[0] = <<>>
    <3>1. 0 \in 0..n
      BY <1>1
    <3> HIDE DEF Q
    <3> QED
      BY <1>2, <3>1 DEF Keeps
  <2>2. EndsAfter(times, <<>>, 0, 0) /\ <<>> \in Seq(T)
    BY EmptySeq DEF EndsAfter
  <2>3. 0 \in 0..0 /\ EndsAfter(times, f[0], 0, 0) /\ f[0] \in Seq(T)
    BY <2>1, <2>2
  <2> QED
    BY <2>3
<1>4. ASSUME NEW i \in 0..(n - 1), i \in Q PROVE i + 1 \in Q
  <2>1. i \in Nat /\ i + 1 \in 1..Len(times) /\ i + 1 \in 0..n
    BY <1>1
  <2>2. f[i + 1] = Keeps(times, f, i + 1)
    BY <1>2, <2>1
  <2>3. PICK k \in 0..i : EndsAfter(times, f[i], i, k)
    BY <1>4
  <2> QED
    BY <1>4, <2>1, <2>2, <2>3, EndsNext
<1>5. n \in Q
  <2> HIDE DEF Q
  <2>1. \A i \in 0..(n - 1) : i \in Q => i + 1 \in Q
    BY <1>4
  <2>2. \A m \in 0..n : m \in Q
    BY <1>3, <2>1, UpTo, Zenon
  <2>3. n \in 0..n
    OBVIOUS
  <2> QED BY <2>2, <2>3
<1> QED
  BY <1>1, <1>2, <1>5

-----------------------------------------------------------------------------
(* What the steps of a run do to its row *)

Steps == {"none", "look", "clear", "record", "signals", "spawn", "note", "await",
          "watch", "scan", "stop web", "stop backend", "cleanup", "gone"}
TypedRuns == runs \in [Runs -> Run]

Changes(r) == runs' \in [Runs -> Run] /\ \A q \in Runs : q # r => runs'[q] = runs[q]
SameCounts(r) == runs'[r].exits = runs[r].exits /\ runs'[r].restarts = runs[r].restarts
SameServers(r) ==
  /\ runs'[r].child = runs[r].child
  /\ runs'[r].at = runs[r].at /\ runs'[r].starting = runs[r].starting
GoesOn(r, step) == Changes(r) /\ runs'[r].step = step /\ SameServers(r) /\ SameCounts(r)

LEMMA RunRows ==
  ASSUME TypedRuns, NEW r \in Runs
  PROVE  /\ runs[r] \in Run /\ runs[r].step \in Steps /\ runs[r].at \in 1..2
         /\ runs[r].starting \in BOOLEAN /\ runs[r].stopping \in BOOLEAN
         /\ runs[r].child \in [Names -> Servers \cup {Nobody}]
         /\ runs[r].exits \in [Names -> Seq(0..LastTime)]
         /\ runs[r].restarts \in [Names -> Seq(0..LastTime)]
BY DEF TypedRuns, Run, Steps

LEMMA SpecNames == 
  ASSUME TypedRuns, NEW r \in Runs
  PROVE  /\ Spec1(r) \in Names
         /\ runs[r].at = 1 => Spec1(r) = "backend"
         /\ runs[r].at = 2 => Spec1(r) = "web"
<1>1. runs[r].at = 1 \/ runs[r].at = 2
  BY RunRows
<1> QED
  BY <1>1 DEF Spec1, Specs, Names

LEMMA RowChanges ==
  ASSUME TypedRuns, NEW r \in Runs, NEW row \in Run, runs' = [runs EXCEPT ![r] = row]
  PROVE  Changes(r) /\ runs'[r] = row
BY DEF TypedRuns, Changes

LEMMA GoesIs ==
  ASSUME TypedRuns, NEW r \in Runs, NEW step \in Steps, Goes(r, step)
  PROVE  GoesOn(r, step)
<1>1. PICK row : row = [runs[r] EXCEPT !.step = step]
  OBVIOUS
<1>2. runs' = [runs EXCEPT ![r] = row]
  BY <1>1 DEF Goes
<1>3. /\ row \in Run /\ row.step = step
      /\ row.child = runs[r].child /\ row.at = runs[r].at /\ row.starting = runs[r].starting
      /\ row.exits = runs[r].exits /\ row.restarts = runs[r].restarts
  BY <1>1, RunRows DEF Run, Steps
<1> QED
  BY <1>2, <1>3, RowChanges DEF GoesOn, SameServers, SameCounts

LEMMA SpawnIs ==
  ASSUME TypedRuns, NEW r \in Runs, Spawn(r)
  PROVE  \/ GoesOn(r, "stop web") /\ UNCHANGED servers
         \/ \E s \in Servers :
              /\ servers[s].state = "none"
              /\ servers' = [servers EXCEPT ![s] = [name |-> Spec1(r), run |-> r, state |-> "starting"]]
              /\ Changes(r) /\ runs'[r].step = "note" /\ SameCounts(r)
              /\ runs'[r].at = runs[r].at /\ runs'[r].starting = runs[r].starting
              /\ runs'[r].child = [runs[r].child EXCEPT ![Spec1(r)] = s]
<1>1. CASE Ends(r) /\ UNCHANGED servers
  BY <1>1, GoesIs DEF Ends, Steps
<1>2. ASSUME NEW s \in Servers, servers[s].state = "none",
             servers' = [servers EXCEPT ![s] = [name |-> Spec1(r), run |-> r, state |-> "starting"]],
             runs' = [runs EXCEPT ![r].step = "note", ![r].child[Spec1(r)] = s]
      PROVE  /\ Changes(r) /\ runs'[r].step = "note" /\ SameCounts(r)
             /\ runs'[r].at = runs[r].at /\ runs'[r].starting = runs[r].starting
             /\ runs'[r].child = [runs[r].child EXCEPT ![Spec1(r)] = s]
  <2>1. PICK child, row : /\ child = [runs[r].child EXCEPT ![Spec1(r)] = s]
                          /\ row = [runs[r] EXCEPT !.step = "note", !.child = child]
    OBVIOUS
  <2>2. child \in [Names -> Servers \cup {Nobody}]
    BY <2>1, RunRows
  <2>3. /\ row \in Run /\ row.step = "note"
        /\ row.child = child /\ row.at = runs[r].at /\ row.starting = runs[r].starting
        /\ row.exits = runs[r].exits /\ row.restarts = runs[r].restarts
    BY <2>1, <2>2, RunRows DEF Run
  <2>4. runs' = [runs EXCEPT ![r] = row]
    BY <1>2, <2>1, RunRows DEF Run, TypedRuns
  <2> QED
    BY <2>1, <2>3, <2>4, RowChanges DEF SameCounts
<1> QED
  BY <1>1, <1>2 DEF Spawn

(* The next spec, or the watch.                                            *)
MovesOn(r) ==
  /\ Changes(r) /\ SameCounts(r) /\ runs'[r].child = runs[r].child
  /\ runs[r].at = 2 => /\ runs'[r].at = 1 /\ runs'[r].step = "watch" /\ ~runs'[r].starting
  /\ runs[r].at = 1 => /\ runs'[r].at = 2 /\ runs'[r].starting = runs[r].starting
                       /\ runs'[r].step = IF runs[r].starting THEN "spawn" ELSE "scan"

LEMMA HealthyIs ==
  ASSUME TypedRuns, NEW r \in Runs, runs' = [runs EXCEPT ![r] = Healthy(r)]
  PROVE  MovesOn(r)
<1>1. PICK row : row = Healthy(r)
  OBVIOUS
<1>2. runs[r].at = 1 \/ runs[r].at = 2
  BY RunRows
<1>3. /\ row \in Run /\ row.child = runs[r].child
      /\ row.exits = runs[r].exits /\ row.restarts = runs[r].restarts
      /\ runs[r].at = 2 => row.at = 1 /\ row.step = "watch" /\ row.starting = FALSE
      /\ runs[r].at = 1 => /\ row.at = 2 /\ row.starting = runs[r].starting
                           /\ row.step = IF runs[r].starting THEN "spawn" ELSE "scan"
  <2>1. CASE runs[r].at = 1
    <3>1. PICK step : step = IF runs[r].starting THEN "spawn" ELSE "scan"
      OBVIOUS
    <3>2. row = [runs[r] EXCEPT !.at = 2, !.step = step]
      BY <1>1, <2>1, <3>1 DEF Healthy
    <3>3. step \in {"spawn", "scan"}
      BY <3>1
    <3>4. /\ row \in Run /\ row.child = runs[r].child /\ row.at = 2 /\ row.step = step
          /\ row.exits = runs[r].exits /\ row.restarts = runs[r].restarts
          /\ row.starting = runs[r].starting
      <4>1. row = [step |-> step, at |-> 2, starting |-> runs[r].starting,
                   stopping |-> runs[r].stopping, child |-> runs[r].child,
                   exits |-> runs[r].exits, restarts |-> runs[r].restarts]
        BY <3>2, RunRows DEF Run
      <4>2. 2 \in 1..2
        OBVIOUS
      <4> QED
        BY <3>3, <4>1, <4>2, RunRows DEF Run
    <3> QED
      BY <2>1, <3>1, <3>4
  <2>2. CASE runs[r].at = 2
    <3>1. row = [runs[r] EXCEPT !.at = 1, !.step = "watch", !.starting = FALSE]
      BY <1>1, <2>2 DEF Healthy
    <3>2. /\ row \in Run /\ row.child = runs[r].child /\ row.at = 1 /\ row.step = "watch"
          /\ row.exits = runs[r].exits /\ row.restarts = runs[r].restarts
          /\ row.starting = FALSE
      <4>1. row = [step |-> "watch", at |-> 1, starting |-> FALSE,
                   stopping |-> runs[r].stopping, child |-> runs[r].child,
                   exits |-> runs[r].exits, restarts |-> runs[r].restarts]
        BY <3>1, RunRows DEF Run
      <4>2. 1 \in 1..2
        OBVIOUS
      <4> QED
        BY <4>1, <4>2, RunRows DEF Run
    <3> QED
      BY <2>2, <3>2
  <2> QED
    BY <1>2, <2>1, <2>2
<1> QED
  BY <1>1, <1>3, RowChanges DEF MovesOn, SameCounts

(* A restart, and the exit that is one too many.                           *)
LEMMA ScanIs ==
  ASSUME TypedRuns, NEW r \in Runs, Scan(r), now \in 0..LastTime,
         Within(runs[r].exits[Spec1(r)]) \in Seq(0..LastTime)
  PROVE  LET n == Spec1(r)
             recent == Recent(r, n)
         IN  \/ MovesOn(r) /\ Lives(runs[r].child[n])
             \/ /\ ~Lives(runs[r].child[n])
                /\ Changes(r) /\ SameServers(r)
                /\ runs'[r].exits = [runs[r].exits EXCEPT ![n] = recent]
                /\ \/ /\ runs'[r].step = "spawn" /\ Len(recent) <= MaxRestarts
                      /\ runs'[r].restarts =
                           [runs[r].restarts EXCEPT ![n] = Append(runs[r].restarts[n], now)]
                   \/ /\ runs'[r].step = "stop web"
                      /\ runs'[r].restarts = runs[r].restarts
<1>1. PICK n, recent, exits, times :
        /\ n = Spec1(r) /\ recent = Recent(r, n)
        /\ exits = [runs[r].exits EXCEPT ![n] = recent]
        /\ times = [runs[r].restarts EXCEPT ![n] = Append(runs[r].restarts[n], now)]
  OBVIOUS
<1>2. n \in Names /\ recent \in Seq(0..LastTime)
  BY <1>1, SpecNames, AppendProperties DEF Recent
<1>3. exits \in [Names -> Seq(0..LastTime)]
  BY <1>1, <1>2, RunRows
<1>4. times \in [Names -> Seq(0..LastTime)]
  <2>1. Append(runs[r].restarts[n], now) \in Seq(0..LastTime)
    BY <1>2, RunRows, AppendProperties
  <2> QED
    BY <1>1, <1>2, <2>1, RunRows
<1>5. CASE Lives(runs[r].child[n])
  BY <1>1, <1>5, HealthyIs DEF Scan
<1>6. CASE ~Lives(runs[r].child[n]) /\ Len(recent) <= MaxRestarts
  <2>1. PICK row : row = [runs[r] EXCEPT !.step = "spawn", !.exits = exits, !.restarts = times]
    OBVIOUS
  <2>2. /\ row \in Run /\ row.step = "spawn" /\ row.exits = exits /\ row.restarts = times
        /\ row.child = runs[r].child /\ row.at = runs[r].at /\ row.starting = runs[r].starting
    BY <1>3, <1>4, <2>1, RunRows DEF Run
  <2>3. runs' = [runs EXCEPT ![r] = row]
    <3>1. runs' = [runs EXCEPT ![r].step = "spawn", ![r].exits[n] = recent,
                               ![r].restarts[n] = Append(@, now)]
      BY <1>1, <1>6 DEF Scan
    <3> QED
      BY <1>1, <2>1, <3>1, RunRows DEF TypedRuns, Run
  <2> QED
    BY <1>1, <1>6, <2>2, <2>3, RowChanges DEF SameServers
<1>7. CASE ~Lives(runs[r].child[n]) /\ ~(Len(recent) <= MaxRestarts)
  <2>1. PICK row : row = [runs[r] EXCEPT !.step = "stop web", !.exits = exits]
    OBVIOUS
  <2>2. /\ row \in Run /\ row.step = "stop web" /\ row.exits = exits
        /\ row.restarts = runs[r].restarts
        /\ row.child = runs[r].child /\ row.at = runs[r].at /\ row.starting = runs[r].starting
    BY <1>3, <2>1, RunRows DEF Run
  <2>3. runs' = [runs EXCEPT ![r] = row]
    <3>1. runs' = [runs EXCEPT ![r].step = "stop web", ![r].exits[n] = recent]
      BY <1>1, <1>7 DEF Scan
    <3> QED
      BY <1>1, <2>1, <3>1, RunRows DEF TypedRuns, Run
  <2> QED
    BY <1>1, <1>7, <2>2, <2>3, RowChanges DEF SameServers
<1> QED
  BY <1>5, <1>6, <1>7

(* A command's request to stop.                                            *)
LEMMA AskIs ==
  ASSUME TypedRuns, Ask, command.target \in Runs \cup {Nobody}
  PROVE  \/ UNCHANGED runs /\ ~Alive(command.target)
         \/ /\ command.target \in Runs /\ SameServers(command.target) /\ SameCounts(command.target)
            /\ Changes(command.target)
            /\ runs'[command.target].step =
                 IF runs[command.target].step = "signals" THEN "gone" ELSE runs[command.target].step
<1>1. PICK r : r = command.target
  OBVIOUS
<1>2. CASE ~Alive(r)
  BY <1>1, <1>2 DEF Ask
<1>3. CASE Alive(r) /\ runs[r].step = "signals"
  <2>1. r \in Runs
    BY <1>1, <1>3 DEF Alive
  <2>2. Goes(r, "gone")
    BY <1>1, <1>3 DEF Ask, Goes
  <2> QED
    BY <1>1, <1>3, <2>1, <2>2, GoesIs DEF GoesOn, Steps
<1>4. CASE Alive(r) /\ runs[r].step # "signals"
  <2>1. r \in Runs
    BY <1>1, <1>4 DEF Alive
  <2>2. PICK row : row = [runs[r] EXCEPT !.stopping = TRUE]
    OBVIOUS
  <2>3. runs' = [runs EXCEPT ![r] = row]
    BY <1>1, <1>4, <2>2 DEF Ask
  <2>4. /\ row \in Run /\ row.step = runs[r].step
        /\ row.child = runs[r].child /\ row.at = runs[r].at /\ row.starting = runs[r].starting
        /\ row.exits = runs[r].exits /\ row.restarts = runs[r].restarts
    BY <2>1, <2>2, RunRows DEF Run
  <2> QED
    BY <1>1, <1>4, <2>1, <2>3, <2>4, RowChanges DEF SameServers, SameCounts
<1> QED
  BY <1>2, <1>3, <1>4

-----------------------------------------------------------------------------
(* Types, and the restarts that are counted *)

LEMMA KilledIs ==
  ASSUME servers \in [Servers -> Server], NEW S
  PROVE  /\ Killed(S) \in [Servers -> Server]
         /\ \A s \in Servers : /\ Killed(S)[s].name = servers[s].name
                               /\ Killed(S)[s].run = servers[s].run
                               /\ Killed(S)[s].state = IF s \in S /\ Lives(s) THEN "dead" ELSE servers[s].state
<1>1. ASSUME NEW s \in Servers
      PROVE  /\ Killed(S)[s] \in Server
             /\ Killed(S)[s].name = servers[s].name /\ Killed(S)[s].run = servers[s].run
             /\ Killed(S)[s].state = IF s \in S /\ Lives(s) THEN "dead" ELSE servers[s].state
  <2>1. Killed(S)[s] = IF s \in S /\ Lives(s) THEN [servers[s] EXCEPT !.state = "dead"] ELSE servers[s]
    BY DEF Killed
  <2>2. servers[s] \in Server
    OBVIOUS
  <2> QED
    BY <2>1, <2>2 DEF Server
<1>2. PICK f : f = Killed(S)
  OBVIOUS
<1>3. f = [s \in Servers |-> f[s]]
  BY <1>2 DEF Killed
<1> QED
  BY <1>1, <1>2, <1>3

LEMMA ServersTyped ==
  ASSUME Typed, [Next]_vars
  PROVE  servers' \in [Servers -> Server]
<1>1. servers \in [Servers -> Server] /\ TypedRuns
  BY DEF Typed, TypeOK, TypedRuns
<1>2. \A S : servers' = Killed(S) => servers' \in [Servers -> Server]
  BY <1>1, KilledIs
<1>3. CASE UNCHANGED servers
  BY <1>1, <1>3
<1>4. ASSUME NEW r \in Runs, Spawn(r) PROVE servers' \in [Servers -> Server]
  <2>1. UNCHANGED servers \/
        \E s \in Servers : servers' = [servers EXCEPT ![s] = [name |-> Spec1(r), run |-> r, state |-> "starting"]]
    BY <1>1, <1>4, SpawnIs
  <2> QED
    BY <1>1, <2>1, SpecNames DEF Server
<1>5. CASE Listens
  <2>1. PICK s \in Servers, state \in {"dead", "up"} : servers' = [servers EXCEPT ![s].state = state]
    BY <1>5 DEF Listens
  <2>2. [servers[s] EXCEPT !.state = state] \in Server
    BY <1>1 DEF Server
  <2> QED
    BY <1>1, <2>1, <2>2
<1>6. CASE Exits
  BY <1>2, <1>6 DEF Exits
<1>7. CASE CommandStep
  BY <1>2, <1>3, <1>7 DEF CommandStep, Find, Ask, Stops, KillTree, Sweep, AfterStop, Upgrade, StartLook,
     Launch, Waited, Reaped
<1>8. ASSUME NEW r \in Runs, StopWeb(r) \/ StopBackend(r) PROVE servers' \in [Servers -> Server]
  BY <1>2, <1>8 DEF StopWeb, StopBackend
<1> QED
  BY <1>3, <1>4, <1>5, <1>6, <1>7, <1>8
  DEF Next, vars, RunStep, Begin, Autostart, Tick, Look, Clear, Record, InstallSignals, Note, Await,
      Watch, Scan, Cleanup, Dies

LEMMA FilesTyped ==
  ASSUME Typed, [Next]_vars
  PROVE  files' \in Folder
<1>1. files \in Folder /\ TypedRuns /\ EmptyFolder \in Folder
  BY DEF Typed, TypeOK, TypedRuns, EmptyFolder, Folder
<1>2. CASE UNCHANGED files
  BY <1>1, <1>2
<1>3. ASSUME NEW r \in Runs, Note(r) PROVE files' \in Folder
  <2>1. PICK n \in Names, s \in Servers \cup {Nobody} : files' = [files EXCEPT !.server[n] = s]
    <3>1. runs[r].child[Spec1(r)] \in Servers \cup {Nobody}
      BY <1>1, RunRows, SpecNames
    <3> QED
      BY <1>1, <1>3, <3>1, SpecNames DEF Note
  <2>2. PICK server : server = [files.server EXCEPT ![n] = s]
    OBVIOUS
  <2>3. server \in [Names -> Servers \cup {Nobody}]
    BY <1>1, <2>2 DEF Folder
  <2>4. files' = [files EXCEPT !.server = server]
    BY <1>1, <2>1, <2>2 DEF Folder
  <2> QED
    BY <1>1, <2>3, <2>4 DEF Folder
<1>4. ASSUME NEW r \in Runs, Clear(r) \/ Record(r) \/ Await(r) PROVE files' \in Folder
  BY <1>1, <1>4 DEF Clear, Record, Await, Folder
<1>5. CASE CommandStep
  BY <1>1, <1>2, <1>5 DEF CommandStep, Find, Ask, Stops, KillTree, Sweep, AfterStop, Upgrade, StartLook,
     Launch, Waited, Reaped, Folder
<1>6. ASSUME NEW r \in Runs, Cleanup(r) PROVE files' \in Folder
  BY <1>1, <1>6 DEF Cleanup
<1> QED
  BY <1>2, <1>3, <1>4, <1>5, <1>6
  DEF Next, vars, RunStep, Begin, Autostart, Listens, Exits, Tick, Look, InstallSignals, Spawn,
      Watch, Scan, StopWeb, StopBackend, Dies

LEMMA CommandTyped ==
  ASSUME Typed, [Next]_vars
  PROVE  command' \in Command
<1>1. command \in Command /\ Idle \in Command /\ files.supervisor \in Runs \cup {Nobody}
  BY DEF Typed, TypeOK, Folder, Command, Idle
<1>2. CASE UNCHANGED command
  BY <1>1, <1>2
<1>3. CASE Begin
  <2>1. PICK verb \in {"start", "stop", "restart", "update"}, again \in BOOLEAN, step \in {"look", "uv", "find"} :
          /\ again = (verb = "update" /\ Supervised)
          /\ step = IF verb = "start" THEN "look"
                    ELSE IF verb = "update" /\ ~Supervised THEN "uv" ELSE "find"
          /\ command' = [verb |-> verb, target |-> Nobody, quiet |-> TRUE, again |-> again, step |-> step]
    BY <1>3 DEF Begin
  <2>2. again \in BOOLEAN /\ step \in {"look", "uv", "find"}
    BY <2>1
  <2> QED
    BY <2>1, <2>2 DEF Command
<1>4. CASE Autostart
  BY <1>1, <1>4 DEF Autostart, Command
<1>5. \A step : Then(step) /\ step \in {"look", "ask", "wait", "sweep", "stopped", "uv", "launch"} =>
        command' \in Command
  BY <1>1 DEF Then, Command
<1>6. CASE Find
  <2>1. CASE Supervised
    BY <1>1, <1>6, <2>1 DEF Find, Command
  <2>2. CASE ~Supervised
    BY <1>5, <1>6, <2>2 DEF Find
  <2> QED
    BY <2>1, <2>2
<1>7. CASE Launch
  BY <1>1, <1>7 DEF Launch, Command, Done
<1>8. CASE Ask \/ Stops \/ KillTree \/ Sweep \/ AfterStop \/ Upgrade \/ StartLook \/ Waited
  BY <1>1, <1>5, <1>8 DEF Ask, Stops, KillTree, Sweep, AfterStop, Upgrade, StartLook, Waited, Done
<1>9. CASE CommandStep
  BY <1>6, <1>7, <1>8, <1>9 DEF CommandStep
<1> QED
  BY <1>2, <1>3, <1>4, <1>9
  DEF Next, vars, RunStep, Listens, Exits, Tick, Look, Clear, Record, InstallSignals, Spawn, Note, Await,
      Watch, Scan, StopWeb, StopBackend, Cleanup, Dies

(* A step that counts no restart.                                          *)
Uncounted ==
  /\ runs' \in [Runs -> Run]
  /\ \A r \in Runs : SameCounts(r) /\ (Ending(r) => Ending(r)')

LEMMA ChangesUncounted ==
  ASSUME NEW r \in Runs, Changes(r), SameCounts(r), Ending(r) => Ending(r)'
  PROVE  Uncounted
BY DEF Changes, SameCounts, Ending, Uncounted

LEMMA GoesUncounted ==
  ASSUME TypedRuns, NEW r \in Runs, NEW step \in Steps, Goes(r, step),
         Ending(r) => step \in {"stop web", "stop backend", "cleanup", "gone"}
  PROVE  Uncounted
<1>1. GoesOn(r, step)
  BY GoesIs
<1> QED
  BY <1>1, ChangesUncounted DEF GoesOn, Ending

LEMMA RunUncounted ==
  ASSUME TypedRuns, NEW r \in Runs,
         \/ Look(r) \/ Clear(r) \/ Record(r) \/ InstallSignals(r) \/ Spawn(r) \/ Note(r) \/ Await(r)
         \/ Watch(r) \/ StopWeb(r) \/ StopBackend(r) \/ Cleanup(r) \/ Dies(r)
  PROVE  Uncounted
<1>1. \A step \in Steps : Goes(r, step) /\ ~Ending(r) => Uncounted
  BY GoesUncounted
<1>2. CASE Look(r) \/ Clear(r) \/ Record(r) \/ InstallSignals(r) \/ Note(r) \/ Watch(r)
  BY <1>1, <1>2 DEF Look, Clear, Record, InstallSignals, Note, Watch, Ends, Ending, Steps
<1>3. CASE Spawn(r)
  <2>1. Changes(r) /\ SameCounts(r) /\ ~Ending(r)
    BY <1>3, SpawnIs DEF GoesOn, Spawn, Ending
  <2> QED
    BY <2>1, ChangesUncounted
<1>4. CASE Await(r)
  <2>1. ~Ending(r)
    BY <1>4 DEF Await, Ending
  <2>2. Ends(r) \/ runs' = [runs EXCEPT ![r] = Healthy(r)]
    BY <1>4 DEF Await
  <2>3. CASE Ends(r)
    BY <1>1, <2>1, <2>3 DEF Ends, Steps
  <2>4. CASE runs' = [runs EXCEPT ![r] = Healthy(r)]
    <3>1. MovesOn(r)
      BY <2>4, HealthyIs
    <3> QED
      BY <2>1, <3>1, ChangesUncounted DEF MovesOn
  <2> QED
    BY <2>2, <2>3, <2>4
<1>5. CASE StopWeb(r) \/ StopBackend(r) \/ Cleanup(r) \/ Dies(r)
  BY <1>5, GoesUncounted DEF StopWeb, StopBackend, Cleanup, Dies, Steps
<1> QED
  BY <1>2, <1>3, <1>4, <1>5

LEMMA OthersUncounted ==
  ASSUME Typed, Begin \/ CommandStep \/ Autostart \/ Listens \/ Exits \/ Tick \/ UNCHANGED vars
  PROVE  Uncounted
<1>1. TypedRuns /\ command.target \in Runs \cup {Nobody}
  BY DEF Typed, TypedRuns, Command
<1>2. CASE UNCHANGED runs
  BY <1>1, <1>2 DEF Uncounted, SameCounts, Ending, TypedRuns
<1>3. CASE Autostart
  BY <1>1, <1>3, GoesUncounted DEF Autostart, Ending, Steps
<1>4. CASE Launch
  <2>1. UNCHANGED runs \/ \E r \in Runs : Goes(r, "look") /\ runs[r].step = "none"
    BY <1>4 DEF Launch
  <2> QED
    BY <1>1, <1>2, <2>1, GoesUncounted DEF Ending, Steps
<1>5. CASE KillTree
  <2>1. command.target \in Runs /\ Goes(command.target, "gone")
    BY <1>1, <1>5 DEF KillTree, Alive
  <2>2. PICK r \in Runs : Goes(r, "gone")
    BY <2>1
  <2> QED
    BY <1>1, <2>2, GoesUncounted DEF Steps
<1>6. CASE Ask
  <2>1. PICK r : r = command.target
    OBVIOUS
  <2>2. UNCHANGED runs \/ (r \in Runs /\ SameCounts(r) /\ Changes(r)
          /\ runs'[r].step = IF runs[r].step = "signals" THEN "gone" ELSE runs[r].step)
    BY <1>1, <1>6, <2>1, AskIs
  <2> QED
    BY <1>2, <2>2, ChangesUncounted DEF Ending
<1> QED
  BY <1>2, <1>3, <1>4, <1>5, <1>6
  DEF Begin, CommandStep, Find, Stops, Sweep, AfterStop, Upgrade, StartLook, Waited, Listens, Exits,
      Tick, vars

LEMMA CountsStay ==
  ASSUME Typed, Counting, Uncounted, now' \in 0..LastTime, now <= now'
  PROVE  Counting'
<1>1. ASSUME NEW r \in Runs, NEW n \in Names
      PROVE  /\ InOrder(runs[r].restarts[n])' /\ Spaced(runs[r].restarts[n])'
             /\ (~Ending(r) => Counted(r, n))'
  <2>1. PICK times, exits : times = runs[r].restarts[n] /\ exits = runs[r].exits[n]
    OBVIOUS
  <2>2. /\ times \in Seq(0..LastTime) /\ exits \in Seq(0..LastTime)
        /\ InOrder(times) /\ Spaced(times) /\ (~Ending(r) => Counted(r, n))
    BY <2>1, RunRows DEF Typed, TypedRuns, Counting
  <2>3. runs'[r].restarts[n] = times /\ runs'[r].exits[n] = exits /\ (~Ending(r)' => ~Ending(r))
    BY <2>1 DEF Uncounted, SameCounts
  <2>4. now \in Int /\ now' \in Int /\ LastTime \in Int /\ Span \in Int
    BY Constants DEF Typed, TypeOK
  <2>5. /\ Len(times) \in Nat /\ Len(exits) \in Nat
        /\ \A i \in 1..Len(times) : times[i] \in 0..LastTime
    BY <2>2, LenProperties, ElementOfSeq
  <2>6. InOrder(times)' /\ Spaced(times)'
    BY <2>2, <2>4, <2>5 DEF InOrder, Spaced
  <2>7. Counted(r, n) => Counted(r, n)'
    <3>1. ASSUME Len(exits) <= Len(times), NEW i \in 1..(Len(times) - Len(exits)), now - times[i] >= Span
          PROVE  now' - times[i] >= Span
      <4>1. i \in 1..Len(times)
        BY <2>5, <3>1
      <4> QED
        BY <2>4, <2>5, <3>1, <4>1
    <3> QED
      BY <2>1, <2>3, <3>1 DEF Counted, LastOf
  <2> QED
    BY <2>1, <2>2, <2>3, <2>6, <2>7
<1> QED
  BY <1>1 DEF Counting

LEMMA KeptAreLast ==
  ASSUME now \in 0..LastTime, NEW times \in Seq(0..LastTime), NEW exits \in Seq(0..LastTime),
         InOrder(times), LastOf(times, exits)
  PROVE  Within(exits) \in Seq(0..LastTime) /\ LastOf(times, Within(exits))
<1>1. /\ Len(times) \in Nat /\ Len(exits) \in Nat /\ now \in Int
      /\ \A i \in 1..Len(times) : times[i] \in Int
  BY Constants, LenProperties, ElementOfSeq
<1>2. \A i, j \in 1..Len(exits) : i <= j => exits[i] <= exits[j]
  <2>1. \A i \in 1..Len(exits) : (Len(times) - Len(exits)) + i \in 1..Len(times)
    BY <1>1 DEF LastOf
  <2>2. \A i, j \in 1..Len(exits) : i <= j => (Len(times) - Len(exits)) + i <= (Len(times) - Len(exits)) + j
    BY <1>1
  <2> QED
    BY <2>1, <2>2 DEF LastOf, InOrder
<1>3. PICK kept : kept = Within(exits)
  OBVIOUS
<1>4. /\ kept \in Seq(0..LastTime)
      /\ \E k \in 0..Len(exits) : EndsAfter(exits, kept, Len(exits), k)
  <2>1. 0..LastTime \in SUBSET Int
    OBVIOUS
  <2> QED
    BY <1>1, <1>2, <1>3, <2>1, WithinIs
<1>5. PICK k \in 0..Len(exits) : EndsAfter(exits, kept, Len(exits), k)
  BY <1>4
<1>6. PICK t \in Nat, e \in Nat, d \in {Len(times) - Len(exits)} : t = Len(times) /\ e = Len(exits) /\ d = t - e
  BY <1>1
<1>7. /\ Len(kept) = e - k /\ t - (e - k) = d + k /\ d \in Nat /\ k \in Nat
      /\ \A i \in 1..(e - k) : k + i \in 1..e /\ d + (k + i) = (d + k) + i
  BY <1>5, <1>6 DEF EndsAfter, LastOf
<1>8. \A i \in 1..(e - k) : kept[i] = times[(d + k) + i]
  BY <1>5, <1>6, <1>7 DEF EndsAfter, LastOf
<1>9. \A i \in 1..(d + k) : now - times[i] >= Span
  <2> SUFFICES ASSUME NEW i \in 1..(d + k) PROVE now - times[i] >= Span
    OBVIOUS
  <2>1. CASE i \in 1..d
    BY <1>6, <2>1 DEF LastOf
  <2>2. CASE ~(i \in 1..d)
    <3>1. i - d \in 1..k /\ i - d \in 1..e /\ d + (i - d) = i
      BY <1>6, <1>7, <2>2
    <3>2. now - exits[i - d] >= Span
      BY <1>5, <1>6, <3>1 DEF EndsAfter
    <3>3. exits[i - d] = times[d + (i - d)]
      BY <1>6, <3>1 DEF LastOf
    <3> QED
      BY <3>1, <3>2, <3>3
  <2> QED
    BY <2>1, <2>2
<1> QED
  BY <1>3, <1>4, <1>6, <1>7, <1>8, <1>9 DEF LastOf

LEMMA CountOne ==
  ASSUME now \in 0..LastTime, NEW times \in Seq(0..LastTime), NEW kept \in Seq(0..LastTime),
         InOrder(times), Spaced(times), LastOf(times, kept), Len(kept) + 1 <= MaxRestarts
  PROVE  /\ InOrder(Append(times, now)) /\ Spaced(Append(times, now))
         /\ LastOf(Append(times, now), Append(kept, now))
<1>1. /\ Len(times) \in Nat /\ Len(kept) \in Nat /\ now \in Int /\ Span \in Int /\ MaxRestarts \in Int
      /\ \A i \in 1..Len(times) : times[i] \in Int
  BY Constants, LenProperties, ElementOfSeq
<1>0. PICK t \in Nat, e \in Nat : t = Len(times) /\ e = Len(kept)
  BY <1>1
<1>2. PICK more, later :
        t = Len(times) /\ e = Len(kept) /\ more = Append(times, now) /\ later = Append(kept, now)
  BY <1>0
<1>3. /\ Len(more) = t + 1 /\ more[t + 1] = now /\ \A i \in 1..t : more[i] = times[i]
      /\ Len(later) = e + 1 /\ later[e + 1] = now /\ \A i \in 1..e : later[i] = kept[i]
  BY <1>2, AppendProperties
<1>4. e <= t /\ (\A i \in 1..e : kept[i] = times[(t - e) + i]) /\ \A i \in 1..(t - e) : now - times[i] >= Span
  BY <1>2 DEF LastOf
<1>5. \A i \in 1..(t + 1) : i \in Int /\ (i \in 1..t \/ i = t + 1)
  OBVIOUS
<1>6. InOrder(more)
  <2>1. /\ \A i \in 1..t : times[i] <= now
        /\ \A i, j \in 1..t : i <= j => times[i] <= times[j]
    BY <1>2 DEF InOrder
  <2>2. \A i \in 1..(t + 1) : more[i] <= now
    BY <1>1, <1>3, <1>5, <2>1
  <2>3. \A i, j \in 1..(t + 1) : i <= j => more[i] <= more[j]
    <3> SUFFICES ASSUME NEW i \in 1..(t + 1), NEW j \in 1..(t + 1), i <= j PROVE more[i] <= more[j]
      OBVIOUS
    <3>1. CASE j = t + 1
      BY <1>3, <2>2, <3>1
    <3>2. CASE j \in 1..t
      <4>1. i \in 1..t
        BY <3>2
      <4> QED
        BY <1>3, <2>1, <3>2, <4>1
    <3> QED
      BY <1>5, <3>1, <3>2
  <2> QED
    BY <1>3, <2>2, <2>3 DEF InOrder
<1>7. Spaced(more)
  <2> SUFFICES ASSUME NEW i \in 1..(t + 1), NEW j \in 1..(t + 1), i <= j, more[j] - more[i] < Span
               PROVE  j - i < MaxRestarts
    BY <1>3 DEF Spaced
  <2>1. CASE j \in 1..t
    <3>1. i \in 1..t
      BY <2>1
    <3>2. times[j] - times[i] < Span
      BY <1>3, <2>1, <3>1
    <3> QED
      BY <1>2, <2>1, <3>1, <3>2 DEF Spaced
  <2>2. CASE j = t + 1 /\ i = t + 1
    BY <1>1, <1>2, <2>2
  <2>3. CASE j = t + 1 /\ i \in 1..t
    <3>1. now - times[i] < Span
      BY <1>3, <2>3
    <3>2. ~(i \in 1..(t - e))
      <4> SUFFICES ASSUME i \in 1..(t - e) PROVE FALSE
        OBVIOUS
      <4>1. now - times[i] >= Span
        BY <1>4
      <4>2. times[i] \in Int
        BY <1>1, <1>2, <2>3
      <4> QED
        BY <1>1, <3>1, <4>1, <4>2
    <3> QED
      BY <1>1, <1>2, <1>4, <2>3, <3>2
  <2> QED
    BY <1>5, <2>1, <2>2, <2>3
<1>8. LastOf(more, later)
  <2>1. (t + 1) - (e + 1) = t - e /\ e + 1 <= t + 1 /\ t - e \in Nat
    BY <1>4
  <2>2. \A i \in 1..(e + 1) : later[i] = more[(t - e) + i]
    <3> SUFFICES ASSUME NEW i \in 1..(e + 1) PROVE later[i] = more[(t - e) + i]
      OBVIOUS
    <3>1. CASE i = e + 1
      <4>1. (t - e) + i = t + 1
        BY <3>1
      <4> QED
        BY <1>3, <3>1, <4>1
    <3>2. CASE i \in 1..e
      <4>1. (t - e) + i \in 1..t
        BY <2>1, <3>2
      <4> QED
        BY <1>3, <1>4, <3>2, <4>1
    <3> QED
      BY <3>1, <3>2
  <2>3. \A i \in 1..(t - e) : now - more[i] >= Span
    <3>1. \A i \in 1..(t - e) : i \in 1..t
      BY <2>1
    <3> QED
      BY <1>3, <1>4, <3>1
  <2> QED
    BY <1>3, <2>1, <2>2, <2>3 DEF LastOf
<1> QED
  BY <1>2, <1>6, <1>7, <1>8

LEMMA ScanCounts ==
  ASSUME Typed, Counting, NEW r \in Runs, Scan(r)
  PROVE  Counting' /\ runs' \in [Runs -> Run]
<1>1. TypedRuns /\ now \in 0..LastTime /\ now' = now
  BY DEF Typed, TypeOK, TypedRuns, Scan
<1>2. PICK n, times, exits, kept :
        /\ n \in Names /\ n = Spec1(r) /\ times = runs[r].restarts[n] /\ exits = runs[r].exits[n]
        /\ kept = Within(exits)
  BY <1>1, SpecNames
<1>3. times \in Seq(0..LastTime) /\ exits \in Seq(0..LastTime)
  BY <1>1, <1>2, RunRows
<1>4. InOrder(times) /\ Spaced(times) /\ LastOf(times, exits)
  <2>1. ~Ending(r)
    BY DEF Scan, Ending
  <2> QED
    BY <1>2, <2>1 DEF Counting, Counted
<1>5. kept \in Seq(0..LastTime) /\ LastOf(times, kept)
  BY <1>1, <1>2, <1>3, <1>4, KeptAreLast
<1>6. PICK recent : recent = Append(kept, now)
  OBVIOUS
<1>7. recent = Recent(r, n) /\ Len(recent) = Len(kept) + 1
  BY <1>1, <1>2, <1>5, <1>6, AppendProperties DEF Recent
<1>8. \/ MovesOn(r) /\ Lives(runs[r].child[n])
      \/ /\ ~Lives(runs[r].child[n])
         /\ Changes(r) /\ SameServers(r)
         /\ runs'[r].exits = [runs[r].exits EXCEPT ![n] = recent]
         /\ \/ /\ runs'[r].step = "spawn" /\ Len(recent) <= MaxRestarts
               /\ runs'[r].restarts =
                    [runs[r].restarts EXCEPT ![n] = Append(runs[r].restarts[n], now)]
            \/ runs'[r].step = "stop web" /\ runs'[r].restarts = runs[r].restarts
  BY <1>1, <1>2, <1>5, <1>7, ScanIs
<1>9. CASE MovesOn(r)
  <2>1. ~Ending(r)
    BY DEF Scan, Ending
  <2>2. Uncounted
    BY <1>9, <2>1, ChangesUncounted DEF MovesOn
  <2> QED
    BY <1>1, <2>2, CountsStay DEF Uncounted
<1>10. CASE /\ Changes(r) /\ runs'[r].exits = [runs[r].exits EXCEPT ![n] = recent]
            /\ runs'[r].step = "stop web" /\ runs'[r].restarts = runs[r].restarts
  <2>1. \A q \in Runs : runs'[q].restarts = runs[q].restarts
    BY <1>10 DEF Changes
  <2>2. Ending(r)'
    BY <1>10 DEF Ending
  <2>3. \A q \in Runs : q # r => runs'[q] = runs[q]
    BY <1>10 DEF Changes
  <2>4. ASSUME NEW q \in Runs, NEW m \in Names
        PROVE  /\ InOrder(runs[q].restarts[m])' /\ Spaced(runs[q].restarts[m])'
               /\ (~Ending(q) => Counted(q, m))'
    <3>1. InOrder(runs[q].restarts[m]) /\ Spaced(runs[q].restarts[m]) /\ (~Ending(q) => Counted(q, m))
      BY DEF Counting
    <3>2. InOrder(runs[q].restarts[m])' /\ Spaced(runs[q].restarts[m])'
      BY <1>1, <2>1, <3>1 DEF InOrder, Spaced
    <3>3. CASE q = r
      BY <2>2, <3>2, <3>3
    <3>4. CASE q # r
      BY <1>1, <2>3, <3>1, <3>2, <3>4 DEF Ending, Counted, LastOf
    <3> QED
      BY <3>3, <3>4
  <2> QED
    BY <1>10, <2>4 DEF Counting, Changes
<1>11. CASE /\ Changes(r) /\ runs'[r].exits = [runs[r].exits EXCEPT ![n] = recent]
            /\ runs'[r].step = "spawn" /\ Len(recent) <= MaxRestarts
            /\ runs'[r].restarts = [runs[r].restarts EXCEPT ![n] = Append(runs[r].restarts[n], now)]
  <2>1. PICK more : more = Append(times, now)
    OBVIOUS
  <2>2. InOrder(more) /\ Spaced(more) /\ LastOf(more, recent)
    BY <1>1, <1>3, <1>4, <1>5, <1>6, <1>7, <1>11, <2>1, CountOne
  <2>3. InOrder(more)' /\ Spaced(more)' /\ LastOf(more, recent)'
    BY <1>1, <2>2 DEF InOrder, Spaced, LastOf
  <2>4. \A q \in Runs : q # r => runs'[q] = runs[q]
    BY <1>11 DEF Changes
  <2>5. /\ runs'[r].exits[n] = recent /\ runs'[r].restarts[n] = more
        /\ \A m \in Names : m # n => /\ runs'[r].exits[m] = runs[r].exits[m]
                                     /\ runs'[r].restarts[m] = runs[r].restarts[m]
    BY <1>1, <1>2, <1>11, <2>1, RunRows
  <2>6. ~Ending(r)
    BY DEF Scan, Ending
  <2>7. ASSUME NEW q \in Runs, NEW m \in Names
        PROVE  /\ InOrder(runs[q].restarts[m])' /\ Spaced(runs[q].restarts[m])'
               /\ (~Ending(q) => Counted(q, m))'
    <3>1. InOrder(runs[q].restarts[m]) /\ Spaced(runs[q].restarts[m]) /\ (~Ending(q) => Counted(q, m))
      BY DEF Counting
    <3>2. CASE q = r /\ m = n
      BY <1>11, <2>3, <2>5, <3>2 DEF Counted, LastOf
    <3>3. CASE q = r /\ m # n
      BY <1>1, <2>5, <2>6, <3>1, <3>3 DEF InOrder, Spaced, Counted, LastOf
    <3>4. CASE q # r
      BY <1>1, <2>4, <3>1, <3>4 DEF InOrder, Spaced, Ending, Counted, LastOf
    <3> QED
      BY <3>2, <3>3, <3>4
  <2> QED
    BY <1>11, <2>7 DEF Counting, Changes
<1> QED
  BY <1>8, <1>9, <1>10, <1>11

LEMMA TypedNext ==
  ASSUME Typed, Counting, [Next]_vars
  PROVE  Typed' /\ Counting'
<1>1. TypedRuns /\ now \in 0..LastTime /\ LastTime \in Nat
  BY Constants DEF Typed, TypeOK, TypedRuns
<1>2. now' \in 0..LastTime /\ now <= now'
  <2>1. CASE Tick
    BY <1>1, <2>1 DEF Tick
  <2>2. CASE UNCHANGED now
    BY <1>1, <2>2
  <2> QED
    BY <2>1, <2>2
    DEF Next, vars, RunStep, Begin, CommandStep, Find, Ask, Stops, KillTree, Sweep, AfterStop, Upgrade,
        StartLook, Launch, Waited, Autostart, Listens, Exits, Look, Clear, Record, InstallSignals,
        Spawn, Note, Await, Watch, Scan, StopWeb, StopBackend, Cleanup, Dies
<1>3. (\E r \in Runs : Scan(r)) \/ Uncounted
  BY <1>1, RunUncounted, OthersUncounted DEF Next, RunStep
<1>4. Counting' /\ runs' \in [Runs -> Run]
  BY <1>2, <1>3, ScanCounts, CountsStay DEF Uncounted
<1>5. servers' \in [Servers -> Server] /\ files' \in Folder /\ command' \in Command
  BY ServersTyped, FilesTyped, CommandTyped
<1> QED
  BY <1>2, <1>4, <1>5 DEF Typed, TypeOK

LEMMA TypedInit == Init => Typed /\ Counting
<1> SUFFICES ASSUME Init PROVE Typed /\ Counting
  OBVIOUS
<1>1. <<>> \in Seq(0..LastTime) /\ Len(<<>>) = 0
  BY EmptySeq
<1>2. 1 \in 1..2
  OBVIOUS
<1>3. NewRun \in Run
  BY <1>1, <1>2 DEF NewRun, Run
<1>4. NoServer \in Server
  BY DEF NoServer, Server, Names
<1>5. EmptyFolder \in Folder /\ Idle \in Command /\ 0 \in 0..LastTime
  BY Constants DEF EmptyFolder, Folder, Idle, Command
<1>6. Typed
  BY <1>3, <1>4, <1>5 DEF Init, Typed, TypeOK
<1>7. ASSUME NEW r \in Runs, NEW n \in Names
      PROVE  InOrder(runs[r].restarts[n]) /\ Spaced(runs[r].restarts[n]) /\ Counted(r, n)
  <2>1. runs[r].restarts[n] = <<>> /\ runs[r].exits[n] = <<>>
    BY DEF Init, NewRun
  <2> QED
    BY <1>1, <2>1, Constants DEF InOrder, Spaced, Counted, LastOf
<1> QED
  BY <1>6, <1>7 DEF Counting

(* Every state is typed and counts the restarts of every server so that    *)
(* those still in hand are the last ones.                                  *)
THEOREM Invariance == Spec => [](Typed /\ Counting)
<1>1. Init => Typed /\ Counting
  BY TypedInit
<1>2. Typed /\ Counting /\ [Next]_vars => (Typed /\ Counting)'
  BY TypedNext
<1> QED
  BY <1>1, <1>2, PTL DEF Spec

(* TypeOK holds on every timing.                                           *)
THEOREM TypeCorrect == Spec => []TypeOK
<1>1. Typed /\ Counting => TypeOK
  BY DEF Typed
<1> QED
  BY <1>1, Invariance, PTL

(* A server that keeps falling is not restarted for ever: at most          *)
(* max_restarts times in any span of restart_window, for any limit, any    *)
(* window and every timing (supervisor.py, _may_restart).                  *)
THEOREM RestartsStayBounded == Spec => []RestartsAreBounded
<1>1. Typed /\ Counting => RestartsAreBounded
  <2> SUFFICES ASSUME Typed, Counting, NEW r \in Runs, NEW n \in Names,
                      NEW i \in DOMAIN runs[r].restarts[n], NEW j \in DOMAIN runs[r].restarts[n],
                      i <= j, runs[r].restarts[n][j] - runs[r].restarts[n][i] < Span
               PROVE  j - i < MaxRestarts
    BY DEF RestartsAreBounded
  <2>1. PICK times : times = runs[r].restarts[n]
    OBVIOUS
  <2>2. times \in Seq(0..LastTime) /\ Spaced(times)
    BY <2>1, RunRows DEF Typed, TypedRuns, Counting
  <2>3. i \in 1..Len(times) /\ j \in 1..Len(times)
    BY <2>1, <2>2, LenProperties
  <2> QED
    BY <2>1, <2>2, <2>3 DEF Spaced
<1> QED
  BY <1>1, Invariance, PTL

-----------------------------------------------------------------------------
(* Who acts, and what lives *)

(* No server starts to live, and a living one keeps its name and run.      *)
NoneStarts ==
  \A s \in Servers : Lives(s)' =>
    /\ Lives(s) /\ servers'[s].run = servers[s].run /\ servers'[s].name = servers[s].name
    /\ servers[s].state = "up" => servers'[s].state = "up"
NothingLives == \A s \in Servers : ~Lives(s)
NobodyActs == \A r \in Runs : ~Acts(r)

LEMMA KilledKeeps ==
  ASSUME servers \in [Servers -> Server], NEW S, servers' = Killed(S)
  PROVE  NoneStarts /\ \A s \in Servers : s \in S => ~Lives(s)'
<1>1. \A s \in Servers : /\ servers'[s].name = servers[s].name
                         /\ servers'[s].run = servers[s].run
                         /\ servers'[s].state = IF s \in S /\ Lives(s) THEN "dead" ELSE servers[s].state
  BY KilledIs
<1> QED
  BY <1>1 DEF NoneStarts, Lives

LEMMA SameServersKeep == ASSUME UNCHANGED servers PROVE NoneStarts
BY DEF NoneStarts, Lives

(* Who is alive acts or is early.                                          *)
LEMMA AliveActs ==
  ASSUME TypedRuns, NEW r \in Runs, Alive(r)
  PROVE  Acts(r) \/ Early(r)
BY DEF Alive, Acts, Early

LEMMA ActsAlive == ASSUME NEW r \in Runs, Acts(r) PROVE Alive(r)
BY Constants DEF Alive, Acts, Runs, Nobody

(* Unless a run is early, the record shows whether one acts.               *)
LEMMA UnsupervisedActsNot ==
  ASSUME Alone, ~Supervised, \A r \in Runs : ~Early(r)
  PROVE  NobodyActs
<1> SUFFICES ASSUME NEW r \in Runs, Acts(r) PROVE FALSE
  BY DEF NobodyActs
<1>1. files.supervisor = r
  BY DEF Alone
<1> QED
  BY <1>1, ActsAlive DEF Supervised

LEMMA RecordsKillAll ==
  ASSUME servers \in [Servers -> Server], Held, NobodyActs, servers' = Killed(Recorded)
  PROVE  NothingLives'
<1>1. \A s \in Servers : Lives(s) => s \in Recorded
  BY DEF Held, NobodyActs
<1>2. \A s \in Servers : Lives(s)' => Lives(s)
  BY KilledKeeps DEF NoneStarts
<1>3. \A s \in Servers : s \in Recorded => ~Lives(s)'
  BY KilledKeeps
<1> QED
  BY <1>1, <1>2, <1>3 DEF NothingLives

LEMMA NothingListens ==
  ASSUME servers \in [Servers -> Server], Held, NobodyActs, PortsFree
  PROVE  NothingLives
<1> SUFFICES ASSUME NEW s \in Servers, Lives(s) PROVE FALSE
  BY DEF NothingLives
<1>1. servers[s].state = "up" /\ servers[s].name \in Names
  BY DEF Held, NobodyActs, Server
<1> QED
  BY <1>1 DEF PortsFree, Up

-----------------------------------------------------------------------------
(* What a step leaves as it was *)

(* A run that does not act makes the progress that its row shows.          *)
LEMMA RowProgress ==
  ASSUME NEW q \in Runs, Progress(q), ~Acts(q), runs'[q] = runs[q]
  PROVE  Progress(q)'
<1>1. runs[q].step \in {"none", "look", "gone"}
  BY DEF Acts
<1> QED
  BY <1>1 DEF Progress, Fresh

LEMMA SameProgress ==
  ASSUME TypedRuns, NEW q \in Runs, Progress(q), NoneStarts, files'.server = files.server,
         SameServers(q), runs'[q].step = runs[q].step
  PROVE  Progress(q)'
<1>1. PICK child, n : child = runs[q].child /\ n = Spec1(q)
  OBVIOUS
<1>2. runs'[q].child = child /\ Spec1(q)' = n
  BY <1>1 DEF SameServers, Spec1
<1>3. \A m \in Names : child[m] \in Servers \cup {Nobody}
  BY <1>1, RunRows
<1>4. \A m \in Names : Lives(child[m])' => Lives(child[m])
  BY <1>3 DEF NoneStarts, Lives
<1>5. n \in Names /\ "web" \in Names /\ "backend" \in Names
  BY <1>1, SpecNames DEF Names
<1>6. \A m : Noted(q, m)' = Noted(q, m)
  BY <1>1, <1>2 DEF Noted, SameServers
<1>7. Fresh(q)' = Fresh(q)
  BY DEF Fresh, SameServers
<1>8. /\ Lives(runs[q].child[Spec1(q)])' = Lives(child[n])'
      /\ Lives(runs[q].child["web"])' = Lives(child["web"])'
      /\ Lives(runs[q].child["backend"])' = Lives(child["backend"])'
  BY <1>2 DEF Lives
<1> QED
  BY <1>1, <1>2, <1>4, <1>5, <1>6, <1>7, <1>8 DEF Progress, SameServers

(* While the row of the run that acts keeps its servers, what lives is     *)
(* still held by it.                                                       *)
LEMMA StillHeld ==
  ASSUME TypedRuns, Alone, Held, NoneStarts, NEW r \in Runs, Acts(r), Changes(r),
         Acts(r)', runs'[r].child = runs[r].child
  PROVE  Held'
<1>1. ASSUME NEW s \in Servers, Lives(s)'
      PROVE  servers'[s].run = r /\ runs'[r].child[servers'[s].name] = s
  <2>1. Lives(s) /\ servers'[s].run = servers[s].run /\ servers'[s].name = servers[s].name
    BY <1>1 DEF NoneStarts
  <2>2. PICK q \in Runs : Acts(q) /\ servers[s].run = q /\ runs[q].child[servers[s].name] = s
    BY <2>1 DEF Held
  <2>3. q = r
    BY <2>2 DEF Alone
  <2> QED
    BY <2>1, <2>2, <2>3
<1> QED
  BY <1>1 DEF Held

LEMMA NothingHeld == ASSUME NothingLives' PROVE Held'
BY DEF Held, NothingLives

LEMMA NothingStarts == ASSUME NothingLives, NoneStarts PROVE NothingLives'
BY DEF NothingLives, NoneStarts

(* A step of a run that is alive leaves the commands as they are.          *)
LEMMA RunKeepsCommands ==
  ASSUME Commands, NEW r \in Runs, Alive(r), Changes(r), UNCHANGED command,
         Early(r)' => Early(r)
  PROVE  Commands'
<1>1. \A q \in Runs : (Early(q)' => Early(q)) /\ (Alive(q)' => Alive(q))
  BY DEF Changes, Early, Alive
<1>2. ~(At("stopped") /\ command.quiet)
  BY DEF Commands, StoppedMeansStopped
<1> QED
  BY <1>1, <1>2 DEF Commands, StoppedMeansStopped, At

(* The steps of servers and of time do too.                                *)
LEMMA SameCommands ==
  ASSUME Commands, UNCHANGED <<runs, command>>, NoneStarts
  PROVE  Commands'
BY DEF Commands, StoppedMeansStopped, At, Alive, Early, NoneStarts

LEMMA SameAlone ==
  ASSUME Alone, NEW r \in Runs, Changes(r), files'.supervisor = files.supervisor,
         Acts(r)' => Acts(r), Early(r)' => Early(r), runs'[r].step = "none" => runs[r].step = "none",
         Acts(r)' /\ ~Early(r)' => ~Early(r)
  PROVE  Alone'
<1>1. \A q \in Runs : q # r => (Acts(q)' = Acts(q)) /\ (Early(q)' = Early(q)) /\ runs'[q].step = runs[q].step
  BY DEF Changes, Acts, Early
<1> QED
  BY <1>1 DEF Alone

-----------------------------------------------------------------------------
(* The steps of a run *)

Sound == Alone /\ Commands /\ (\A r \in Runs : Progress(r)) /\ Held

LEMMA Parts ==
  ASSUME IInv
  PROVE  /\ Typed /\ TypedRuns /\ servers \in [Servers -> Server] /\ files \in Folder
         /\ Sound /\ Alone /\ Commands /\ Held
         /\ \A r \in Runs : Progress(r)
BY DEF IInv, Typed, TypeOK, TypedRuns, Sound

(* Only the run that acts has progress to make.                            *)
LEMMA OthersProgress ==
  ASSUME IInv, NEW r \in Runs, Acts(r), Changes(r), Progress(r)'
  PROVE  \A q \in Runs : Progress(q)'
<1>1. \A q \in Runs : q # r => ~Acts(q) /\ runs'[q] = runs[q]
  BY Parts DEF Alone, Changes
<1> QED
  BY <1>1, Parts, RowProgress

LEMMA LookSound ==
  ASSUME IInv, NEW r \in Runs, Look(r)
  PROVE  Sound'
<1>1. UNCHANGED <<now, servers, files, command>> /\ runs[r].step = "look"
  BY DEF Look
<1>2. PICK step \in {"clear", "gone"} : Goes(r, step) /\ (step = "clear" => MayRun(r))
  BY DEF Look
<1>3. GoesOn(r, step)
  BY <1>2, Parts, GoesIs DEF Steps
<1>4. Changes(r) /\ runs'[r].step = step /\ NoneStarts
  BY <1>1, <1>3, SameServersKeep DEF GoesOn
<1>5. Alive(r) /\ Early(r) /\ ~Acts(r)
  BY <1>1, Constants DEF Alive, Early, Acts, Runs, Nobody
<1>6. Commands'
  BY <1>1, <1>4, <1>5, Parts, RunKeepsCommands
<1>7. \A q \in Runs : q # r => runs'[q] = runs[q]
  BY <1>4 DEF Changes
<1>8. Progress(r)'
  <2>1. Fresh(r) /\ (Fresh(r)' = Fresh(r))
    BY <1>1, <1>3, Parts DEF Progress, Fresh, GoesOn, SameServers
  <2>2. runs'[r].child["web"] = Nobody
    BY <2>1 DEF Fresh, Names
  <2> QED
    BY <1>2, <1>4, <2>1, <2>2 DEF Progress
<1>9. CASE step = "gone"
  <2>1. Alone'
    BY <1>1, <1>4, <1>5, <1>9, Parts, SameAlone DEF Acts, Early
  <2>2. \A q \in Runs : Acts(q)' = Acts(q)
    BY <1>4, <1>5, <1>7, <1>9 DEF Acts
  <2>3. Held'
    BY <1>1, <1>5, <1>7, <2>2, Parts DEF Held, Lives, Recorded
  <2>4. \A q \in Runs : Progress(q)'
    <3> SUFFICES ASSUME NEW q \in Runs, q # r PROVE Progress(q)'
      BY <1>8
    <3>1. SameServers(q) /\ runs'[q].step = runs[q].step
      BY <1>7 DEF SameServers
    <3> QED
      BY <1>1, <1>4, <3>1, Parts, SameProgress
  <2> QED
    BY <1>6, <2>1, <2>3, <2>4 DEF Sound
<1>10. CASE step = "clear"
  <2>1. NobodyActs
    <3> SUFFICES ASSUME NEW q \in Runs, Acts(q) PROVE FALSE
      BY DEF NobodyActs
    <3>1. CASE Early(q)
      BY <1>5, <3>1, Parts DEF Alone
    <3>2. CASE ~Early(q)
      <4>1. files.supervisor = q /\ Alive(q)
        BY <3>2, Parts, ActsAlive DEF Alone
      <4> QED
        BY <1>2, <1>10, <4>1 DEF MayRun, Supervised
    <3> QED
      BY <3>1, <3>2
  <2>2. NothingLives
    BY <1>2, <1>10, <2>1, Parts, NothingListens DEF MayRun
  <2>3. Held'
    BY <1>4, <2>2, NothingStarts, NothingHeld
  <2>4. Alone'
    BY <1>1, <1>4, <1>5, <1>7, <1>10, <2>1, Parts DEF Alone, NobodyActs, Acts, Early
  <2>5. \A q \in Runs : Progress(q)'
    BY <1>7, <1>8, <2>1, Parts, RowProgress DEF NobodyActs
  <2> QED
    BY <1>6, <2>3, <2>4, <2>5 DEF Sound
<1> QED
  BY <1>9, <1>10

LEMMA ClearSound ==
  ASSUME IInv, NEW r \in Runs, Clear(r)
  PROVE  Sound'
<1>1. /\ UNCHANGED <<now, servers, command>> /\ runs[r].step = "clear"
      /\ files'.supervisor = files.supervisor /\ files'.server = files.server
  BY Parts DEF Clear, Folder
<1>2. GoesOn(r, "record")
  BY Parts, GoesIs DEF Clear, Steps
<1>3. /\ Changes(r) /\ runs'[r].step = "record" /\ NoneStarts /\ SameServers(r)
      /\ runs'[r].child = runs[r].child
  BY <1>1, <1>2, SameServersKeep DEF GoesOn, SameServers
<1>4. Alive(r) /\ Early(r) /\ Acts(r) /\ Acts(r)' /\ Early(r)'
  BY <1>1, <1>3, Constants DEF Alive, Early, Acts, Runs, Nobody
<1>5. Commands'
  BY <1>1, <1>3, <1>4, Parts, RunKeepsCommands
<1>6. Held'
  BY <1>3, <1>4, Parts, StillHeld
<1>7. Alone'
  BY <1>1, <1>3, <1>4, Parts, SameAlone
<1>8. Progress(r)'
  BY <1>1, <1>3, Parts DEF Progress, Fresh, SameServers
<1> QED
  BY <1>3, <1>4, <1>5, <1>6, <1>7, <1>8, OthersProgress DEF Sound

LEMMA RecordSound ==
  ASSUME IInv, NEW r \in Runs, Record(r)
  PROVE  Sound'
<1>1. /\ UNCHANGED <<now, servers, command>> /\ runs[r].step = "record"
      /\ files'.supervisor = r /\ files'.server = files.server
  BY Parts DEF Record, Folder
<1>2. GoesOn(r, "signals")
  BY Parts, GoesIs DEF Record, Steps
<1>3. /\ Changes(r) /\ runs'[r].step = "signals" /\ NoneStarts /\ SameServers(r)
      /\ runs'[r].child = runs[r].child
  BY <1>1, <1>2, SameServersKeep DEF GoesOn, SameServers
<1>4. Alive(r) /\ Early(r) /\ Acts(r) /\ Acts(r)' /\ ~Early(r)'
  BY <1>1, <1>3, Constants DEF Alive, Early, Acts, Runs, Nobody
<1>5. Commands'
  BY <1>1, <1>3, <1>4, Parts, RunKeepsCommands
<1>6. Held'
  BY <1>3, <1>4, Parts, StillHeld
<1>7. Alone'
  <2>1. \A q \in Runs : q # r => runs'[q] = runs[q]
    BY <1>3 DEF Changes
  <2> QED
    BY <1>1, <1>3, <1>4, <2>1, Parts DEF Alone, Acts, Early
<1>8. Progress(r)'
  BY <1>1, <1>3, Parts DEF Progress, Fresh, SameServers
<1> QED
  BY <1>3, <1>4, <1>5, <1>6, <1>7, <1>8, OthersProgress DEF Sound

(* A step of the run that acts, after which it still does.                 *)
LEMMA ActingSound ==
  ASSUME IInv, NEW r \in Runs, Changes(r), NoneStarts, UNCHANGED command,
         files'.supervisor = files.supervisor, runs'[r].child = runs[r].child,
         Acts(r), ~Early(r), Acts(r)', ~Early(r)', Progress(r)'
  PROVE  Sound'
<1>1. runs'[r].step # "none"
  BY DEF Acts
<1>2. Alone'
  BY <1>1, Parts, SameAlone
<1>3. Commands'
  BY Parts, ActsAlive, RunKeepsCommands
<1>4. Held'
  BY Parts, StillHeld
<1>5. \A q \in Runs : Progress(q)'
  BY OthersProgress
<1> QED
  BY <1>2, <1>3, <1>4, <1>5 DEF Sound

LEMMA InstallSignalsSound ==
  ASSUME IInv, NEW r \in Runs, InstallSignals(r)
  PROVE  Sound'
<1>1. UNCHANGED <<now, servers, files, command>> /\ runs[r].step = "signals"
  BY DEF InstallSignals
<1>2. GoesOn(r, "spawn")
  BY Parts, GoesIs DEF InstallSignals, Steps
<1>3. /\ Changes(r) /\ runs'[r].step = "spawn" /\ NoneStarts /\ SameServers(r)
      /\ runs'[r].child = runs[r].child
  BY <1>1, <1>2, SameServersKeep DEF GoesOn, SameServers
<1>4. Acts(r) /\ ~Early(r) /\ Acts(r)' /\ ~Early(r)'
  BY <1>1, <1>3 DEF Early, Acts
<1>5. Progress(r)'
  <2>1. Fresh(r) /\ Fresh(r)'
    BY <1>1, <1>3, Parts DEF Progress, Fresh, SameServers
  <2>2. /\ runs'[r].starting /\ runs'[r].at = 1 /\ runs'[r].child["web"] = Nobody
        /\ runs'[r].child[Spec1(r)'] = Nobody
    <3>1. Spec1(r)' = Spec1(r) /\ Spec1(r) \in Names
      BY <1>3, Parts, SpecNames DEF Spec1, SameServers
    <3> QED
      BY <2>1, <3>1 DEF Fresh, Names
  <2>3. ~Lives(runs[r].child[Spec1(r)])'
    BY <2>2 DEF Lives
  <2>4. \A n \in Names : ~Noted(r, n)'
    BY <1>3, <2>2 DEF Noted
  <2> QED
    BY <1>3, <2>1, <2>2, <2>3, <2>4 DEF Progress
<1> QED
  BY <1>1, <1>3, <1>4, <1>5, ActingSound

(* It ends: what its servers are no longer matters.                        *)
LEMMA EndsSound ==
  ASSUME IInv, NEW r \in Runs, GoesOn(r, "stop web"), UNCHANGED <<servers, files, command>>,
         Acts(r), ~Early(r)
  PROVE  Sound'
<1>1. /\ Changes(r) /\ runs'[r].step = "stop web" /\ NoneStarts /\ SameServers(r)
      /\ runs'[r].child = runs[r].child
  BY SameServersKeep DEF GoesOn, SameServers
<1>2. Acts(r)' /\ ~Early(r)'
  BY <1>1 DEF Early, Acts
<1>3. Progress(r)'
  BY <1>1, Parts DEF Progress, SameServers
<1> QED
  BY <1>1, <1>2, <1>3, ActingSound

(* The servers that a run has noted, while their records stay.             *)
LEMMA SameNotes ==
  ASSUME IInv, NEW r \in Runs, runs'[r].child = runs[r].child, files'.server = files.server,
         runs[r].step \in {"spawn", "note", "await", "watch", "scan"},
         \A n \in Names : Noted(r, n)' => Noted(r, n)
  PROVE  \A n \in Names : Noted(r, n)' => files'.server[n] = runs'[r].child[n]
BY Parts DEF Progress

LEMMA WatchSound ==
  ASSUME IInv, NEW r \in Runs, Watch(r)
  PROVE  Sound'
<1>1. UNCHANGED <<now, servers, files, command>> /\ runs[r].step = "watch"
  BY DEF Watch
<1>2. Acts(r) /\ ~Early(r)
  BY <1>1 DEF Acts, Early
<1>3. CASE Ends(r)
  <2>1. GoesOn(r, "stop web")
    BY <1>3, Parts, GoesIs DEF Ends, Steps
  <2> QED
    BY <1>1, <1>2, <2>1, EndsSound
<1>4. CASE Goes(r, "scan")
  <2>1. GoesOn(r, "scan")
    BY <1>4, Parts, GoesIs DEF Steps
  <2>2. /\ Changes(r) /\ runs'[r].step = "scan" /\ NoneStarts /\ SameServers(r)
        /\ runs'[r].child = runs[r].child
    BY <1>1, <2>1, SameServersKeep DEF GoesOn, SameServers
  <2>3. Acts(r)' /\ ~Early(r)'
    BY <2>2 DEF Early, Acts
  <2>4. \A n \in Names : Noted(r, n)' => files'.server[n] = runs'[r].child[n]
    <3>1. \A n \in Names : Noted(r, n)' => Noted(r, n)
      BY <1>1, <2>2, Parts DEF Noted, SameServers, Progress
    <3> QED
      BY <1>1, <2>2, <3>1, SameNotes
  <2>5. Progress(r)'
    BY <1>1, <2>2, <2>4, Parts DEF Progress, SameServers
  <2> QED
    BY <1>1, <1>2, <2>2, <2>3, <2>5, ActingSound
<1> QED
  BY <1>3, <1>4 DEF Watch

LEMMA NoteSound ==
  ASSUME IInv, NEW r \in Runs, Note(r)
  PROVE  Sound'
<1>1. PICK n : n = Spec1(r)
  OBVIOUS
<1>2. /\ UNCHANGED <<now, servers, command>> /\ runs[r].step = "note"
      /\ files' = [files EXCEPT !.server[n] = runs[r].child[n]]
  BY <1>1 DEF Note
<1>3. n \in Names /\ (runs[r].at = 1 => n = "backend") /\ (runs[r].at = 2 => n = "web")
  BY <1>1, Parts, SpecNames
<1>4. /\ files'.supervisor = files.supervisor /\ files'.server[n] = runs[r].child[n]
      /\ \A m \in Names : m # n => files'.server[m] = files.server[m]
  BY <1>2, <1>3, Parts DEF Folder
<1>5. GoesOn(r, "await")
  BY Parts, GoesIs DEF Note, Steps
<1>6. /\ Changes(r) /\ runs'[r].step = "await" /\ NoneStarts /\ SameServers(r)
      /\ runs'[r].child = runs[r].child
  BY <1>2, <1>5, SameServersKeep DEF GoesOn, SameServers
<1>7. Acts(r) /\ ~Early(r) /\ Acts(r)' /\ ~Early(r)'
  BY <1>2, <1>6 DEF Early, Acts
<1>8. \A m \in Names : Noted(r, m)' => files'.server[m] = runs'[r].child[m]
  <2>1. \A m \in Names : m # n /\ Noted(r, m)' => Noted(r, m)
    BY <1>1, <1>2, <1>6 DEF Noted, SameServers, Spec1
  <2>2. \A m \in Names : Noted(r, m) => files.server[m] = runs[r].child[m]
    BY <1>2, Parts DEF Progress
  <2> QED
    BY <1>4, <1>6, <2>1, <2>2
<1>9. Progress(r)'
  BY <1>2, <1>6, <1>8, Parts DEF Progress, SameServers
<1> QED
  BY <1>2, <1>4, <1>6, <1>7, <1>9, ActingSound

LEMMA AwaitSound ==
  ASSUME IInv, NEW r \in Runs, Await(r)
  PROVE  Sound'
<1>1. UNCHANGED <<now, servers, command>> /\ runs[r].step = "await"
  BY DEF Await
<1>2. Acts(r) /\ ~Early(r)
  BY <1>1 DEF Acts, Early
<1>3. CASE Ends(r) /\ UNCHANGED files
  <2>1. GoesOn(r, "stop web")
    BY <1>3, Parts, GoesIs DEF Ends, Steps
  <2> QED
    BY <1>1, <1>2, <1>3, <2>1, EndsSound
<1>4. CASE /\ runs' = [runs EXCEPT ![r] = Healthy(r)]
           /\ files' = IF runs[r].starting /\ runs[r].at = 2 THEN [files EXCEPT !.ready = r] ELSE files
  <2>1. MovesOn(r)
    BY <1>4, Parts, HealthyIs
  <2>2. files'.supervisor = files.supervisor /\ files'.server = files.server
    BY <1>4, Parts DEF Folder
  <2>3. Changes(r) /\ NoneStarts /\ runs'[r].child = runs[r].child
    BY <1>1, <2>1, SameServersKeep DEF MovesOn
  <2>4. /\ runs[r].at = 1 \/ runs[r].at = 2
        /\ runs[r].starting \in BOOLEAN
    BY Parts, RunRows
  <2>5. Acts(r)' /\ ~Early(r)'
    BY <2>1, <2>4 DEF Early, Acts, MovesOn
  <2>6. (runs[r].at = 1 => Spec1(r) = "backend") /\ (runs[r].at = 2 => Spec1(r) = "web")
    BY Parts, SpecNames
  <2>7. \A n \in Names : Noted(r, n)' => files'.server[n] = runs'[r].child[n]
    <3>1. \A n \in Names : Noted(r, n)' => Noted(r, n)
      BY <1>1, <2>1, <2>4, <2>6 DEF MovesOn, Noted, Names
    <3> QED
      BY <1>1, <2>2, <2>3, <3>1, SameNotes
  <2>8. Progress(r)'
    <3>1. CASE runs[r].at = 2
      <4>1. runs'[r].step = "watch" /\ ~runs'[r].starting
        BY <2>1, <3>1 DEF MovesOn
      <4> QED
        BY <2>7, <4>1 DEF Progress
    <3>2. CASE runs[r].at = 1 /\ ~runs[r].starting
      <4>1. runs'[r].step = "scan" /\ ~runs'[r].starting
        BY <2>1, <3>2 DEF MovesOn
      <4> QED
        BY <2>7, <4>1 DEF Progress
    <3>3. CASE runs[r].at = 1 /\ runs[r].starting
      <4>1. runs'[r].child["web"] = Nobody
        BY <2>3, <3>3, Parts DEF Progress
      <4>2. Spec1(r)' = "web"
        BY <2>1, <3>3 DEF MovesOn, Spec1, Specs
      <4>3. ~Lives(runs[r].child[Spec1(r)])'
        BY <4>1, <4>2 DEF Lives
      <4>4. runs'[r].step = "spawn" /\ runs'[r].at # 1
        BY <2>1, <3>3 DEF MovesOn
      <4> QED
        BY <2>7, <4>3, <4>4 DEF Progress
    <3> QED
      BY <2>4, <3>1, <3>2, <3>3
  <2> QED
    BY <1>1, <1>2, <2>2, <2>3, <2>5, <2>8, ActingSound
<1> QED
  BY <1>3, <1>4 DEF Await

LEMMA ScanSound ==
  ASSUME IInv, Counting, NEW r \in Runs, Scan(r)
  PROVE  Sound'
<1>1. UNCHANGED <<now, servers, files, command>> /\ runs[r].step = "scan" /\ ~runs[r].starting
  BY Parts DEF Scan, Progress
<1>2. Acts(r) /\ ~Early(r)
  BY <1>1 DEF Acts, Early
<1>3. PICK n \in Names : n = Spec1(r)
  BY Parts, SpecNames
<1>4. now \in 0..LastTime /\ Within(runs[r].exits[n]) \in Seq(0..LastTime)
  <2>1. now \in 0..LastTime
    BY Parts DEF Typed, TypeOK
  <2>2. runs[r].restarts[n] \in Seq(0..LastTime) /\ runs[r].exits[n] \in Seq(0..LastTime)
    BY Parts, RunRows
  <2>3. InOrder(runs[r].restarts[n]) /\ LastOf(runs[r].restarts[n], runs[r].exits[n])
    BY <1>1 DEF Counting, Counted, Ending
  <2> QED
    BY <2>1, <2>2, <2>3, KeptAreLast
<1>5. \/ MovesOn(r)
      \/ Changes(r) /\ SameServers(r) /\ runs'[r].step = "stop web"
      \/ Changes(r) /\ SameServers(r) /\ runs'[r].step = "spawn" /\ ~Lives(runs[r].child[n])
  BY <1>3, <1>4, Parts, ScanIs
<1>6. runs[r].at = 1 \/ runs[r].at = 2
  BY Parts, RunRows
<1>7. /\ Changes(r) /\ NoneStarts /\ runs'[r].child = runs[r].child
      /\ Acts(r)' /\ ~Early(r)' /\ ~runs'[r].starting
      /\ runs'[r].step \in {"watch", "scan", "spawn", "stop web"}
  BY <1>1, <1>5, <1>6, SameServersKeep DEF MovesOn, SameServers, Acts, Early
<1>8. \A m \in Names : Noted(r, m)' => files'.server[m] = runs'[r].child[m]
  <2>1. \A m \in Names : Noted(r, m)
    BY <1>1 DEF Noted
  <2> QED
    BY <1>1, <1>7, <2>1, SameNotes
<1>9. runs'[r].step = "spawn" => ~Lives(runs[r].child[Spec1(r)])'
  <2> SUFFICES ASSUME runs'[r].step = "spawn" PROVE ~Lives(runs[r].child[Spec1(r)])'
    OBVIOUS
  <2>1. SameServers(r) /\ ~Lives(runs[r].child[n])
    BY <1>1, <1>5, <1>6 DEF MovesOn
  <2>2. Spec1(r)' = n
    BY <1>3, <2>1 DEF Spec1, SameServers
  <2> QED
    BY <1>1, <1>7, <2>1, <2>2 DEF Lives
<1>10. Progress(r)'
  BY <1>7, <1>8, <1>9 DEF Progress
<1> QED
  BY <1>1, <1>2, <1>7, <1>10, ActingSound

(* The server in a spawn's place does not live: what else the run holds    *)
(* stays where it is.                                                      *)
LEMMA SpawnSound ==
  ASSUME IInv, NEW r \in Runs, Spawn(r)
  PROVE  Sound'
<1>1. UNCHANGED <<now, files, command>> /\ runs[r].step = "spawn"
  BY DEF Spawn
<1>2. Acts(r) /\ ~Early(r)
  BY <1>1 DEF Acts, Early
<1>3. PICK n \in Names : n = Spec1(r)
  BY Parts, SpecNames
<1>4. CASE GoesOn(r, "stop web") /\ UNCHANGED servers
  BY <1>1, <1>2, <1>4, EndsSound
<1>5. ASSUME NEW s \in Servers, servers[s].state = "none",
             servers' = [servers EXCEPT ![s] = [name |-> n, run |-> r, state |-> "starting"]],
             Changes(r), runs'[r].step = "note",
             runs'[r].at = runs[r].at, runs'[r].starting = runs[r].starting,
             runs'[r].child = [runs[r].child EXCEPT ![n] = s]
      PROVE  Sound'
  <2>1. Acts(r)' /\ ~Early(r)'
    BY <1>5 DEF Acts, Early
  <2>2. Alone'
    <3>1. runs'[r].step # "none" /\ files'.supervisor = files.supervisor
      BY <1>1, <1>5
    <3> QED
      BY <1>2, <1>5, <2>1, <3>1, Parts, SameAlone
  <2>3. Commands'
    BY <1>1, <1>2, <1>5, <2>1, Parts, ActsAlive, RunKeepsCommands
  <2>4. /\ runs'[r].child[n] = s
        /\ \A m \in Names : m # n => runs'[r].child[m] = runs[r].child[m]
    BY <1>3, <1>5, Parts, RunRows
  <2>5. Held'
    <3>1. ~Lives(runs[r].child[n])
      BY <1>1, <1>3, Parts DEF Progress
    <3>2. ASSUME NEW t \in Servers, t # s, Lives(t)'
          PROVE  servers'[t].run = r /\ runs'[r].child[servers'[t].name] = t
      <4>1. servers'[t] = servers[t] /\ servers[t].name \in Names
        BY <1>5, <3>2, Parts DEF Server
      <4>2. Lives(t)
        BY <3>2, <4>1 DEF Lives
      <4>3. PICK q \in Runs : Acts(q) /\ servers[t].run = q /\ runs[q].child[servers[t].name] = t
        BY <1>2, <4>2, Parts DEF Held
      <4>4. q = r
        BY <1>2, <4>3, Parts DEF Alone
      <4>5. servers[t].name # n
        BY <3>1, <4>2, <4>3, <4>4
      <4> QED
        BY <2>4, <4>1, <4>3, <4>4, <4>5
    <3>3. servers'[s].run = r /\ servers'[s].name = n
      BY <1>5, Parts
    <3>4. \A t \in Servers : Lives(t)' => servers'[t].run = r /\ runs'[r].child[servers'[t].name] = t
      BY <2>4, <3>2, <3>3
    <3> QED
      BY <2>1, <3>4 DEF Held
  <2>6. Progress(r)'
    <3>1. (runs[r].at = 1 => n = "backend") /\ (runs[r].at = 2 => n = "web")
      BY <1>3, Parts, SpecNames
    <3>2. Spec1(r)' = n
      BY <1>3, <1>5 DEF Spec1
    <3>3. runs'[r].starting /\ runs'[r].at = 1 => runs'[r].child["web"] = Nobody
      BY <1>5, <2>4, <3>1, Parts DEF Progress, Names
    <3>4. \A m \in Names : Noted(r, m)' => m # n /\ Noted(r, m)
      BY <1>3, <1>5, <3>1, <3>2 DEF Noted
    <3>5. \A m \in Names : Noted(r, m)' => files'.server[m] = runs'[r].child[m]
      BY <1>1, <2>4, <3>4, Parts DEF Progress
    <3> QED
      BY <1>5, <3>3, <3>5 DEF Progress
  <2>7. \A q \in Runs : Progress(q)'
    BY <1>2, <1>5, <2>6, OthersProgress
  <2> QED
    BY <2>2, <2>3, <2>5, <2>7 DEF Sound
<1> QED
  BY <1>3, <1>4, <1>5, Parts, SpawnIs

LEMMA StopWebSound ==
  ASSUME IInv, NEW r \in Runs, StopWeb(r)
  PROVE  Sound'
<1>1. /\ UNCHANGED <<now, files, command>> /\ runs[r].step = "stop web"
      /\ servers' = Killed(Stopped(r, "web"))
  BY DEF StopWeb
<1>2. GoesOn(r, "stop backend")
  BY Parts, GoesIs DEF StopWeb, Steps
<1>3. /\ Changes(r) /\ runs'[r].step = "stop backend" /\ SameServers(r)
      /\ runs'[r].child = runs[r].child /\ NoneStarts
  BY <1>1, <1>2, Parts, KilledKeeps DEF GoesOn, SameServers
<1>4. Acts(r) /\ ~Early(r) /\ Acts(r)' /\ ~Early(r)'
  BY <1>1, <1>3 DEF Acts, Early
<1>5. PICK s \in Servers \cup {Nobody} : s = runs[r].child["web"]
  BY Parts, RunRows DEF Names
<1>6. ~Lives(s)'
  <2>1. s # Nobody => s \in Stopped(r, "web")
    BY <1>5 DEF Stopped
  <2> QED
    BY <1>1, <1>5, <2>1, Parts, KilledKeeps DEF Lives
<1>7. ~Lives(runs[r].child["web"])'
  BY <1>3, <1>5, <1>6 DEF Lives
<1>8. Progress(r)'
  BY <1>1, <1>3, <1>7, Parts DEF Progress, SameServers
<1> QED
  BY <1>1, <1>3, <1>4, <1>8, ActingSound

LEMMA StopBackendSound ==
  ASSUME IInv, NEW r \in Runs, StopBackend(r)
  PROVE  Sound'
<1>1. /\ UNCHANGED <<now, files, command>> /\ runs[r].step = "stop backend"
      /\ servers' = Killed(Stopped(r, "backend"))
  BY DEF StopBackend
<1>2. GoesOn(r, "cleanup")
  BY Parts, GoesIs DEF StopBackend, Steps
<1>3. /\ Changes(r) /\ runs'[r].step = "cleanup" /\ SameServers(r)
      /\ runs'[r].child = runs[r].child /\ NoneStarts
  BY <1>1, <1>2, Parts, KilledKeeps DEF GoesOn, SameServers
<1>4. Acts(r) /\ ~Early(r) /\ Acts(r)' /\ ~Early(r)'
  BY <1>1, <1>3 DEF Acts, Early
<1>5. PICK s \in Servers \cup {Nobody}, t \in Servers \cup {Nobody} :
        s = runs[r].child["backend"] /\ t = runs[r].child["web"]
  BY Parts, RunRows DEF Names
<1>6. ~Lives(s)'
  <2>1. s # Nobody => s \in Stopped(r, "backend")
    BY <1>5 DEF Stopped
  <2> QED
    BY <1>1, <1>5, <2>1, Parts, KilledKeeps DEF Lives
<1>7. ~Lives(t)'
  <2>1. ~Lives(t)
    BY <1>1, <1>5, Parts DEF Progress
  <2> QED
    BY <1>3, <1>5, <2>1 DEF NoneStarts, Lives
<1>8. ~Lives(runs[r].child["web"])' /\ ~Lives(runs[r].child["backend"])'
  BY <1>3, <1>5, <1>6, <1>7 DEF Lives
<1>9. Progress(r)'
  BY <1>1, <1>3, <1>8, Parts DEF Progress, SameServers
<1> QED
  BY <1>1, <1>3, <1>4, <1>9, ActingSound

(* The run that acts goes: nobody acts.                                    *)
LEMMA GoneSound ==
  ASSUME IInv, NEW r \in Runs, Alive(r), Changes(r), runs'[r].step = "gone", SameServers(r),
         UNCHANGED command, Held',
         \/ files'.supervisor = files.supervisor /\ files'.server = files.server /\ NoneStarts
         \/ files' = EmptyFolder /\ Acts(r)
  PROVE  Sound'
<1>1. ~Acts(r)' /\ ~Early(r)'
  BY DEF Acts, Early
<1>2. Commands'
  BY <1>1, Parts, RunKeepsCommands
<1>3. \A q \in Runs : q # r => runs'[q] = runs[q]
  BY DEF Changes
<1>4. Progress(r)'
  BY Parts DEF Progress, SameServers
<1>5. CASE files'.supervisor = files.supervisor /\ files'.server = files.server /\ NoneStarts
  <2>1. Alone'
    BY <1>1, <1>5, Parts, SameAlone
  <2>2. ASSUME NEW q \in Runs, q # r PROVE Progress(q)'
    <3>1. SameServers(q) /\ runs'[q].step = runs[q].step
      BY <1>3, <2>2 DEF SameServers
    <3> QED
      BY <1>5, <3>1, Parts, SameProgress
  <2> QED
    BY <1>2, <1>4, <2>1, <2>2 DEF Sound
<1>6. CASE files' = EmptyFolder /\ Acts(r)
  <2>1. \A q \in Runs : ~Acts(q)'
    BY <1>1, <1>3, <1>6, Parts DEF Alone, Acts
  <2>2. files'.supervisor = Nobody /\ \A q \in Runs : q # Nobody
    BY <1>6, Constants DEF EmptyFolder, Runs, Nobody
  <2>3. \A q \in Runs : Early(q)' => Early(q)
    BY <1>1, <1>3 DEF Early
  <2>4. Alone'
    BY <2>1, <2>2, <2>3, Parts DEF Alone
  <2>5. \A q \in Runs : Progress(q)'
    BY <1>4, <1>6, OthersProgress
  <2> QED
    BY <1>2, <2>4, <2>5 DEF Sound
<1> QED
  BY <1>5, <1>6

LEMMA CleanupSound ==
  ASSUME IInv, NEW r \in Runs, Cleanup(r)
  PROVE  Sound'
<1>1. UNCHANGED <<now, servers, command>> /\ runs[r].step = "cleanup" /\ files' = EmptyFolder
  BY DEF Cleanup
<1>2. GoesOn(r, "gone")
  BY Parts, GoesIs DEF Cleanup, Steps
<1>3. Acts(r) /\ Alive(r)
  BY <1>1, ActsAlive DEF Acts
<1>4. NothingLives
  <2> SUFFICES ASSUME NEW s \in Servers, Lives(s) PROVE FALSE
    BY DEF NothingLives
  <2>1. PICK q \in Runs : Acts(q) /\ runs[q].child[servers[s].name] = s
    BY <1>3, Parts DEF Held
  <2>2. q = r
    BY <1>3, <2>1, Parts DEF Alone
  <2>3. servers[s].name \in {"backend", "web"}
    BY Parts DEF Server, Names
  <2> QED
    BY <1>1, <2>1, <2>2, <2>3, Parts DEF Progress
<1>5. Held'
  BY <1>1, <1>4, SameServersKeep, NothingStarts, NothingHeld
<1> QED
  BY <1>1, <1>2, <1>3, <1>5, GoneSound DEF GoesOn

LEMMA DiesSound ==
  ASSUME NoWindow, IInv, NEW r \in Runs, Dies(r)
  PROVE  Sound'
<1>1. UNCHANGED <<now, servers, files, command>> /\ Alive(r)
  BY DEF Dies
<1>2. GoesOn(r, "gone")
  BY Parts, GoesIs DEF Dies, Steps
<1>3. /\ Changes(r) /\ runs'[r].step = "gone" /\ SameServers(r) /\ NoneStarts
      /\ \A q \in Runs : q # r => runs'[q] = runs[q]
  BY <1>1, <1>2, SameServersKeep DEF GoesOn, Changes
<1>4. \A s \in Servers : Lives(s)' = Lives(s)
  BY <1>1 DEF Lives
<1>5. Recorded' = Recorded
  BY <1>1 DEF Recorded
<1>6. CASE ~Acts(r)
  <2>1. \A q \in Runs : Acts(q)' = Acts(q)
    BY <1>3, <1>6 DEF Acts
  <2>2. \A q \in Runs : Acts(q) => runs'[q] = runs[q]
    BY <1>3, <1>6
  <2>3. Held'
    BY <1>1, <1>4, <1>5, <2>1, <2>2, Parts DEF Held
  <2> QED
    BY <1>1, <1>3, <2>3, GoneSound
<1>7. CASE Acts(r)
  <2>1. \A q \in Runs : ~Acts(q)'
    BY <1>3, <1>7, Parts DEF Alone, Acts
  <2>2. \A s \in Servers : Lives(s) => servers[s].run = r
    BY <1>7, Parts DEF Held, Alone
  <2>3. \A s \in Servers : Lives(s) => s \in Recorded /\ servers[s].state = "up"
    BY <2>2 DEF Dies, NoWindow, ChildrenOf
  <2>4. Held'
    BY <1>1, <1>4, <1>5, <2>1, <2>3 DEF Held
  <2> QED
    BY <1>1, <1>3, <2>4, GoneSound
<1> QED
  BY <1>6, <1>7

-----------------------------------------------------------------------------
(* The steps of the commands, the servers and the time *)

LEMMA FrameSound ==
  ASSUME IInv, UNCHANGED <<runs, servers>>,
         files'.supervisor = files.supervisor, files'.server = files.server
  PROVE  Alone' /\ (\A q \in Runs : Progress(q)') /\ Held'
<1>1. \A q \in Runs : Progress(q)'
  BY Parts, SameServersKeep, SameProgress DEF SameServers
<1>2. \A q \in Runs : Acts(q)' = Acts(q) /\ Early(q)' = Early(q)
  BY DEF Acts, Early
<1>3. Alone'
  BY <1>2, Parts DEF Alone
<1>4. Recorded' = Recorded /\ \A s : Lives(s)' = Lives(s)
  BY DEF Recorded, Lives
<1>5. Held'
  BY <1>2, <1>4, Parts DEF Held
<1> QED
  BY <1>1, <1>3, <1>5

LEMMA ReapedSound ==
  ASSUME IInv, NobodyActs, Reaped, UNCHANGED runs
  PROVE  Alone' /\ (\A q \in Runs : Progress(q)') /\ Held' /\ NothingLives'
<1>1. NothingLives'
  BY Parts, RecordsKillAll DEF Reaped
<1>2. \A q \in Runs : Progress(q)'
  BY Parts, RowProgress DEF NobodyActs
<1>3. \A q \in Runs : Acts(q)' = Acts(q) /\ Early(q)' = Early(q)
  BY DEF Acts, Early
<1>4. files'.supervisor = Nobody /\ \A q \in Runs : q # Nobody
  BY Constants DEF Reaped, EmptyFolder, Runs, Nobody
<1>5. Alone'
  BY <1>3, <1>4, Parts DEF Alone, NobodyActs
<1> QED
  BY <1>1, <1>2, <1>5, NothingHeld

(* A launch, while no run is early.                                        *)
LEMMA LaunchedSound ==
  ASSUME IInv, NEW r \in Runs, runs[r].step = "none", Goes(r, "look"), \A q \in Runs : ~Early(q),
         UNCHANGED <<servers, files>>
  PROVE  Alone' /\ (\A q \in Runs : Progress(q)') /\ Held'
<1>1. GoesOn(r, "look")
  BY Parts, GoesIs DEF Steps
<1>2. /\ Changes(r) /\ runs'[r].step = "look" /\ SameServers(r)
      /\ \A q \in Runs : q # r => runs'[q] = runs[q]
  BY <1>1 DEF GoesOn, Changes
<1>3. \A q \in Runs : Acts(q)' = Acts(q) /\ (Early(q)' <=> q = r)
  BY <1>2 DEF Acts, Early
<1>4. Alone'
  BY <1>2, <1>3, Parts DEF Alone
<1>5. \A q \in Runs : Acts(q) => runs'[q] = runs[q]
  BY <1>2 DEF Acts
<1>6. Held'
  <2>1. Recorded' = Recorded /\ \A s : Lives(s)' = Lives(s)
    BY DEF Recorded, Lives
  <2> QED
    BY <1>3, <1>5, <2>1, Parts DEF Held
<1>7. Progress(r)'
  <2>1. Fresh(r) /\ (Fresh(r)' = Fresh(r))
    BY <1>2, Parts DEF Progress, Fresh, SameServers
  <2>2. runs'[r].child["web"] = Nobody
    BY <2>1 DEF Fresh, Names
  <2> QED
    BY <1>2, <2>1, <2>2 DEF Progress
<1>8. ASSUME NEW q \in Runs, q # r PROVE Progress(q)'
  <2>1. SameServers(q) /\ runs'[q].step = runs[q].step
    BY <1>2, <1>8 DEF SameServers
  <2> QED
    BY <2>1, Parts, SameServersKeep, SameProgress
<1> QED
  BY <1>4, <1>6, <1>7, <1>8

LEMMA AutostartSound ==
  ASSUME NoWindow, IInv, Autostart
  PROVE  Sound'
<1>1. PICK r \in Runs : runs[r].step = "none" /\ Goes(r, "look")
  BY DEF Autostart
<1>2. /\ UNCHANGED <<servers, files>> /\ \A q \in Runs : ~Early(q)
      /\ command.step \in {"idle", "stopped", "uv", "ready"}
      /\ command'.quiet = FALSE /\ command'.step = command.step
  <2>1. command' = [command EXCEPT !.quiet = FALSE] /\ command \in Command
    BY Parts DEF Autostart, Typed
  <2>2. command'.quiet = FALSE /\ command'.step = command.step
    BY <2>1 DEF Command
  <2> QED
    BY <2>2 DEF Autostart, NoWindow, Calm
<1>3. Commands'
  BY <1>2 DEF Commands, StoppedMeansStopped, At
<1> QED
  BY <1>1, <1>2, <1>3, LaunchedSound DEF Sound

LEMMA LaunchSound ==
  ASSUME NoWindow, IInv, Launch
  PROVE  Sound'
<1>1. /\ UNCHANGED <<servers, files>> /\ \A q \in Runs : ~Early(q)
      /\ \/ Done /\ UNCHANGED runs
         \/ \E r \in Runs :
              /\ runs[r].step = "none" /\ Goes(r, "look")
              /\ command' = [command EXCEPT !.step = "ready", !.target = r, !.quiet = FALSE]
  BY DEF Launch, NoWindow, Calm
<1>2. CASE Done /\ UNCHANGED runs
  <2>1. Commands'
    BY <1>2 DEF Commands, StoppedMeansStopped, At, Done, Idle
  <2> QED
    BY <1>1, <1>2, <2>1, FrameSound DEF Sound
<1>3. CASE \E r \in Runs :
              /\ runs[r].step = "none" /\ Goes(r, "look")
              /\ command' = [command EXCEPT !.step = "ready", !.target = r, !.quiet = FALSE]
  <2>1. command'.step = "ready"
    BY <1>3, Parts DEF Typed, Command
  <2>2. Commands'
    BY <2>1 DEF Commands, StoppedMeansStopped, At
  <2> QED
    BY <1>1, <1>3, <2>2, LaunchedSound DEF Sound
<1> QED
  BY <1>1, <1>2, <1>3

LEMMA BeginSound ==
  ASSUME NoWindow, IInv, Begin
  PROVE  Sound'
<1>1. /\ UNCHANGED <<runs, servers, files>> /\ \A q \in Runs : ~Early(q)
      /\ command'.step \in {"look", "uv", "find"}
  BY DEF Begin, NoWindow, Calm
<1>2. Commands'
  BY <1>1 DEF Commands, StoppedMeansStopped, At, Early
<1> QED
  BY <1>1, <1>2, FrameSound DEF Sound

(* When nobody is early, the commands' looks are right.                    *)
LEMMA FindSound ==
  ASSUME IInv, Find
  PROVE  Sound'
<1>1. UNCHANGED runs /\ command.step = "find" /\ command \in Command
  BY Parts DEF Find, At, Typed
<1>2. \A q \in Runs : ~Early(q) /\ ~Early(q)'
  BY <1>1, Parts DEF Commands, Early
<1>3. \A q \in Runs : Alive(q) => Acts(q)
  BY <1>2, Parts, AliveActs
<1>4. CASE Supervised
  <2>1. /\ command' = [command EXCEPT !.step = "ask", !.target = files.supervisor]
        /\ UNCHANGED <<servers, files>>
    BY <1>4 DEF Find
  <2>2. command'.step = "ask" /\ command'.target = files.supervisor
    BY <1>1, <2>1 DEF Command
  <2>3. \A q \in Runs : Alive(q)' => Alive(q)
    BY <1>1 DEF Alive
  <2>4. \A q \in Runs : Alive(q)' => q = files.supervisor
    BY <1>2, <1>3, <2>3, Parts DEF Alone
  <2>5. Commands'
    BY <1>2, <2>2, <2>4 DEF Commands, StoppedMeansStopped, At
  <2> QED
    BY <1>1, <2>1, <2>5, FrameSound DEF Sound
<1>5. CASE ~Supervised
  <2>1. Reaped /\ command'.step = "stopped"
    BY <1>1, <1>5 DEF Find, Then, Command
  <2>2. NobodyActs
    BY <1>2, <1>5, Parts, UnsupervisedActsNot
  <2>3. \A q \in Runs : ~Alive(q)'
    BY <1>1, <1>3, <2>2 DEF Alive, NobodyActs
  <2>4. NothingLives'
    BY <1>1, <2>1, <2>2, ReapedSound
  <2>5. Commands'
    BY <2>1, <2>3, <2>4 DEF Commands, StoppedMeansStopped, At, NothingLives
  <2> QED
    BY <1>1, <2>1, <2>2, <2>5, ReapedSound DEF Sound
<1> QED
  BY <1>4, <1>5

LEMMA StartLookSound ==
  ASSUME NoWindow, IInv, StartLook
  PROVE  Sound'
<1>1. UNCHANGED runs /\ command \in Command /\ \A q \in Runs : ~Early(q) /\ ~Early(q)'
  BY Parts DEF StartLook, NoWindow, Calm, Typed, Early
<1>2. CASE Supervised
  <2>1. Done /\ UNCHANGED <<servers, files>>
    BY <1>2 DEF StartLook
  <2>2. Commands'
    BY <2>1 DEF Commands, StoppedMeansStopped, At, Done, Idle
  <2> QED
    BY <1>1, <2>1, <2>2, FrameSound DEF Sound
<1>3. CASE ~Supervised
  <2>1. Reaped /\ command'.step = "launch"
    BY <1>1, <1>3 DEF StartLook, Then, Command
  <2>2. NobodyActs
    BY <1>1, <1>3, Parts, UnsupervisedActsNot
  <2>3. Commands'
    BY <1>1, <2>1 DEF Commands, StoppedMeansStopped, At
  <2> QED
    BY <1>1, <2>1, <2>2, <2>3, ReapedSound DEF Sound
<1> QED
  BY <1>2, <1>3

LEMMA SweepSound ==
  ASSUME IInv, Sweep
  PROVE  Sound'
<1>1. /\ UNCHANGED runs /\ Reaped /\ command'.step = "stopped" /\ command.step = "sweep"
  BY Parts DEF Sweep, Then, Typed, Command, At
<1>2. \A q \in Runs : ~Alive(q)
  BY <1>1, Parts DEF Commands
<1>3. NobodyActs
  BY <1>2, ActsAlive DEF NobodyActs
<1>4. NothingLives'
  BY <1>1, <1>3, ReapedSound
<1>5. \A q \in Runs : ~Alive(q)'
  BY <1>1, <1>2 DEF Alive
<1>6. Commands'
  BY <1>1, <1>4, <1>5 DEF Commands, StoppedMeansStopped, At, NothingLives
<1> QED
  BY <1>1, <1>3, <1>6, ReapedSound DEF Sound

LEMMA StopsSound ==
  ASSUME IInv, Stops
  PROVE  Sound'
<1>1. /\ UNCHANGED <<runs, servers, files>> /\ command'.step = "sweep" /\ command.step = "wait"
      /\ ~Alive(command.target)
  BY Parts DEF Stops, Then, Typed, Command, At
<1>2. \A q \in Runs : ~Alive(q) /\ ~Early(q)
  BY <1>1, Parts DEF Commands
<1>3. Commands'
  BY <1>1, <1>2 DEF Commands, StoppedMeansStopped, At, Alive, Early
<1> QED
  BY <1>1, <1>3, FrameSound DEF Sound

LEMMA OtherCommandsSound ==
  ASSUME IInv, AfterStop \/ Upgrade \/ Waited
  PROVE  Sound'
<1>1. /\ UNCHANGED <<runs, servers, files>>
      /\ command'.step \in {"idle", "uv", "look"}
  BY Parts DEF AfterStop, Upgrade, Waited, Done, Then, Idle, Typed, Command
<1>2. Commands'
  BY <1>1 DEF Commands, StoppedMeansStopped, At
<1> QED
  BY <1>1, <1>2, FrameSound DEF Sound

(* The request reaches the run that is alive; one that has no handler yet  *)
(* has spawned nothing.                                                    *)
LEMMA AskSound ==
  ASSUME IInv, Ask
  PROVE  Sound'
<1>1. PICK r : r = command.target
  OBVIOUS
<1>2. /\ UNCHANGED <<now, servers>> /\ command'.step = "wait" /\ command'.target = r
      /\ command.step = "ask" /\ r \in Runs \cup {Nobody}
      /\ files'.supervisor = files.supervisor /\ files'.server = files.server
  BY <1>1, Parts DEF Ask, Then, Typed, Command, At, Folder
<1>3. \A q \in Runs : ~Early(q) /\ (Alive(q) => q = r)
  BY <1>1, <1>2, Parts DEF Commands
<1>4. \/ UNCHANGED runs
      \/ /\ r \in Runs /\ SameServers(r) /\ Changes(r) /\ Alive(r)
         /\ runs'[r].step = IF runs[r].step = "signals" THEN "gone" ELSE runs[r].step
  BY <1>1, <1>2, Parts, AskIs DEF Ask
<1>5. \A q \in Runs : (Early(q)' => Early(q)) /\ (Alive(q)' => Alive(q))
  BY <1>3, <1>4 DEF Early, Alive, Changes
<1>6. Commands'
  BY <1>2, <1>3, <1>5 DEF Commands, StoppedMeansStopped, At
<1>7. CASE UNCHANGED runs
  BY <1>2, <1>6, <1>7, FrameSound DEF Sound
<1>8. CASE /\ r \in Runs /\ SameServers(r) /\ Changes(r) /\ Alive(r)
           /\ runs'[r].step = IF runs[r].step = "signals" THEN "gone" ELSE runs[r].step
  <2>1. Acts(r) /\ NoneStarts /\ runs'[r].child = runs[r].child
    BY <1>2, <1>3, <1>8, Parts, AliveActs, SameServersKeep DEF SameServers
  <2>2. Alone'
    BY <1>2, <1>3, <1>5, <1>8, <2>1, Parts, SameAlone DEF Acts
  <2>3. Progress(r)'
    <3>1. CASE runs[r].step = "signals"
      BY <1>8, <3>1, Parts DEF Progress, SameServers
    <3>2. CASE runs[r].step # "signals"
      BY <1>2, <1>8, <2>1, <3>2, Parts, SameProgress
    <3> QED
      BY <3>1, <3>2
  <2>4. \A q \in Runs : Progress(q)'
    BY <1>8, <2>1, <2>3, OthersProgress
  <2>5. Held'
    <3>1. CASE runs[r].step = "signals"
      <4>1. Fresh(r)
        BY <1>8, <3>1, Parts DEF Progress
      <4>2. NothingLives
        <5> SUFFICES ASSUME NEW s \in Servers, Lives(s) PROVE FALSE
          BY DEF NothingLives
        <5>1. PICK q \in Runs : Acts(q) /\ runs[q].child[servers[s].name] = s
          BY <1>8, <2>1, Parts DEF Held
        <5>2. q = r
          BY <1>8, <2>1, <5>1, Parts DEF Alone
        <5>3. servers[s].name \in Names /\ s # Nobody
          BY Parts, Constants DEF Server, Servers, Nobody
        <5> QED
          BY <4>1, <5>1, <5>2, <5>3 DEF Fresh
      <4> QED
        BY <2>1, <4>2, NothingStarts, NothingHeld
    <3>2. CASE runs[r].step # "signals"
      <4>1. Acts(r)'
        BY <1>8, <2>1, <3>2 DEF Acts
      <4> QED
        BY <1>8, <2>1, <4>1, Parts, StillHeld
    <3> QED
      BY <3>1, <3>2
  <2> QED
    BY <1>6, <2>2, <2>4, <2>5 DEF Sound
<1> QED
  BY <1>4, <1>7, <1>8

(* Killing the run that acts with its children leaves nothing.             *)
LEMMA KillTreeSound ==
  ASSUME IInv, KillTree
  PROVE  Sound'
<1>1. PICK r : r = command.target
  OBVIOUS
<1>2. /\ UNCHANGED <<now, files>> /\ command'.step = "sweep" /\ command.step = "wait"
      /\ Alive(r) /\ r \in Runs /\ Goes(r, "gone") /\ servers' = Killed(ChildrenOf(r))
  BY <1>1, Parts DEF KillTree, Then, Typed, Command, At, Alive
<1>3. \A q \in Runs : ~Early(q) /\ (Alive(q) => q = r)
  BY <1>1, <1>2, Parts DEF Commands
<1>4. GoesOn(r, "gone")
  BY <1>2, Parts, GoesIs DEF Steps
<1>5. /\ Changes(r) /\ runs'[r].step = "gone" /\ SameServers(r) /\ NoneStarts
      /\ \A q \in Runs : q # r => runs'[q] = runs[q]
  BY <1>2, <1>4, Parts, KilledKeeps DEF GoesOn, Changes
<1>6. Acts(r)
  BY <1>2, <1>3, Parts, AliveActs
<1>7. \A q \in Runs : ~Alive(q)' /\ ~Early(q)' /\ ~Acts(q)'
  <2>1. \A q \in Runs : q # r => ~Alive(q) /\ ~Early(q) /\ ~Acts(q)
    BY <1>2, <1>3, <1>6, Parts DEF Alone
  <2> QED
    BY <1>5, <2>1 DEF Alive, Early, Acts
<1>8. Commands'
  BY <1>2, <1>7 DEF Commands, StoppedMeansStopped, At
<1>9. Alone'
  BY <1>2, <1>3, <1>5, <1>6, <1>7, Parts, SameAlone
<1>10. \A q \in Runs : Progress(q)'
  <2>1. Progress(r)'
    BY <1>2, <1>5, Parts DEF Progress, SameServers
  <2> QED
    BY <1>2, <1>5, <1>6, <2>1, OthersProgress
<1>11. NothingLives'
  <2>1. \A s \in Servers : Lives(s) => s \in ChildrenOf(r)
    BY <1>2, <1>6, Parts DEF Held, Alone, ChildrenOf
  <2>2. \A s \in Servers : s \in ChildrenOf(r) => ~Lives(s)'
    BY <1>2, Parts, KilledKeeps
  <2> QED
    BY <1>5, <2>1, <2>2 DEF NothingLives, NoneStarts
<1> QED
  BY <1>8, <1>9, <1>10, <1>11, NothingHeld DEF Sound

(* A server that listens or falls is held as before.                       *)
LEMMA ServerSound ==
  ASSUME IInv, NoneStarts, UNCHANGED <<runs, files, command>>
  PROVE  Sound'
<1>1. \A q \in Runs : Progress(q)'
  BY Parts, SameProgress DEF SameServers
<1>2. \A q \in Runs : Acts(q)' = Acts(q) /\ Early(q)' = Early(q)
  BY DEF Acts, Early
<1>3. Alone'
  BY <1>2, Parts DEF Alone
<1>4. Commands'
  BY Parts, SameCommands
<1>5. Recorded' = Recorded
  BY DEF Recorded
<1>6. Held'
  BY <1>2, <1>5, Parts DEF Held, NoneStarts
<1> QED
  BY <1>1, <1>3, <1>4, <1>6 DEF Sound

LEMMA ListensSound ==
  ASSUME IInv, Listens
  PROVE  Sound'
<1>1. PICK s \in Servers, state \in {"dead", "up"} :
        servers[s].state = "starting" /\ servers' = [servers EXCEPT ![s].state = state]
  BY DEF Listens
<1>2. PICK server : server = [servers[s] EXCEPT !.state = state]
  OBVIOUS
<1>3. server.state = state /\ server.name = servers[s].name /\ server.run = servers[s].run
  BY <1>2, Parts DEF Server
<1>4. servers' = [servers EXCEPT ![s] = server]
  BY <1>1, <1>2
<1>5. servers'[s] = server /\ \A t \in Servers : t # s => servers'[t] = servers[t]
  BY <1>4, Parts
<1>6. s # Nobody
  BY Constants DEF Servers, Nobody
<1>7. NoneStarts
  BY <1>1, <1>3, <1>5, <1>6 DEF NoneStarts, Lives
<1> QED
  BY <1>7, ServerSound DEF Listens

LEMMA SoundNext ==
  ASSUME NoWindow, IInv, Counting, [Next]_vars
  PROVE  IInv'
<1>1. Typed'
  BY Parts, TypedNext
<1>2. CASE UNCHANGED <<runs, servers, files, command>>
  <2>1. NoneStarts
    BY <1>2, SameServersKeep
  <2>2. Sound'
    BY <1>2, <2>1, ServerSound
  <2> QED
    BY <1>1, <2>2 DEF IInv, Sound
<1>3. CASE Exits
  <2>1. NoneStarts
    BY <1>3, Parts, KilledKeeps DEF Exits
  <2>2. Sound'
    BY <1>3, <2>1, ServerSound DEF Exits
  <2> QED
    BY <1>1, <2>2 DEF IInv, Sound
<1>4. CASE Begin \/ CommandStep \/ Autostart \/ Listens
  <2>1. Sound'
    BY <1>4, BeginSound, AutostartSound, ListensSound, FindSound, AskSound, StopsSound, KillTreeSound,
       SweepSound, OtherCommandsSound, StartLookSound, LaunchSound DEF CommandStep
  <2> QED
    BY <1>1, <2>1 DEF IInv, Sound
<1>5. CASE \E r \in Runs : RunStep(r) \/ Dies(r)
  <2>1. Sound'
    BY <1>5, LookSound, ClearSound, RecordSound, InstallSignalsSound, SpawnSound, NoteSound, AwaitSound,
       WatchSound, ScanSound, StopWebSound, StopBackendSound, CleanupSound, DiesSound DEF RunStep
  <2> QED
    BY <1>1, <2>1 DEF IInv, Sound
<1>6. CASE Tick
  BY <1>2, <1>6 DEF Tick
<1> QED
  BY <1>2, <1>3, <1>4, <1>5, <1>6 DEF Next, vars

LEMMA SoundInit ==
  ASSUME Init
  PROVE  IInv
<1>1. Typed
  BY TypedInit
<1>2. \A r \in Runs : runs[r] = NewRun /\ ~Acts(r) /\ ~Early(r) /\ r # Nobody
  BY Constants DEF Init, NewRun, Acts, Early, Runs, Nobody
<1>3. Alone
  BY <1>2 DEF Alone, Init, EmptyFolder
<1>4. Commands
  BY DEF Init, Idle, Commands, StoppedMeansStopped, At
<1>5. \A r \in Runs : Progress(r)
  <2> SUFFICES ASSUME NEW r \in Runs PROVE Progress(r)
    OBVIOUS
  <2>1. /\ runs[r].step = "none" /\ runs[r].starting /\ runs[r].at = 1
        /\ \A n \in Names : runs[r].child[n] = Nobody
    BY <1>2 DEF NewRun
  <2>2. Fresh(r) /\ runs[r].child["web"] = Nobody
    BY <2>1 DEF Fresh, Names
  <2> QED
    BY <2>1, <2>2 DEF Progress
<1>6. Held
  BY DEF Held, Lives, Init, NoServer
<1> QED
  BY <1>1, <1>3, <1>4, <1>5, <1>6 DEF IInv

(* When no launch overlaps another that is not recorded yet, and no        *)
(* supervisor dies before its servers are recorded and listen, at most one *)
(* run acts, the records name it and its servers, and what lives is held.  *)
THEOREM OneRunActs == NoWindow => (Spec => []IInv)
<1> SUFFICES ASSUME NoWindow PROVE Spec => []IInv
  OBVIOUS
<1>1. Init => IInv
  BY SoundInit
<1>2. IInv /\ Typed /\ Counting /\ [Next]_vars => IInv'
  BY SoundNext
<1> QED
  BY <1>1, <1>2, Invariance, PTL DEF Spec

(* "Maestro stopped." is true: when stop returns, no supervisor and no     *)
(* server runs unless something was launched meanwhile, whatever died on   *)
(* the way (control.py, stop and _reap_recorded).                          *)
THEOREM StopStopsEverything == NoWindow => (Spec => []StoppedMeansStopped)
<1> SUFFICES ASSUME NoWindow PROVE Spec => []StoppedMeansStopped
  OBVIOUS
<1>1. IInv => StoppedMeansStopped
  BY Parts DEF Commands
<1> QED
  BY <1>1, OneRunActs, PTL

(* The run that watches is the recorded one, with the recorded servers, so *)
(* that stop, status and update find it (supervisor.py, run).              *)
THEOREM TheWatcherIsRecorded == NoWindow => (Spec => []RunningIsRecorded)
<1> SUFFICES ASSUME NoWindow PROVE Spec => []RunningIsRecorded
  OBVIOUS
<1>1. ASSUME IInv, NEW r \in Runs, runs[r].step \in {"watch", "scan"}
      PROVE  files.supervisor = r /\ files.server = runs[r].child
  <2>1. Acts(r) /\ ~Early(r)
    BY <1>1 DEF Acts, Early
  <2>2. files.supervisor = r
    BY <1>1, <2>1, Parts DEF Alone
  <2>3. \A n \in Names : files.server[n] = runs[r].child[n]
    <3>1. \A n \in Names : Noted(r, n)
      BY <1>1, Parts DEF Progress, Noted
    <3> QED
      BY <1>1, <3>1, Parts DEF Progress
  <2>4. /\ files.server \in [Names -> Servers \cup {Nobody}]
        /\ runs[r].child \in [Names -> Servers \cup {Nobody}]
    BY <1>1, Parts, RunRows DEF Folder
  <2> QED
    BY <2>2, <2>3, <2>4
<1>2. IInv => RunningIsRecorded
  BY <1>1 DEF RunningIsRecorded
<1> QED
  BY <1>2, OneRunActs, PTL

=============================================================================
