------------------------------ MODULE SyncLink ------------------------------
(***************************************************************************)
(* How close two rounds can be, and what home accepts of them: the bot's   *)
(* round lock, backoff and force gap (services/sync/round.py, run_round),  *)
(* the sealed calls with their time stamps (services/sync/seal.py), and    *)
(* home's replay cache, single-flight lock and restarts (routers/sync.py). *)
(*                                                                         *)
(* Time passes in ticks.  A call takes at least one, and so does a restart *)
(* of home, whose process start and stamps are compared in whole seconds.  *)
(* The values are the code's in proportion: the shortest backoff and the   *)
(* accepted skew are both 300 s.                                           *)
(*                                                                         *)
(* Init, Next and the others carry the name of the module: its proofs are  *)
(* kept in one module with SyncPush's.                                     *)
(***************************************************************************)
EXTENDS Integers, FiniteSets

CONSTANTS
  MaxCalls,   \* bounds the calls of all rounds
  MaxRounds,  \* bounds the rounds
  MaxTime,    \* bounds the time
  Skew,       \* SKEW_SECONDS
  Replay,     \* REPLAY_SECONDS
  ForceGap,   \* FORCE_GAP
  FirstDelay, \* the backoff after one failure
  LastDelay,  \* the longest backoff
  Cap         \* _REPLAY_CAP

ASSUME TimesOK ==
  /\ {MaxCalls, MaxRounds, MaxTime, Skew, Replay, ForceGap, FirstDelay, LastDelay, Cap} \subseteq Nat
  /\ Skew <= FirstDelay /\ FirstDelay <= LastDelay
  /\ Replay > 0
  /\ MaxCalls <= Cap  \* 100,000 calls in 900 s are more than rounds can make

VARIABLES
  now,
  running,   \* the bot's round that runs, 0 for none (_LOCK)
  rounds,    \* how each round started and ended
  failures, nextAttempt, attempted,  \* the saved round state
  current,   \* the call that the running round waits for, 0 for none
  calls,     \* the stamp and the round of each call
  wire,      \* the calls that can still reach home, once or more
  up,        \* home's process runs
  started,   \* _STARTED_AT
  seen,      \* the calls in the replay cache
  handling,  \* the call that holds home's lock, 0 for none
  accepted   \* how often home accepted each call, and in which round last

bot == <<running, rounds, failures, nextAttempt, attempted, current, calls>>
home == <<up, started, seen, handling, accepted>>
linkVars == <<now, bot, wire, home>>

-----------------------------------------------------------------------------
Calls == 1..MaxCalls
Rounds == 1..MaxRounds
None == 0
Never == -1
Round == [start : {"none", "due", "forced"}, end : {"none", "ok", "failed", "died"}]
Call == [stamp : 0..MaxTime, round : Rounds \cup {None}]

Begun == {n \in Rounds : rounds[n].start # "none"}
Made == {c \in Calls : calls[c].round # None}

LinkInit ==
  /\ now = 0
  /\ running = None /\ rounds = [n \in Rounds |-> [start |-> "none", end |-> "none"]]
  /\ failures = 0 /\ nextAttempt = Never /\ attempted = Never
  /\ current = None /\ calls = [c \in Calls |-> [stamp |-> 0, round |-> None]]
  /\ wire = {}
  /\ up = TRUE /\ started = 0 /\ seen = {} /\ handling = None
  /\ accepted = [c \in Calls |-> [times |-> 0, during |-> None]]

Tick == now < MaxTime /\ now' = now + 1 /\ UNCHANGED <<bot, wire, home>>

-----------------------------------------------------------------------------
(* The bot: services/sync/round.py *)

(* _held_off: a forced round waits only for the gap after the last         *)
(* attempt, any other for next_attempt_at.                                 *)
JustRan == attempted # Never /\ now - attempted < ForceGap
Waiting == nextAttempt # Never /\ now < nextAttempt
HeldOff(start) == IF start = "forced" THEN JustRan ELSE Waiting

StartRound(start) ==
  /\ running = None /\ ~HeldOff(start)
  /\ \E n \in Rounds :
       /\ n = Cardinality(Begun) + 1
       /\ running' = n
       /\ rounds' = [rounds EXCEPT ![n].start = start]
  /\ UNCHANGED <<now, failures, nextAttempt, attempted, current, calls, wire, home>>

(* _call: sealed with the time at which it is sent. *)
SendCall ==
  /\ running # None /\ current = None
  /\ \E c \in Calls :
       /\ c = Cardinality(Made) + 1
       /\ current' = c
       /\ calls' = [calls EXCEPT ![c] = [stamp |-> now, round |-> running]]
       /\ wire' = wire \cup {c}
  /\ UNCHANGED <<now, running, rounds, failures, nextAttempt, attempted, home>>

EndRound(end) ==
  /\ rounds' = [rounds EXCEPT ![running].end = end]
  /\ running' = None /\ current' = None

ShorterDelay(n) == IF n = 1 THEN FirstDelay - 1 ELSE LastDelay  \* mutant: it is shorter than the skew
Delay(n) == IF n = 1 THEN FirstDelay ELSE LastDelay

(* _record_failure: no answer, or one that stops the round. *)
FailRound ==
  /\ running # None /\ current # None
  /\ now > calls[current].stamp
  /\ EndRound("failed")
  /\ failures' = IF failures < 2 THEN failures + 1 ELSE failures
  /\ nextAttempt' = now + Delay(failures + 1)
  /\ attempted' = now
  /\ UNCHANGED <<now, calls, wire, home>>

(* _Skip at hello: nothing is recorded that a start looks at. *)
SkipRound ==
  /\ running # None /\ current # None /\ accepted[current].times > 0 /\ handling # current
  /\ \A c \in Made : calls[c].round = running => c = current
  /\ EndRound("ok")
  /\ UNCHANGED <<now, failures, nextAttempt, attempted, calls, wire, home>>

FinishRound ==
  /\ running # None /\ current = None
  /\ \E c \in Made : calls[c].round = running
  /\ EndRound("ok")
  /\ failures' = 0 /\ nextAttempt' = Never /\ attempted' = now
  /\ UNCHANGED <<now, calls, wire, home>>

(* The process stops, or the failure cannot be written down. *)
RoundDies ==
  /\ running # None /\ EndRound("died")
  /\ UNCHANGED <<now, failures, nextAttempt, attempted, calls, wire, home>>

-----------------------------------------------------------------------------
(* Home: services/sync/seal.py and routers/sync.py *)

(* _usable, _before_process_start *)
Fresh(c) == now - calls[c].stamp <= Skew
FromThisProcess(c) == calls[c].stamp >= started

\* mutant: kept only as long as the stamp is usable
HoldUntilStale(c) == calls[c].stamp + Skew
HoldUntil(c) == calls[c].stamp + Skew + Replay

(* ReplayCache.seen: expired entries are dropped first, the oldest one     *)
(* when there are too many.                                                *)
Pruned == {c \in seen : HoldUntil(c) > now}
Remembered(c) ==
  LET all == Pruned \cup {c}
  IN  IF Cardinality(all) <= Cap THEN all
      ELSE {k \in all : \E older \in all : older < k}

(* check_header passes; the call holds the lock, or is refused as busy.    *)
Accept(c) ==
  /\ up /\ c \in wire
  /\ Fresh(c) /\ FromThisProcess(c) /\ c \notin Pruned
  /\ seen' = Remembered(c)
  /\ IF handling = None
     THEN /\ handling' = c
          /\ accepted' = [accepted EXCEPT ![c] =
                            [times |-> IF @.times = 0 THEN 1 ELSE 2, during |-> running]]
     ELSE UNCHANGED <<handling, accepted>>
  /\ UNCHANGED <<now, bot, wire, up, started>>

(* The bare 404 of everything else changes nothing but the cache. *)
Refuse(c) ==
  /\ up /\ c \in wire
  /\ ~(Fresh(c) /\ FromThisProcess(c) /\ c \notin Pruned)
  /\ wire' = wire \ {c}
  /\ seen' = IF Fresh(c) /\ FromThisProcess(c) THEN Pruned ELSE seen
  /\ UNCHANGED <<now, bot, up, started, handling, accepted>>

Lose(c) == c \in wire /\ wire' = wire \ {c} /\ UNCHANGED <<now, bot, home>>

(* The handler is done and its answer goes out; the round goes on if it    *)
(* still waits for it and it is not lost.                                  *)
Answer ==
  /\ up /\ handling # None
  /\ handling' = None
  /\ current' \in {current, IF current = handling THEN None ELSE current}
  /\ UNCHANGED <<now, running, rounds, failures, nextAttempt, attempted, calls, wire,
                 up, started, seen, accepted>>

HomeStops ==
  /\ up /\ up' = FALSE /\ handling' = None /\ seen' = {}
  /\ started' = now
  /\ UNCHANGED <<now, bot, wire, accepted>>

HomeStarts ==
  /\ ~up /\ now > started
  /\ up' = TRUE /\ started' = now
  /\ UNCHANGED <<now, bot, wire, seen, handling, accepted>>

-----------------------------------------------------------------------------
LinkNext ==
  \/ Tick
  \/ \E start \in {"due", "forced"} : StartRound(start)
  \/ SendCall \/ FailRound \/ SkipRound \/ FinishRound \/ RoundDies
  \/ \E c \in Calls : Accept(c) \/ Refuse(c) \/ Lose(c)
  \/ Answer \/ HomeStops \/ HomeStarts

LinkSpec == LinkInit /\ [][LinkNext]_linkVars

-----------------------------------------------------------------------------
(* Properties *)

(* Rounds, calls, the saved state and home's cache stay in their domains,  *)
(* and a call that is waited for is one of the round that runs.            *)
LinkTypeOK ==
  /\ now \in 0..MaxTime
  /\ running \in Rounds \cup {None} /\ rounds \in [Rounds -> Round]
  /\ failures \in 0..2
  /\ nextAttempt \in {Never} \cup 0..MaxTime + LastDelay
  /\ attempted \in {Never} \cup 0..MaxTime
  /\ current \in Made \cup {None}
  /\ current # None => calls[current].round = running
  /\ calls \in [Calls -> Call]
  /\ wire \subseteq Made
  /\ up \in BOOLEAN /\ started \in 0..MaxTime
  /\ seen \subseteq Made
  /\ handling \in Made \cup {None}
  /\ accepted \in [Calls -> [times : 0..2, during : Rounds \cup {None}]]

(* However often a call reaches home, across skew, expiry of the cache and *)
(* restarts, it is accepted at most once (check_header).                   *)
AcceptedOnce == \A c \in Calls : accepted[c].times <= 1

(* A call of one round is accepted in a later one only if a round since    *)
(* was forced or the round died without recording its failure: the backoff *)
(* outlasts the stamp (the condition of SyncHandover's "overlap").         *)
OverlapIsForced ==
  \A c \in Calls :
     accepted[c].during > calls[c].round =>
       \/ rounds[calls[c].round].end = "died"
       \/ \E n \in calls[c].round + 1 .. accepted[c].during : rounds[n].start = "forced"
=============================================================================
