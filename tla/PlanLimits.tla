----------------------------- MODULE PlanLimits -----------------------------
(***************************************************************************)
(* check_rate_limit of backend/app/auth/rate_limit.py: the daily quota of  *)
(* one user's runs, kept in the columns runs_today and runs_reset_date of  *)
(* the user's row and checked by concurrent requests while days pass and   *)
(* the plan changes.  Each of the SELECT, the reset and the increment is   *)
(* a transaction of its own; the date is read when the SELECT returns.     *)
(* A failed statement lets the request through uncounted ("fail open").    *)
(*                                                                         *)
(* A request of a user without a row or without a login is not limited and *)
(* is left out, as is the plan "enterprise" of the token, which no token   *)
(* carries.                                                                *)
(***************************************************************************)
EXTENDS Integers, FiniteSets

CONSTANTS
  Requests,    \* the requests of the user
  Plans,       \* the plans the row may hold
  PLAN_LIMITS, \* runs per day of each, -1 for no limit
  LastDay,     \* bound: the days of a behaviour are 0 .. LastDay
  MaxRuns      \* bound: a plan without a limit runs up to this

ASSUME PlanAssumption ==
  /\ Plans # {}
  /\ PLAN_LIMITS \in [Plans -> (Nat \ {0}) \cup {-1}]
  /\ LastDay \in Nat /\ MaxRuns \in Nat

VARIABLES
  today,      \* the date
  plan,       \* the user's row
  runsToday,
  resetDate,
  reqPc,      \* where each request is
  row,        \* the row it read
  day,        \* the date it took for today
  grants,     \* history: today's runs counted for requests of today whose limit
              \* is at most this, for each limit
  resets,     \* history: resets of the counter today
  overlaps    \* history: those during which another request was under way

userRow == <<plan, runsToday, resetDate>>
requestVars == <<reqPc, row, day>>
grantVars == <<grants, resets, overlaps>>
planVars == <<today, userRow, requestVars, grantVars>>

Day == 0 .. LastDay
Limits == {PLAN_LIMITS[p] : p \in Plans} \ {-1}
Row == [runs : Nat, reset : Day, plan : Plans]

PlanTypeOK ==
  /\ today \in Day
  /\ plan \in Plans
  /\ runsToday \in Nat
  /\ resetDate \in Day
  /\ reqPc \in [Requests -> {"idle", "decide", "reset", "count"}]
  /\ row \in [Requests -> Row]
  /\ day \in [Requests -> Day]
  /\ grants \in [Limits -> Nat]
  /\ resets \in Nat
  /\ overlaps \in Nat

(* The row of a user who has not run anything yet.                           *)
PlanInit ==
  /\ today = 0
  /\ plan \in Plans
  /\ runsToday = 0
  /\ resetDate = 0
  /\ reqPc = [r \in Requests |-> "idle"]
  /\ row = [r \in Requests |-> [runs |-> 0, reset |-> 0, plan |-> plan]]
  /\ day = [r \in Requests |-> 0]
  /\ grants = [l \in Limits |-> 0]
  /\ resets = 0
  /\ overlaps = 0

LimitOf(r) == PLAN_LIMITS[row[r].plan]

Granted(r) ==
  grants' = [l \in Limits |->
               IF day[r] = today /\ LimitOf(r) <= l THEN grants[l] + 1 ELSE grants[l]]

-----------------------------------------------------------------------------

Select(r) ==
  /\ reqPc[r] = "idle"
  /\ row' = [row EXCEPT ![r] = [runs |-> runsToday, reset |-> resetDate, plan |-> plan]]
  /\ reqPc' = [reqPc EXCEPT ![r] = "decide"]
  /\ UNCHANGED <<today, userRow, day, grantVars>>

(* The date is compared, and without a reset the quota too: a request over it is
   answered 429.                                                             *)
Decide(r) ==
  /\ reqPc[r] = "decide"
  /\ day' = [day EXCEPT ![r] = today]
  /\ reqPc' = [reqPc EXCEPT ![r] =
                 IF row[r].reset # today THEN "reset"
                 ELSE IF LimitOf(r) # -1 /\ row[r].runs >= LimitOf(r) THEN "idle"
                 ELSE "count"]
  /\ UNCHANGED <<today, userRow, row, grantVars>>

(* Mutant: the reset writes no date.                                         *)
ResetKeepsDate(r) ==
  /\ reqPc[r] = "reset"
  /\ runsToday' = 0
  /\ resets' = resets + 1
  /\ overlaps' = IF \E q \in Requests \ {r} : reqPc[q] # "idle" THEN overlaps + 1 ELSE overlaps
  /\ reqPc' = [reqPc EXCEPT ![r] = "count"]
  /\ UNCHANGED <<today, plan, resetDate, row, day, grants>>

(* UPDATE ... SET runs_today = 0, with the date the request took.            *)
Reset(r) ==
  /\ reqPc[r] = "reset"
  /\ runsToday' = 0
  /\ resetDate' = day[r]
  /\ resets' = resets + 1
  /\ overlaps' = IF \E q \in Requests \ {r} : reqPc[q] # "idle" THEN overlaps + 1 ELSE overlaps
  /\ reqPc' = [reqPc EXCEPT ![r] = "count"]
  /\ UNCHANGED <<today, plan, row, day, grants>>

(* Mutant: the UPDATE has no condition on the counter.                       *)
CountUnconditional(r) ==
  /\ reqPc[r] = "count"
  /\ LimitOf(r) # -1
  /\ runsToday' = runsToday + 1
  /\ Granted(r)
  /\ reqPc' = [reqPc EXCEPT ![r] = "idle"]
  /\ UNCHANGED <<today, plan, resetDate, row, day, resets, overlaps>>

(* UPDATE ... runs_today + 1 WHERE runs_today < limit; no row means 429.     *)
Count(r) ==
  /\ reqPc[r] = "count"
  /\ LimitOf(r) # -1
  /\ IF runsToday < LimitOf(r)
       THEN /\ runsToday' = runsToday + 1
            /\ Granted(r)
       ELSE UNCHANGED <<runsToday, grants>>
  /\ reqPc' = [reqPc EXCEPT ![r] = "idle"]
  /\ UNCHANGED <<today, plan, resetDate, row, day, resets, overlaps>>

(* A plan without a limit is only counted.                                   *)
CountUnlimited(r) ==
  /\ reqPc[r] = "count"
  /\ LimitOf(r) = -1
  /\ runsToday < MaxRuns
  /\ runsToday' = runsToday + 1
  /\ reqPc' = [reqPc EXCEPT ![r] = "idle"]
  /\ UNCHANGED <<today, plan, resetDate, row, day, grantVars>>

(* A statement fails and the request goes through.                           *)
FailOpen(r) ==
  /\ reqPc[r] # "idle"
  /\ reqPc' = [reqPc EXCEPT ![r] = "idle"]
  /\ UNCHANGED <<today, userRow, row, day, grantVars>>

(* The billing webhook writes another plan.                                  *)
ChangePlan ==
  /\ plan' \in Plans \ {plan}
  /\ UNCHANGED <<today, runsToday, resetDate, requestVars, grantVars>>

Midnight ==
  /\ today < LastDay
  /\ today' = today + 1
  /\ grants' = [l \in Limits |-> 0]
  /\ resets' = 0
  /\ overlaps' = 0
  /\ UNCHANGED <<userRow, requestVars>>

PlanNext ==
  \/ \E r \in Requests :
       Select(r) \/ Decide(r) \/ Reset(r) \/ Count(r) \/ CountUnlimited(r) \/ FailOpen(r)
  \/ ChangePlan
  \/ Midnight

PlanSpec == PlanInit /\ [][PlanNext]_planVars
-----------------------------------------------------------------------------

(* Whatever requests interleave, and however the plan changes under them: after
   each reset no more runs are counted than the limit the requests read.     *)
LimitHoldsBetweenResets == \A l \in Limits : grants[l] <= l * (1 + resets)

(* The quota of a day is exceeded only where a reset overlapped another request,
   once for each: one that read yesterday's date resets a counter that others
   have counted on, or sets the date back.                                   *)
ExceededOnlyByOverlaps == \A l \in Limits : grants[l] <= l * (1 + overlaps)
=============================================================================
