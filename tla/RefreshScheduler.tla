--------------------------- MODULE RefreshScheduler ---------------------------
(***************************************************************************)
(* The two goroutines of main.go that refresh the market by the clock: the *)
(* daily one at 08:00 and 20:00, the hourly one at every other hour.  They *)
(* share nothing; what keeps their refreshes apart is the time of day that *)
(* each of them reads.  Time is in minutes of Asia/Taipei.  A sleep ends   *)
(* up to MaxLate minutes late and never early, a refresh lasts up to MaxRun *)
(* minutes, and reading the clock takes no time.                           *)
(*                                                                         *)
(* The settings are here too: callAI drops the error of http.NewRequest,   *)
(* and panics on a base URL that does not parse.  A scheduler recovers from *)
(* a panic outside its loop.                                               *)
(***************************************************************************)
EXTENDS Integers

CONSTANTS
    MaxRun,     \* the longest refresh
    MaxLate,    \* how late a sleep may end
    EnvUrl,     \* WONKA_AI_BASE_URL, which seeds the settings
    NoUrl       \* no administrator has stored one yet

ASSUME TimesAreMinutes  == MaxRun \in Nat /\ MaxLate \in Nat
\* One call to the AI (30 s) and a dozen statements end well within the hour, and
\* a sleeping goroutine runs again within ten minutes.
ASSUME RefreshesAreShort == MaxLate < 10 /\ MaxLate + MaxRun < 60

Urls == {"unset", "good", "malformed"}
ASSUME EnvUrlIsUrl  == EnvUrl \in Urls
ASSUME NoUrlIsNoUrl == NoUrl \notin Urls

VARIABLES
    now,        \* minute of the day
    pc,         \* pc[s]: what scheduler s is doing
    left,       \* left[s]: minutes until s wakes, or until its refresh must be over
    settings,   \* settings.ai_base_url of the rows of settings
    due,        \* 08:00 or 20:00 has come while the server was up, and no daily refresh
    since,      \* minutes since the start of the server or of the last refresh
    shelf,      \* minutes until expires_at of the current listings, or NoPromise
    put,        \* the base URL an administrator's last PUT asked for
    stored      \* that PUT has found a row to update

timeVars  == <<now, pc, left>>
pastVars  == <<due, since, shelf, put, stored>>      \* nothing in the code reads them
svars     == <<timeVars, settings, pastVars>>

Schedulers == {"daily", "hourly"}
Day        == 24 * 60
Morning    == 8 * 60
Evening    == 20 * 60
NoPromise  == -1
MaxSince   == 60 + MaxLate + 1      \* bound: since is not counted further

Sleeping(s) == pc[s] \in {"asleep", "nap"}
Running(s)  == pc[s] = "running"

GoTo(s, label, minutes) ==
    /\ pc'   = [pc EXCEPT ![s] = label]
    /\ left' = [left EXCEPT ![s] = minutes]

Resume(s, label) == Sleeping(s) /\ left[s] <= 0 /\ GoTo(s, label, 0) /\ UNCHANGED pastVars

-----------------------------------------------------------------------------
(* What both do once awake: run a refresh, which ends well, with an error,  *)
(* or by a panic.                                                            *)

StartRun(s) ==
    /\ GoTo(s, "running", MaxRun)
    /\ since' = 0

\* Mutated: the listings of an hourly refresh expire with the hour.
ExpiresOnTheHour(s) == IF s = "daily" THEN 12 * 60 ELSE 60
ExpiresAfter(s) == IF s = "daily" THEN 12 * 60 ELSE 90

RunEnds(s) ==
    /\ Running(s)
    /\ GoTo(s, "plan", 0)
    /\ shelf' = ExpiresAfter(s)
    /\ UNCHANGED <<now, settings, due, since, put, stored>>

RunFails(s) ==
    /\ Running(s)
    /\ GoTo(s, "plan", 0)
    /\ shelf' = NoPromise
    /\ UNCHANGED <<now, settings, due, since, put, stored>>

\* getAIConfig reads any one row; the environment stands in for what it lacks, and
\* for all of it when the query fails.
FromRow(url) == IF url = "unset" THEN EnvUrl ELSE url
Configured == {EnvUrl} \cup {FromRow(url) : url \in settings}

RunPanics(s) ==
    /\ Running(s)
    /\ "malformed" \in Configured
    /\ GoTo(s, "dead", 0)
    /\ shelf' = NoPromise
    /\ UNCHANGED <<now, settings, due, since, put, stored>>

-----------------------------------------------------------------------------
(* The daily scheduler sleeps until the next 08:00 or 20:00.  It reads the  *)
(* clock after its start or after a refresh, so later than the mark itself. *)

\* Mutated: a mark that has passed is not moved to the next day.
UntilToday(mark) == mark - now
Until(mark) == IF now >= mark THEN mark + Day - now ELSE mark - now

\* Mutated: the later of the two marks is waited for.
DailyPlanLater ==
    /\ pc["daily"] = "plan"
    /\ GoTo("daily", "asleep", IF Until(Evening) < Until(Morning) THEN Until(Morning)
                                                                  ELSE Until(Evening))
    /\ UNCHANGED <<now, settings, pastVars>>

DailyPlan ==
    /\ pc["daily"] = "plan"
    /\ GoTo("daily", "asleep", IF Until(Evening) < Until(Morning) THEN Until(Evening)
                                                                  ELSE Until(Morning))
    /\ UNCHANGED <<now, settings, pastVars>>

DailyWake ==
    /\ Sleeping("daily") /\ left["daily"] <= 0
    /\ StartRun("daily")
    /\ due' = FALSE
    /\ UNCHANGED <<now, settings, shelf, put, stored>>

(* The hourly scheduler sleeps until the next full hour, and looks at the   *)
(* clock before and after: it leaves the first minutes of 8 and 20 to the   *)
(* daily one.                                                                *)

\* Mutated: the whole of the hours 8 and 20 is left to the daily refresh.
WholeHour(m) == now \div 60 \in {8, 20}
InWindow(m) == now \div 60 \in {8, 20} /\ now % 60 < m

HourlyPlan ==
    /\ pc["hourly"] = "plan"
    /\ \/ InWindow(5)  /\ GoTo("hourly", "nap", 10)
       \/ ~InWindow(5) /\ GoTo("hourly", "asleep", 60 - (now % 60))
    /\ UNCHANGED <<now, settings, pastVars>>

NapEnds ==
    /\ pc["hourly"] = "nap"
    /\ Resume("hourly", "plan")
    /\ UNCHANGED <<now, settings>>

\* Mutated: the window is not looked at again after the sleep.
HourlyWakeBlind ==
    /\ pc["hourly"] = "asleep" /\ left["hourly"] <= 0
    /\ StartRun("hourly")
    /\ UNCHANGED <<now, settings, due, shelf, put, stored>>

HourlyWake ==
    /\ pc["hourly"] = "asleep"
    /\ \/ InWindow(10) /\ Resume("hourly", "plan")
       \/ /\ ~InWindow(10) /\ left["hourly"] <= 0
          /\ StartRun("hourly")
          /\ UNCHANGED <<due, shelf, put, stored>>
    /\ UNCHANGED <<now, settings>>

-----------------------------------------------------------------------------
(* The world: time, administrators, and the server's end and start. *)

Up == \A s \in Schedulers : pc[s] # "down"

Tick ==
    /\ \A s \in Schedulers : /\ pc[s] # "plan"
                             /\ Running(s) => left[s] > 0
                             /\ Sleeping(s) => left[s] > -MaxLate
    /\ now'   = (now + 1) % Day
    /\ left'  = [s \in Schedulers |-> IF Running(s) \/ Sleeping(s) THEN left[s] - 1 ELSE 0]
    /\ due'   = (due \/ (Up /\ now' \in {Morning, Evening}))
    /\ since' = IF Up /\ since < MaxSince THEN since + 1 ELSE since
    /\ shelf' = IF shelf > 0 THEN shelf - 1 ELSE shelf
    /\ UNCHANGED <<pc, settings, put, stored>>

\* handleAdminPutSettings: UPDATE without a WHERE.  The rows it has updated are not
\* counted: with none it stores nothing, and answers "ok" all the same.
PutSettings(url) ==
    /\ Up
    /\ settings' = {url : row \in settings}
    /\ put' = url
    /\ stored' = (settings # {})
    /\ UNCHANGED <<timeVars, due, since, shelf>>

Crash ==
    /\ Up
    /\ pc'    = [s \in Schedulers |-> "down"]
    /\ left'  = [s \in Schedulers |-> 0]
    /\ due'   = FALSE
    /\ since' = 0
    /\ shelf' = NoPromise
    /\ UNCHANGED <<now, settings, put, stored>>

\* Mutated: the settings are taken from the environment at every start.
SeedAlways == settings' = {EnvUrl}

\* A row is seeded when there is none, or when counting the rows has failed; an
\* error of either statement is only logged.
SeedSettings == settings' \in {settings, settings \cup {EnvUrl}}

Boot ==
    /\ ~Up
    /\ SeedSettings
    /\ pc' = [s \in Schedulers |-> "plan"]
    /\ UNCHANGED <<now, left, pastVars>>

ScheduleInit ==
    /\ now \in 0..(Day - 1)
    /\ pc       = [s \in Schedulers |-> "down"]
    /\ left     = [s \in Schedulers |-> 0]
    /\ settings = {}
    /\ due      = FALSE
    /\ since    = 0
    /\ shelf    = NoPromise
    /\ put      = NoUrl
    /\ stored   = FALSE

Run(s) == RunEnds(s) \/ RunFails(s) \/ RunPanics(s)

ScheduleNext ==
    \/ Tick \/ Crash \/ Boot
    \/ \E url \in Urls : PutSettings(url)
    \/ DailyPlan \/ DailyWake \/ HourlyPlan \/ NapEnds \/ HourlyWake
    \/ \E s \in Schedulers : Run(s)

ScheduleSpec == ScheduleInit /\ [][ScheduleNext]_svars
=============================================================================
