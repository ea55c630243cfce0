---------------------------- MODULE ScheduleSafety ----------------------------
(* What must be true of the refreshes that run by the clock. *)
EXTENDS RefreshScheduler

Doing == {"down", "plan", "asleep", "nap", "running", "dead"}

\* The clock, the schedulers and the settings have their types; only the hourly
\* scheduler naps.
ScheduleTypeOK ==
    /\ now \in 0..(Day - 1)
    /\ pc \in [Schedulers -> Doing] /\ pc["daily"] # "nap"
    /\ left \in [Schedulers -> (-MaxLate)..Day]
    /\ settings \subseteq Urls /\ put \in Urls \cup {NoUrl} /\ stored \in BOOLEAN
    /\ since \in 0..MaxSince /\ shelf \in NoPromise..(12 * 60)

\* A daily and an hourly refresh that the schedulers start never run at once, over
\* all restarts: the hourly one starts at no mark of the daily one and is over
\* before the next mark (main.go:280-297).
RefreshesStayApart == ~(Running("daily") /\ Running("hourly"))

\* While the server is up, one daily refresh starts for every 08:00 and 20:00, at
\* most MaxLate minutes after, and none again for the same mark, whether it fails or
\* the server restarts (main.go:239-262).  One that fails is not made up for: the
\* mark then has had its refresh, and no event.
MarkOf(minute) == IF minute >= Evening THEN Evening ELSE Morning
OneRunPerMark ==
    [][/\ Running("daily")' /\ ~Running("daily") => due
       /\ due' /\ pc'["daily"] # "dead" => now' - MarkOf(now') \in 0..MaxLate]_svars

\* While both schedulers live, no hour goes by without the start of a refresh: where
\* the hourly scheduler skips, the daily one runs, and a skip does not cost the hour
\* after it (main.go:279-297).
Alive(s) == pc[s] # "dead"
EveryHourHasARefresh == (\A s \in Schedulers : Alive(s)) => since < MaxSince

\* What is listed is replaced before its expires_at (nothing else takes it off the
\* market), unless the refresh that should have replaced it failed
\* (refresh.go:101, 290, 334).
ListingsAreCurrent == (\A s \in Schedulers : Alive(s)) => shelf # 0

\* What a PUT has found a row for stays through restarts of the server, until the
\* next PUT, though a start that cannot count the rows adds one of the environment
\* next to it; and after a PUT that found none there is nothing but what a start has
\* seeded (main.go:118-136, admin.go:239-246).
SettingsAreKept ==
    put # NoUrl => IF stored THEN put \in settings /\ settings \subseteq {put, EnvUrl}
                             ELSE settings \subseteq {EnvUrl}

-----------------------------------------------------------------------------
\* SKILL.md:189: events and prices are refreshed every day at 08:00 and 20:00.  So a
\* server that is up, and whose base URL parses, serves every mark.
EveryMarkHasAnEvent ==
    due /\ "malformed" \notin Configured => now - MarkOf(now) \in 0..MaxLate
=============================================================================
