--------------------------- MODULE OperationsReport ---------------------------
(***************************************************************************)
(* The daily operations report.  cron starts the command every minute; the *)
(* command sends the report when its time has come and writes the time of  *)
(* the sending to the settings, a row the settings form saves as a whole.  *)
(* A process may outlive its minute: the next one then runs beside it.     *)
(*                                                                         *)
(* A day has DayLength minutes.  A sending to one role, by mail or         *)
(* WhatsApp, is one step and succeeds when a channel accepts; a call that  *)
(* times out is a failure, whether the copy arrives or not.  The usual     *)
(* names begin with Report, for a module that extends others beside this.  *)
(***************************************************************************)
EXTENDS Integers

CONSTANTS
    LastDay,        \* the days are 0..LastDay
    DayLength,
    SendTimes,      \* the minutes of the day the report can be set to
    CatchUp,        \* for how long a missed report is still sent
    Roles,          \* the roles with an address
    Full,           \* the report of everything
    Jobs,           \* bound on the processes of the command at a time
    MaxFaults,      \* bound on failed sendings, crashes and missed minutes
    MaxSaves        \* bound on saves of the settings form

Days == 0..LastDay
Minutes == 0..(DayLength - 1)
Times == [day : Days, minute : Minutes]
Never == [day |-> -1, minute |-> 0]

FirstMinute == [day |-> 0, minute |-> 0]

ASSUME ReportAssumption ==
    /\ LastDay \in Nat
    /\ DayLength \in Nat \ {0}
    /\ SendTimes \subseteq Minutes
    /\ CatchUp \in Nat
    /\ Full \notin Roles
    /\ MaxFaults \in Nat /\ MaxSaves \in Nat

VARIABLES
    smooth,     \* whether a process always ends in its minute and no copy arrives
                \* that was reported as failed; never changes
    content,    \* the reports that are not empty: of a role, or Full
    now,
    started,    \* whether cron has started the command in this minute
    settings,   \* the OperationsReportSettings row
    form,       \* what the settings page has read, until it saves
    job,        \* the processes of the command
    copies,     \* history: how often each role got the report of a day, up to 2
    faults,
    saves

ReportVars == <<smooth, content, now, started, settings, form, job, copies, faults, saves>>

-----------------------------------------------------------------------------
Marks == Times \cup {Never}

Forms == [open : BOOLEAN, last : Marks]

Processes == [at : {"idle", "roles", "full"}, start : Times, todo : SUBSET Roles,
              sent : BOOLEAN]

NoProcess == [at |-> "idle", start |-> FirstMinute, todo |-> {}, sent |-> FALSE]

ReportTypeOK ==
    /\ smooth \in BOOLEAN
    /\ content \subseteq Roles \cup {Full}
    /\ now \in Times
    /\ started \in BOOLEAN
    /\ settings \in [enabled : BOOLEAN, time : SendTimes, last : Marks]
    /\ form \in Forms
    /\ job \in [Jobs -> Processes]
    /\ copies \in [Days -> [Roles -> 0..2]]
    /\ faults \in 0..MaxFaults
    /\ saves \in 0..MaxSaves

\* What is in a role's report is in the full one.
ReportInit ==
    /\ smooth \in BOOLEAN
    /\ content \in {c \in SUBSET (Roles \cup {Full}) : c # {} => Full \in c}
    /\ now = FirstMinute
    /\ started = FALSE
    /\ settings \in [enabled : {TRUE}, time : SendTimes, last : {Never}]
    /\ form = [open |-> FALSE, last |-> Never]
    /\ job = [j \in Jobs |-> NoProcess]
    /\ copies = [d \in Days |-> [r \in Roles |-> 0]]
    /\ faults = 0
    /\ saves = 0

-----------------------------------------------------------------------------
(* The command.                                                            *)

\* Mutant: only the minute itself is checked.
Due_ExactMinute(t) == t.minute = settings.time /\ settings.last # t

\* Mutant: a report already sent today is not noticed.
Due_Again(t) ==
    t.minute \in settings.time..(settings.time + CatchUp - 1) /\ settings.last # t

\* scheduled_send_due: in the minute itself unless marked in this minute, or
\* late unless marked today.  The window ends at the first second of its last
\* minute, before the command has started in it.
Due(t) ==
    \/ t.minute = settings.time /\ settings.last # t
    \/ /\ t.minute > settings.time
       /\ settings.last.day < t.day
       /\ t.minute < settings.time + CatchUp

\* cron starts the command, which ends at once unless the report is due.
Launch(j) ==
    /\ ~started
    /\ job[j].at = "idle"
    /\ started' = TRUE
    /\ job' = IF settings.enabled /\ Roles # {} /\ Due(now)
              THEN [job EXCEPT ![j] = [at |-> "roles", start |-> now,
                                       todo |-> Roles \cap content, sent |-> FALSE]]
              ELSE job
    /\ UNCHANGED <<smooth, content, now, settings, form, copies, faults, saves>>

More(n) == IF n = 2 THEN 2 ELSE n + 1

Send(j, r) ==
    /\ r \in job[j].todo
    /\ job' = [job EXCEPT ![j].todo = @ \ {r}, ![j].sent = TRUE]
    /\ copies' = [copies EXCEPT ![job[j].start.day][r] = More(@)]
    /\ UNCHANGED <<smooth, content, now, started, settings, form, faults, saves>>

\* No channel accepts: the error is kept for the log and the next role follows.
SendFails(j, r) ==
    /\ r \in job[j].todo
    /\ faults < MaxFaults
    /\ faults' = faults + 1
    /\ job' = [job EXCEPT ![j].todo = @ \ {r}]
    /\ UNCHANGED <<smooth, content, now, started, settings, form, copies, saves>>

\* A call times out after the copy was taken over: a failure that arrives.
SendTimesOut(j, r) ==
    /\ r \in job[j].todo
    /\ ~smooth
    /\ faults < MaxFaults
    /\ faults' = faults + 1
    /\ job' = [job EXCEPT ![j].todo = @ \ {r}]
    /\ copies' = [copies EXCEPT ![job[j].start.day][r] = More(@)]
    /\ UNCHANGED <<smooth, content, now, started, settings, form, saves>>

\* No sending of a role's report was accepted: everybody gets the full one.
FallBack(j) ==
    /\ job[j].at = "roles" /\ job[j].todo = {} /\ ~job[j].sent
    /\ Full \in content
    /\ job' = [job EXCEPT ![j].at = "full", ![j].todo = Roles]
    /\ UNCHANGED <<smooth, content, now, started, settings, form, copies, faults, saves>>

\* Mutant: the time of the end is written, not that of the start.
Mark_End(j) == IF job[j].sent THEN now ELSE settings.last

\* The time the process began is the time of the sending.
Mark(j) == IF job[j].sent THEN job[j].start ELSE settings.last

Finish(j) ==
    /\ job[j].at # "idle" /\ job[j].todo = {}
    /\ job[j].sent \/ job[j].at = "full" \/ Full \notin content
    /\ settings' = [settings EXCEPT !.last = Mark(j)]
    /\ job' = [job EXCEPT ![j] = NoProcess]
    /\ UNCHANGED <<smooth, content, now, started, form, copies, faults, saves>>

\* The container stops, or an exception ends the command.
Crash(j) ==
    /\ job[j].at # "idle"
    /\ ~smooth
    /\ faults < MaxFaults
    /\ faults' = faults + 1
    /\ job' = [job EXCEPT ![j] = NoProcess]
    /\ UNCHANGED <<smooth, content, now, started, settings, form, copies, saves>>

-----------------------------------------------------------------------------
(* The clock, cron and the settings page.                                  *)

\* The container is down in this minute.
Miss ==
    /\ ~started
    /\ faults < MaxFaults
    /\ faults' = faults + 1
    /\ started' = TRUE
    /\ UNCHANGED <<smooth, content, now, settings, form, job, copies, saves>>

Tomorrow == [day |-> now.day + 1, minute |-> 0]

Soon == IF now.minute + 1 \in Minutes THEN [now EXCEPT !.minute = @ + 1] ELSE Tomorrow

Tick ==
    /\ started
    /\ Soon \in Times
    /\ smooth => \A j \in Jobs : job[j].at = "idle"
    /\ now' = Soon
    /\ started' = FALSE
    /\ UNCHANGED <<smooth, content, settings, form, job, copies, faults, saves>>

\* A request that saves the settings has read the row ...
OpenForm ==
    /\ ~form.open
    /\ saves < MaxSaves
    /\ saves' = saves + 1
    /\ form' = [open |-> TRUE, last |-> settings.last]
    /\ UNCHANGED <<smooth, content, now, started, settings, job, copies, faults>>

\* ... and saves every column of it, the mark of the last sending with them.
SaveForm(enabled, time) ==
    /\ form.open
    /\ settings' = [enabled |-> enabled, time |-> time, last |-> form.last]
    /\ form' = [open |-> FALSE, last |-> Never]
    /\ UNCHANGED <<smooth, content, now, started, job, copies, faults, saves>>

\* The last day is over.
Done ==
    /\ started /\ Soon \notin Times /\ ~form.open
    /\ \A j \in Jobs : job[j].at = "idle"
    /\ UNCHANGED ReportVars

Work(j) == Launch(j) \/ FallBack(j) \/ Finish(j) \/ \E r \in Roles : Send(j, r)

ReportNext ==
    \/ \E j \in Jobs :
        \/ Work(j) \/ Crash(j)
        \/ \E r \in Roles : SendFails(j, r) \/ SendTimesOut(j, r)
    \/ Miss \/ Tick \/ OpenForm
    \/ \E enabled \in BOOLEAN, time \in SendTimes : SaveForm(enabled, time)
    \/ Done

ReportSpec == ReportInit /\ [][ReportNext]_ReportVars

\* Time passes, cron starts the command every minute, and a process goes on.
FairReportSpec ==
    ReportSpec /\ WF_ReportVars(Tick) /\ \A j \in Jobs : WF_ReportVars(Work(j))

-----------------------------------------------------------------------------
(* Properties.                                                             *)

Got(d) == \E r \in Roles : copies[d][r] > 0

\* The settings never claim a sending on a day nobody got the report of that
\* day, which would suppress it: whatever processes overlap, outlive midnight
\* or crash, and whatever an old form brings back.
MarkedIsSent == settings.last # Never => Got(settings.last.day)

\* Nobody gets a report twice while processes end in their minute, nobody touches
\* the settings and what is reported as failed has not arrived, whichever sendings
\* fail or minutes are missed.  A WhatsApp call that times out after the message
\* was taken over breaks the last: the full report or the next minute sends again.
OncePerDay ==
    smooth /\ saves = 0 => \A d \in Days, r \in Roles : copies[d][r] < 2

\* A report that is due, with an address and something to say, and a minute
\* left in which to try again, is sent even if this attempt has failed.
Awaiting(d) ==
    /\ now.day = d /\ now.minute + 1 \in Minutes
    /\ settings.enabled /\ ~started /\ content # {}
    /\ now.minute \in settings.time..(settings.time + CatchUp - 1)
    /\ faults = MaxFaults /\ saves = MaxSaves /\ ~form.open

Arrives == \A d \in Days : Awaiting(d) ~> Got(d)

=============================================================================
