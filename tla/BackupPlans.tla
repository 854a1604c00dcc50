----------------------------- MODULE BackupPlans -----------------------------
(***************************************************************************)
(* When backups are made: the backup configurations and the older per-site *)
(* schedules (internal/apihttp/backup_configs.go, backup_schedules.go and  *)
(* their stores), the storage providers they name (backup_providers.go),   *)
(* the cron arithmetic, and the scheduler's tick that runs what is due     *)
(* (internal/jobs/scheduler.go).                                           *)
(*                                                                         *)
(* The calendar keeps its structure at a small scale: minutes, hours, days *)
(* of a month, months and a week that does not divide the month.  A record *)
(* in the works is only its site, its scope and where it will be stored;   *)
(* its life is the subject of BackupRecords.                               *)
(***************************************************************************)
EXTENDS Integers, FiniteSets

CONSTANTS
    Minutes, Hours, Days, Months, Week,   \* minutes per hour, hours per day, ...
    Horizon,      \* bound: the clock stops here
    CronExprs,    \* the expressions that requests send: five sequences of parts
    CronGrid,     \* the expressions the search itself is compared on
    SiteIds,      \* sites, by id
    DbSites,      \* the sites that have a database
    PlanProviders,    \* provider ids
    PlanIds,        \* ids of configurations and of schedules
    PlanWorkloads,    \* the mixes of requests that arrive: "config", "schedule", "provider", "run";
                      \* in the mix {"search"} none does, and CronGrid is searched
    ZoneAhead     \* how far the host's zone is ahead of UTC, in minutes

ASSUME PlansAssumption ==
    /\ {Minutes, Hours, Days, Months, Week} \subseteq Nat \ {0}
    /\ Horizon \in Nat /\ ZoneAhead \in Nat
    /\ SiteIds # {} /\ DbSites \subseteq SiteIds /\ PlanIds # {} /\ CronExprs # {}
    /\ PlanWorkloads \subseteq SUBSET {"config", "schedule", "provider", "run", "search"}

VARIABLES
    planLoad,        \* the mix of this behaviour
    now,
    site,        \* per site: its status and its own provider
    configs,     \* the backup_configs table
    schedules,   \* the backup_schedules table
    providers,   \* the backup_storage_providers table
    active,      \* records pending or running, each with its job
    planTick,        \* where the scheduler stands in runTick
    request      \* where the overlapping API request stands

planVars == <<planLoad, now, site, configs, schedules, providers, active, planTick, request>>

-----------------------------------------------------------------------------
(* Cron expressions. *)

MinuteOf(t) == t % Minutes
HourOf(t) == (t \div Minutes) % Hours
DayLength == Minutes * Hours
DayOf(t) == ((t \div DayLength) % Days) + 1
WeekdayOf(t) == (t \div DayLength) % Week
MonthLength == DayLength * Days
MonthOf(t) == ((t \div MonthLength) % Months) + 1
YearLength == MonthLength * Months

\* One comma-separated part of a field: "*", "a/n" or "*/n", "a-b", or a value.
\* A step of zero counts as one; what lies outside the field's range is dropped.
parsePart(part, min, max) ==
    CASE part.kind = "star" -> min..max
      [] part.kind = "step" ->
            LET step == IF part.to <= 0 THEN 1 ELSE part.to
            IN  {v \in min..max : v >= part.from /\ (v - part.from) % step = 0}
      [] part.kind = "range" -> (part.from..part.to) \cap (min..max)
      [] part.kind = "value" -> {part.from} \cap (min..max)

parseCronField(field, min, max) ==
    UNION {parsePart(field[i], min, max) : i \in DOMAIN field}

\* The five fields as sets of values.
Parsed(cron) ==
    [minutes |-> parseCronField(cron[1], 0, Minutes - 1),
     hours   |-> parseCronField(cron[2], 0, Hours - 1),
     days    |-> parseCronField(cron[3], 1, Days),
     months  |-> parseCronField(cron[4], 1, Months),
     week    |-> parseCronField(cron[5], 0, Week - 1)]

\* Day of month and day of week: when both are restricted, either will do.
DayMatches(p, t) ==
    LET domAll == Cardinality(p.days) = Days
        dowAll == Cardinality(p.week) = Week
        dayMatch == DayOf(t) \in p.days
        weekMatch == WeekdayOf(t) \in p.week
    IN  CASE domAll /\ dowAll -> TRUE
          [] domAll /\ ~dowAll -> weekMatch
          [] ~domAll /\ dowAll -> dayMatch
          [] OTHER -> dayMatch \/ weekMatch

Hit(p, t) ==
    /\ MonthOf(t) \in p.months /\ DayMatches(p, t)
    /\ HourOf(t) \in p.hours /\ MinuteOf(t) \in p.minutes

\* Where the search goes from a minute that is no match.
Jump(p, t) ==
    IF MonthOf(t) \notin p.months THEN (t \div MonthLength + 1) * MonthLength
    ELSE IF ~DayMatches(p, t) THEN (t \div DayLength + 1) * DayLength
    ELSE t + 1

SearchLimit == YearLength + 1   \* 525960 rounds: a year of minutes

\* The rounds outlast the days in which months and weekdays meet again: 525960
\* of them, where a round passes a minute of a day that matches or a day.
ASSUME SearchAssumption == Days * Months * Week + DayLength <= SearchLimit + 1

\* Mutant: the search starts at the minute of the run itself.
NextCronRunSame(cron, after) ==
    LET p == Parsed(cron)
        at[i \in 0..SearchLimit] ==
            IF i = 0 THEN after
            ELSE LET t == at[i - 1] IN IF Hit(p, t) THEN t ELSE Jump(p, t)
    IN  IF Hit(p, at[SearchLimit]) THEN at[SearchLimit] ELSE after + DayLength

NextCronRun(cron, after) ==
    LET p == Parsed(cron)
        at[i \in 0..SearchLimit] ==
            IF i = 0 THEN after + 1
            ELSE LET t == at[i - 1] IN IF Hit(p, t) THEN t ELSE Jump(p, t)
    IN  IF Hit(p, at[SearchLimit]) THEN at[SearchLimit] ELSE after + DayLength

\* What it is for: the first matching minute, or a day later if there is none.
EarliestMatch(cron, after) ==
    LET p == Parsed(cron)
        matches == {t \in (after + 1)..(after + YearLength * Week) : Hit(p, t)}
    IN  IF matches = {} THEN after + DayLength
        ELSE CHOOSE t \in matches : \A u \in matches : t <= u

-----------------------------------------------------------------------------
(* Rows.  An id whose row was never inserted is "none": ids are not reused. *)

PlanScopes == {"files", "database", "both"}
NoProvider == 0
Never == -1
AnyCron == CHOOSE c \in CronExprs : TRUE

\* usedCron and usedAt are history: what next_run_at was computed from.
UnusedPlan == [status |-> "none", scope |-> "files", sites |-> {}, provider |-> NoProvider, cron |-> AnyCron,
               enabled |-> FALSE, next |-> Never, usedCron |-> AnyCron, usedAt |-> 0]
UnusedProvider == [status |-> "none", default |-> FALSE]

\* todo: the sites that a run has still to do; listed, at and failed are
\* history: what the tick found due, when, and what it gave up.
NoTick == [pc |-> "idle", due |-> {}, cur |-> 0, scope |-> "files", cron |-> AnyCron, storage |-> NoProvider, todo |-> {},
           listed |-> {}, at |-> 0, failed |-> {}]
NoRequest == [pc |-> "idle", id |-> 0, scope |-> "files", cron |-> AnyCron, flag |-> FALSE,
              storage |-> NoProvider, todo |-> {}]

PlansInit ==
    /\ planLoad \in PlanWorkloads
    /\ now = 0
    /\ site \in [SiteIds -> [status : {"active", "pending"}, provider : {NoProvider}]]
    /\ configs = [c \in PlanIds |-> UnusedPlan]
    /\ schedules = [s \in PlanIds |-> UnusedPlan]
    /\ providers = [p \in PlanProviders |-> UnusedProvider]
    /\ active = {}
    /\ planTick = NoTick
    /\ request = NoRequest

-----------------------------------------------------------------------------
(* The tables. *)

LiveRows(table) == {x \in DOMAIN table : table[x].status = "live"}
Defaults == {p \in LiveRows(providers) : providers[p].default}

\* GetByID of a provider that was deleted answers nil: the backup stays local.
GetByID(p) == IF p \in LiveRows(providers) THEN p ELSE NoProvider
\* GetDefault: some row with is_default = 1.
GetDefault == IF Defaults = {} THEN NoProvider ELSE CHOOSE p \in Defaults : TRUE

\* next_run_at computed from the row's own expression, as Create and Update do.
Scheduled(row) ==
    [row EXCEPT !.next = NextCronRun(row.cron, now), !.usedCron = row.cron, !.usedAt = now]

\* MarkRun's UPDATE, with the expression its SELECT has read; no row, no effect.
MarkedRun(table, x, cron) ==
    IF x \in LiveRows(table)
    THEN [table EXCEPT ![x].next = NextCronRun(cron, now), ![x].usedCron = cron, ![x].usedAt = now]
    ELSE table

\* ListDue of the configurations, whose times are stored in UTC.
DueConfigs ==
    {c \in LiveRows(configs) : configs[c].enabled /\ (configs[c].next = Never \/ configs[c].next <= now)}
\* ListDue of the schedules, whose times are stored in the host's zone and
\* compared with a UTC time.
DueSchedules ==
    {s \in LiveRows(schedules) : /\ schedules[s].enabled
                                 /\ schedules[s].next = Never \/ schedules[s].next + ZoneAhead <= now}

\* ResolveBackupConfigSiteIDs: every active site for an empty list, unless the
\* scope is "files".
ResolveSites(row) ==
    IF row.sites # {} THEN row.sites
    ELSE IF row.scope = "files" THEN {}
    ELSE {s \in SiteIds : site[s].status = "active"}

\* A record and its job for each thing to back up.  Backups.Create refuses a
\* second record of the same site and scope.
Duplicate(s, scope) == \E r \in active : r.site = s /\ r.scope = scope
Created(recs, s, scope, storage) ==
    IF \E r \in recs : r.site = s /\ r.scope = scope THEN recs
    ELSE recs \cup {[site |-> s, scope |-> scope, storage |-> storage]}

HasActiveJob(s) == \E r \in active : r.site = s

-----------------------------------------------------------------------------
(* Requests.  A handler reads a row, then writes it back. *)

\* POST /backup-configs
CreateConfig ==
    /\ request.pc = "idle" /\ "config" \in planLoad
    /\ \E c \in PlanIds, scope \in PlanScopes, sites \in SUBSET SiteIds,
          p \in PlanProviders \cup {NoProvider}, cron \in CronExprs :
          /\ configs[c] = UnusedPlan
          /\ configs' = [configs EXCEPT ![c] =
                           Scheduled([UnusedPlan EXCEPT !.status = "live", !.scope = scope, !.sites = sites,
                                                    !.provider = p, !.cron = cron, !.enabled = TRUE])]
    /\ UNCHANGED <<planLoad, now, site, schedules, providers, active, planTick, request>>

\* PATCH /backup-configs/:id reads the row and lays the body over it.  A change of
\* scope, sites or provider is left out: a run works on the row it has read.
UpdateConfig ==
    /\ request.pc = "idle" /\ "config" \in planLoad
    /\ \E c \in LiveRows(configs), cron \in CronExprs, enabled \in BOOLEAN :
          request' = [NoRequest EXCEPT !.pc = "update config", !.id = c,
                                       !.cron = cron, !.flag = enabled]
    /\ UNCHANGED <<planLoad, now, site, configs, schedules, providers, active, planTick>>

\* UPDATE backup_configs, next_run_at included.
WriteConfig ==
    /\ request.pc = "update config"
    /\ configs' = IF request.id \in LiveRows(configs)
                  THEN [configs EXCEPT ![request.id] =
                          Scheduled([@ EXCEPT !.cron = request.cron, !.enabled = request.flag])]
                  ELSE configs
    /\ request' = NoRequest
    /\ UNCHANGED <<planLoad, now, site, schedules, providers, active, planTick>>

DeleteConfig ==
    /\ request.pc = "idle" /\ "config" \in planLoad
    /\ \E c \in LiveRows(configs) : configs' = [configs EXCEPT ![c].status = "gone"]
    /\ UNCHANGED <<planLoad, now, site, schedules, providers, active, planTick, request>>

\* POST /sites/:id/schedules leaves next_run_at empty: due at the next tick.
CreateSchedule ==
    /\ request.pc = "idle" /\ "schedule" \in planLoad
    /\ \E c \in PlanIds, scope \in PlanScopes, s \in SiteIds, cron \in CronExprs :
          /\ schedules[c] = UnusedPlan /\ site[s].status # "gone"
          /\ schedules' = [schedules EXCEPT ![c] =
                             [UnusedPlan EXCEPT !.status = "live", !.scope = scope, !.sites = {s},
                                            !.cron = cron, !.enabled = TRUE]]
    /\ UNCHANGED <<planLoad, now, site, configs, providers, active, planTick, request>>

UpdateSchedule ==
    /\ request.pc = "idle" /\ "schedule" \in planLoad
    /\ \E c \in LiveRows(schedules), cron \in CronExprs, enabled \in BOOLEAN :
          request' = [NoRequest EXCEPT !.pc = "update schedule", !.id = c,
                                       !.cron = cron, !.flag = enabled]
    /\ UNCHANGED <<planLoad, now, site, configs, schedules, providers, active, planTick>>

\* UPDATE backup_schedules leaves the times alone.
WriteSchedule ==
    /\ request.pc = "update schedule"
    /\ schedules' = IF request.id \in LiveRows(schedules)
                    THEN [schedules EXCEPT ![request.id].cron = request.cron,
                                           ![request.id].enabled = request.flag]
                    ELSE schedules
    /\ request' = NoRequest
    /\ UNCHANGED <<planLoad, now, site, configs, providers, active, planTick>>

DeleteSchedule ==
    /\ request.pc = "idle" /\ "schedule" \in planLoad
    /\ \E c \in LiveRows(schedules) : schedules' = [schedules EXCEPT ![c].status = "gone"]
    /\ UNCHANGED <<planLoad, now, site, configs, providers, active, planTick, request>>

\* normalizeProviderEndpointRegion: which providers need an endpoint or a region
\* of the caller, and what the others get by default.
NormalizeProvider(type, endpoint, region) ==
    LET needsRegion == type \in {"b2", "wasabi", "digitalocean"}
        needsEndpoint == type \in {"r2", "generic"}
        ownHost == type \in {"r2", "b2", "wasabi", "digitalocean"}
        refused == \/ needsRegion /\ region \in {"", "auto"}
                   \/ needsEndpoint /\ endpoint = ""
                   \/ ownHost /\ endpoint = "foreign"
                   \/ endpoint = "undotted"
    IN  [ok |-> ~refused,
         endpoint |-> IF endpoint # "" THEN endpoint ELSE IF type = "s3" THEN "foreign" ELSE "own",
         region |-> CASE type = "s3" /\ region \in {"", "auto"} -> "us-east-1"
                      [] type \in {"r2", "generic"} /\ region = "" -> "auto"
                      [] OTHER -> region]

ProviderInputs ==
    {"s3", "b2", "r2", "wasabi", "digitalocean", "generic"}
        \X {"", "own", "foreign", "undotted"} \X {"", "auto", "given"}
Accepted == {i \in ProviderInputs : NormalizeProvider(i[1], i[2], i[3]).ok}

\* POST /backup-providers: a default provider first clears the others' flag.
CreateProvider ==
    /\ request.pc = "idle" /\ "provider" \in planLoad /\ Accepted # {}
    /\ \E p \in PlanProviders, default \in BOOLEAN :
          /\ providers[p].status = "none"
          /\ request' = [NoRequest EXCEPT !.pc = "insert provider", !.id = p, !.flag = default]
          /\ providers' = IF default THEN [q \in PlanProviders |-> [providers[q] EXCEPT !.default = FALSE]]
                          ELSE providers
    /\ UNCHANGED <<planLoad, now, site, configs, schedules, active, planTick>>

InsertProvider ==
    /\ request.pc = "insert provider"
    /\ providers' = [providers EXCEPT ![request.id] = [status |-> "live", default |-> request.flag]]
    /\ request' = NoRequest
    /\ UNCHANGED <<planLoad, now, site, configs, schedules, active, planTick>>

\* PATCH /backup-providers/:id clears the flag of the other rows only.
UpdateProvider ==
    /\ request.pc = "idle" /\ "provider" \in planLoad
    /\ \E p \in LiveRows(providers), default \in BOOLEAN :
          /\ request' = [NoRequest EXCEPT !.pc = "write provider", !.id = p, !.flag = default]
          /\ providers' = [q \in PlanProviders |->
                             [providers[q] EXCEPT !.default = @ /\ (q = p \/ ~default)]]
    /\ UNCHANGED <<planLoad, now, site, configs, schedules, active, planTick>>

WriteProvider ==
    /\ request.pc = "write provider"
    /\ providers' = IF request.id \in LiveRows(providers)
                    THEN [providers EXCEPT ![request.id].default = request.flag] ELSE providers
    /\ request' = NoRequest
    /\ UNCHANGED <<planLoad, now, site, configs, schedules, active, planTick>>

\* DELETE /backup-providers/:id looks at no configuration that names it.
DeleteProvider ==
    /\ request.pc = "idle" /\ "provider" \in planLoad
    /\ \E p \in LiveRows(providers) : providers' = [providers EXCEPT ![p] = [status |-> "gone", default |-> FALSE]]
    /\ UNCHANGED <<planLoad, now, site, configs, schedules, active, planTick, request>>

\* POST /backup-configs/:id/run: the provider and the sites, then site by site.
RunConfig ==
    /\ request.pc = "idle" /\ "run" \in planLoad
    /\ \E c \in LiveRows(configs) :
          request' = [NoRequest EXCEPT !.pc = "run", !.id = c, !.scope = configs[c].scope,
                        !.storage = IF configs[c].provider # NoProvider
                                    THEN GetByID(configs[c].provider) ELSE GetDefault,
                        !.todo = ResolveSites(configs[c])]
    /\ UNCHANGED <<planLoad, now, site, configs, schedules, providers, active, planTick>>

\* Neither the site's status nor its active jobs are looked at.
RunConfigSite ==
    /\ request.pc = "run"
    /\ IF request.todo = {}
       THEN /\ request' = [request EXCEPT !.pc = "run mark", !.scope = "files", !.storage = NoProvider]
            /\ UNCHANGED active
       ELSE \E s \in request.todo :
              /\ request' = [request EXCEPT !.todo = @ \ {s}]
              /\ active' = IF site[s].status = "gone" \/ (request.scope = "database" /\ s \notin DbSites)
                           THEN active
                           ELSE Created(active, s, request.scope, request.storage)
    /\ UNCHANGED <<planLoad, now, site, configs, schedules, providers, planTick>>

RunConfigMark ==
    /\ request.pc = "run mark"
    /\ request' = IF request.id \in LiveRows(configs)
                  THEN [request EXCEPT !.pc = "run write", !.cron = configs[request.id].cron] ELSE NoRequest
    /\ UNCHANGED <<planLoad, now, site, configs, schedules, providers, active, planTick>>

RunConfigWrite ==
    /\ request.pc = "run write"
    /\ configs' = MarkedRun(configs, request.id, request.cron)
    /\ request' = NoRequest
    /\ UNCHANGED <<planLoad, now, site, schedules, providers, active, planTick>>

-----------------------------------------------------------------------------
(* runTick. *)

TickStart ==
    /\ planTick.pc = "idle"
    /\ planTick' = [NoTick EXCEPT !.pc = "schedules", !.due = DueSchedules, !.at = now,
                                  !.listed = {<<"schedule", s>> : s \in DueSchedules}]
    /\ UNCHANGED <<planLoad, now, site, configs, schedules, providers, active, request>>

\* Schedule, then site, then the default one.
ScheduleStorage(row, s) ==
    IF row.provider # NoProvider THEN GetByID(row.provider)
    ELSE IF site[s].provider # NoProvider THEN GetByID(site[s].provider)
    ELSE GetDefault

\* The records of a schedule: its own, and one for the databases; those of a
\* "database" schedule are refused because its own has their site and scope.
ScheduleRecords(row, s) ==
    LET storage == ScheduleStorage(row, s)
        own == Created(active, s, row.scope, storage)
    IN  IF row.scope = "both" /\ s \in DbSites THEN Created(own, s, "database", storage) ELSE own

\* processSchedule: an error (no site, or a record in the works already) leaves
\* the schedule due.
ProcessSchedule ==
    /\ planTick.pc = "schedules" /\ planTick.due # {}
    /\ \E x \in planTick.due :
          LET row == schedules[x]
              s == CHOOSE y \in row.sites : TRUE
              fails == site[s].status = "gone" \/ Duplicate(s, row.scope)
          IN  /\ planTick' = [planTick EXCEPT !.due = @ \ {x}, !.cur = x,
                                 !.pc = IF fails THEN "schedules" ELSE "mark schedule",
                                 !.failed = IF fails THEN @ \cup {<<"schedule", x>>} ELSE @]
              /\ active' = IF fails THEN active ELSE ScheduleRecords(row, s)
    /\ UNCHANGED <<planLoad, now, site, configs, schedules, providers, request>>

\* MarkRun: SELECT cron_expr, then UPDATE.
MarkSchedule ==
    /\ planTick.pc = "mark schedule"
    /\ planTick' = IF planTick.cur \in LiveRows(schedules)
                   THEN [planTick EXCEPT !.pc = "write schedule", !.cron = schedules[planTick.cur].cron]
                   ELSE [planTick EXCEPT !.pc = "schedules"]
    /\ UNCHANGED <<planLoad, now, site, configs, schedules, providers, active, request>>

WriteScheduleRun ==
    /\ planTick.pc = "write schedule"
    /\ schedules' = MarkedRun(schedules, planTick.cur, planTick.cron)
    /\ planTick' = [planTick EXCEPT !.pc = "schedules", !.cron = AnyCron]
    /\ UNCHANGED <<planLoad, now, site, configs, providers, active, request>>

SchedulesDone ==
    /\ planTick.pc = "schedules" /\ planTick.due = {}
    /\ planTick' = [planTick EXCEPT !.pc = "configs", !.due = DueConfigs, !.cur = 0,
                                !.listed = @ \cup {<<"config", c>> : c \in DueConfigs}]
    /\ UNCHANGED <<planLoad, now, site, configs, schedules, providers, active, request>>

\* processBackupConfig works on the row that ListDue has read; resolving the
\* sites may fail, and the configuration stays due.
ProcessConfig ==
    /\ planTick.pc = "configs" /\ planTick.due # {}
    /\ \E c \in planTick.due :
          \/ planTick' = [planTick EXCEPT !.due = @ \ {c}, !.failed = @ \cup {<<"config", c>>}]
          \/ planTick' = [planTick EXCEPT !.due = @ \ {c}, !.cur = c, !.pc = "sites", !.scope = configs[c].scope,
                            !.storage = IF configs[c].provider # NoProvider
                                        THEN GetByID(configs[c].provider) ELSE GetDefault,
                            !.todo = ResolveSites(configs[c])]
    /\ UNCHANGED <<planLoad, now, site, configs, schedules, providers, active, request>>

\* One site: only an active one, and none that already has a backup job.
ProcessConfigSite ==
    /\ planTick.pc = "sites"
    /\ IF planTick.todo = {}
       THEN /\ planTick' = [planTick EXCEPT !.pc = "mark config", !.scope = "files", !.storage = NoProvider]
            /\ UNCHANGED active
       ELSE \E s \in planTick.todo :
              /\ planTick' = [planTick EXCEPT !.todo = @ \ {s}]
              /\ active' = IF \/ site[s].status # "active" \/ HasActiveJob(s)
                              \/ planTick.scope = "database" /\ s \notin DbSites
                           THEN active
                           ELSE Created(active, s, planTick.scope, planTick.storage)
    /\ UNCHANGED <<planLoad, now, site, configs, schedules, providers, request>>

MarkConfig ==
    /\ planTick.pc = "mark config"
    /\ planTick' = IF planTick.cur \in LiveRows(configs)
                   THEN [planTick EXCEPT !.pc = "write config", !.cron = configs[planTick.cur].cron]
                   ELSE [planTick EXCEPT !.pc = "configs", !.cron = AnyCron]
    /\ UNCHANGED <<planLoad, now, site, configs, schedules, providers, active, request>>

\* Mutant: the run is noted but the next one is not computed.
WriteConfigRunKept ==
    /\ planTick.pc = "write config"
    /\ planTick' = [planTick EXCEPT !.pc = "configs", !.cron = AnyCron]
    /\ UNCHANGED <<planLoad, now, site, configs, schedules, providers, active, request>>

WriteConfigRun ==
    /\ planTick.pc = "write config"
    /\ configs' = MarkedRun(configs, planTick.cur, planTick.cron)
    /\ planTick' = [planTick EXCEPT !.pc = "configs", !.cron = AnyCron]
    /\ UNCHANGED <<planLoad, now, site, schedules, providers, active, request>>

\* The rest of the tick touches no plan.
TickEnd ==
    /\ planTick.pc = "configs" /\ planTick.due = {}
    /\ planTick' = NoTick
    /\ UNCHANGED <<planLoad, now, site, configs, schedules, providers, active, request>>

-----------------------------------------------------------------------------
(* The surroundings. *)

Clock == /\ now < Horizon /\ now' = now + 1
         /\ UNCHANGED <<planLoad, site, configs, schedules, providers, active, planTick, request>>

\* The worker ends a backup, one way or the other.
Settle == /\ \E r \in active : active' = active \ {r}
          /\ UNCHANGED <<planLoad, now, site, configs, schedules, providers, planTick, request>>

\* A site is gone with its schedules (ON DELETE CASCADE) and its backups.
DeleteSite ==
    /\ \E s \in SiteIds :
          /\ site[s].status # "gone"
          /\ site' = [site EXCEPT ![s].status = "gone"]
          /\ schedules' = [x \in PlanIds |-> IF x \in LiveRows(schedules) /\ schedules[x].sites = {s}
                                             THEN [schedules[x] EXCEPT !.status = "gone"] ELSE schedules[x]]
          /\ active' = {r \in active : r.site # s}
    /\ UNCHANGED <<planLoad, now, configs, providers, planTick, request>>

\* PUT /sites/:id/backup-provider
SetSiteProvider ==
    /\ "provider" \in planLoad
    /\ \E s \in SiteIds, p \in PlanProviders \cup {NoProvider} :
          site[s].status # "gone" /\ site' = [site EXCEPT ![s].provider = p]
    /\ UNCHANGED <<planLoad, now, configs, schedules, providers, active, planTick, request>>

PlansNext ==
    \/ CreateConfig \/ UpdateConfig \/ WriteConfig \/ DeleteConfig
    \/ CreateSchedule \/ UpdateSchedule \/ WriteSchedule \/ DeleteSchedule
    \/ CreateProvider \/ InsertProvider \/ UpdateProvider \/ WriteProvider \/ DeleteProvider
    \/ RunConfig \/ RunConfigSite \/ RunConfigMark \/ RunConfigWrite
    \/ TickStart \/ ProcessSchedule \/ MarkSchedule \/ WriteScheduleRun \/ SchedulesDone
    \/ ProcessConfig \/ ProcessConfigSite \/ MarkConfig \/ WriteConfigRun \/ TickEnd
    \/ Clock \/ Settle \/ DeleteSite \/ SetSiteProvider

PlansSpec == PlansInit /\ [][PlansNext]_planVars

-----------------------------------------------------------------------------
(* Properties. *)

\* next_run_at of a configuration, and of a schedule that has run, is the first
\* minute after the computation that the expression names: NextCronRun's jumps
\* over months and days skip no match and stop at none that is not one.  The search
\* is compared from every minute of a cycle of years and weeks, too.
NextRunIsEarliest ==
    /\ \A table \in {configs, schedules} : \A x \in LiveRows(table) :
          table[x].next # Never => table[x].next = EarliestMatch(table[x].usedCron, table[x].usedAt)
    /\ planLoad = {"search"} =>
          \A cron \in CronGrid, t \in 0..(YearLength * Week) : NextCronRun(cron, t) = EarliestMatch(cron, t)

\* A tick leaves nothing behind: what it found due and did not give up has a new
\* time in the future of the tick, whatever was patched, run by hand or deleted
\* meanwhile.
TickHandlesDue ==
    planTick.pc = "configs" /\ planTick.due = {} =>
        \A d \in planTick.listed \ planTick.failed :
            LET table == IF d[1] = "config" THEN configs ELSE schedules
            IN  d[2] \in LiveRows(table) => table[d[2]].next > planTick.at
=============================================================================
