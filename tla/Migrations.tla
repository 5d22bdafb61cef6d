----------------------------- MODULE Migrations -----------------------------
(***************************************************************************)
(* The database schema: what the migrations build, up and down, and what   *)
(* types.ts says of it; and the deploys that run them beside the code that *)
(* is still running.                                                       *)
(*                                                                         *)
(* A column is "required" (not null, no default), "generated" (not null,   *)
(* with a default) or "nullable": what an insert and a select of the code  *)
(* depend on.  A release is told by its number of migrations.  Of the data *)
(* only the rows of one store and technology are kept, which 0010 rewrites.*)
(***************************************************************************)
EXTENDS Naturals, Sequences

CONSTANTS
  Release,      \* releases that are deployed, by their number of migrations
  Deploy,       \* deploys that may be under way at once
  MaxMishaps,   \* bound: failed migrations and rollbacks
  MaxRows       \* bound: rows of the store and technology

---------------------------------------------------------------------------
(* The tables and the statements that change them. *)

Columns(required, generated, nullable) ==
  [c \in required \cup generated \cup nullable |->
     IF c \in required THEN "required" ELSE IF c \in generated THEN "generated" ELSE "nullable"]

\* A table: its columns, its unique constraints, the tables its keys point at.
Table(name, columns, unique, references) ==
  [name |-> name, columns |-> columns, unique |-> unique, references |-> references]

\* The Postgres that executes the statements.  "sound" says that each of them
\* so far found what it needs.
EmptySchema == [tables |-> {}, indexes |-> {}, sound |-> TRUE]

Names(s) == {t.name : t \in s.tables}

CreateTable(s, table) ==
  [tables |-> s.tables \cup {table}, indexes |-> s.indexes,
   sound |-> s.sound /\ table.name \notin Names(s) /\ table.references \subseteq Names(s)]

DropTable(s, name) ==
  [tables |-> {t \in s.tables : t.name # name}, indexes |-> {i \in s.indexes : i[1] # name},
   sound |-> s.sound /\ name \in Names(s) /\ \A t \in s.tables : name \notin t.references]

CreateIndex(s, index) ==
  [tables |-> s.tables, indexes |-> s.indexes \cup {index},
   sound |-> s.sound /\ index[1] \in Names(s) /\ \A i \in s.indexes : i[2] # index[2]]

DropIndex(s, name) ==
  [tables |-> s.tables, indexes |-> {i \in s.indexes : i[2] # name},
   sound |-> s.sound /\ \E i \in s.indexes : i[2] = name]

AlterColumns(s, name, columns) ==
  [tables |-> {IF t.name = name THEN [t EXCEPT !.columns = columns] ELSE t : t \in s.tables},
   indexes |-> s.indexes, sound |-> s.sound]

---------------------------------------------------------------------------
(* The migrations, each a way up and a way down.  All but 0010 create      *)
(* tables and indexes and drop them again; an index goes with its table.   *)

M0001Up(s) ==
  CreateTable(s, Table("stores", Columns({"domain"}, {"id", "created_at"}, {"name"}), {{"id"}, {"domain"}}, {}))
M0001Down(s) == DropTable(s, "stores")

Users ==
  Table("users",
    Columns({"email", "password_hash"}, {"id", "role", "created_at", "updated_at"}, {"name", "last_login_at"}),
    {{"id"}, {"email"}}, {})
UserSessions ==
  Table("user_sessions",
    Columns({"user_id", "refresh_token", "expires_at"}, {"id", "created_at"}, {"revoked_at", "last_used_at"}),
    {{"id"}, {"refresh_token"}}, {"users"})
M0002Up(s) ==
  CreateIndex(CreateIndex(CreateTable(CreateTable(s, Users), UserSessions),
                          <<"user_sessions", "user_sessions_user_id_idx">>),
              <<"user_sessions", "user_sessions_refresh_token_idx">>)
M0002Down(s) == DropTable(DropTable(s, "user_sessions"), "users")

M0003Up(s) ==
  CreateIndex(CreateTable(s, Table("store_crawls", Columns({"store_id", "status"}, {"id", "created_at"}, {}),
                                   {{"id"}}, {"stores"})),
              <<"store_crawls", "store_crawls_store_id_idx">>)
M0003Down(s) == DropTable(s, "store_crawls")

M0004Up(s) ==
  CreateIndex(CreateTable(s, Table("store_metadata",
                                   Columns({"store_id"}, {"id", "created_at"}, {"platform", "homepage_text"}),
                                   {{"id"}}, {"stores"})),
              <<"store_metadata", "store_metadata_store_id_idx">>)
M0004Down(s) == DropTable(s, "store_metadata")

\* The columns of store_technologies before 0010.
RowColumns ==
  Columns({"store_id", "name"}, {"id", "created_at", "updated_at"}, {"category", "deleted_at"})
M0007Up(s) ==
  CreateIndex(CreateTable(s, Table("store_technologies", RowColumns, {{"id"}}, {"stores"})),
              <<"store_technologies", "store_technologies_store_id_name_created_at_idx">>)
M0007Down(s) == DropTable(s, "store_technologies")

M0008Up(s) == CreateIndex(s, <<"store_crawls", "store_crawls_store_id_created_at_idx">>)
M0008Down(s) == DropIndex(s, "store_crawls_store_id_created_at_idx")

M0009Up(s) ==
  CreateIndex(CreateTable(s, Table("store_subscriptions",
                                   Columns({"user_id", "store_id"}, {"id", "created_at"}, {}),
                                   {{"id"}, {"user_id", "store_id"}}, {"users", "stores"})),
              <<"store_subscriptions", "store_subscriptions_user_id_idx">>)
M0009Down(s) == DropTable(s, "store_subscriptions")

M0011Up(s) == CreateIndex(s, <<"store_technologies", "store_technologies_name_idx">>)
M0011Down(s) == DropIndex(s, "store_technologies_name_idx")

M0012Up(s) ==
  CreateTable(s, Table("technologies", Columns({"name"}, {"id", "created_at"}, {"category"}),
                       {{"id"}, {"name"}}, {}))
M0012Down(s) == DropTable(s, "technologies")

Plans ==
  Table("plans",
    Columns({"slug", "name", "monthly_price_cents"}, {"id", "is_active", "created_at", "updated_at"},
            {"stripe_price_id"}),
    {{"id"}, {"slug"}, {"stripe_price_id"}}, {})
PlanLimits ==
  Table("plan_limits", Columns({"plan_id", "resource_key"}, {"id"}, {"max_count"}),
    {{"id"}, {"plan_id", "resource_key"}}, {"plans"})
M0013Up(s) == CreateTable(CreateTable(s, Plans), PlanLimits)
M0013Down(s) == DropTable(DropTable(s, "plan_limits"), "plans")

M0014Up(s) ==
  CreateTable(s, Table("billing_customers", Columns({"user_id", "stripe_customer_id"}, {"id", "created_at"}, {}),
                       {{"id"}, {"user_id"}, {"stripe_customer_id"}}, {"users"}))
M0014Down(s) == DropTable(s, "billing_customers")

M0015Up(s) ==
  CreateIndex(CreateTable(s, Table("billing_subscriptions",
                                   Columns({"user_id", "plan_id", "stripe_subscription_id", "status",
                                            "next_payment_at"},
                                           {"id", "created_at", "updated_at"}, {}),
                                   {{"id"}, {"stripe_subscription_id"}}, {"users", "plans"})),
              <<"billing_subscriptions", "billing_subscriptions_user_id_idx">>)
M0015Down(s) == DropTable(s, "billing_subscriptions")

M0016Up(s) ==
  CreateTable(s, Table("billing_webhook_events", Columns({"id", "type"}, {"created_at"}, {}), {{"id"}}, {}))
M0016Down(s) == DropTable(s, "billing_webhook_events")

\* 0010 turns the rows of store_technologies into events.
EventLogColumns == Columns({"store_id", "name", "event_type"}, {"id", "created_at"}, {"category"})

EventLogIndex == "store_technologies_store_id_created_at_idx"

M0010Up(s) ==
  CreateIndex(AlterColumns(s, "store_technologies", EventLogColumns),
              <<"store_technologies", EventLogIndex>>)

\* Faulty: the way down forgets the index of the way up.
ForgetfulM0010Down(s) == AlterColumns(s, "store_technologies", RowColumns)

M0010Down(s) == AlterColumns(DropIndex(s, EventLogIndex), "store_technologies", RowColumns)

\* Faulty: every row becomes an addition, whatever its deleted_at.
AddingToEvents(rows) == [i \in DOMAIN rows |-> "added"]

\* A row before 0010 has deleted_at or not, a row after it is an event.
ToEvents(rows) == [i \in DOMAIN rows |-> IF rows[i] = "deleted" THEN "removed" ELSE "added"]

FromEvents(rows) == [i \in DOMAIN rows |-> IF rows[i] = "removed" THEN "deleted" ELSE "live"]

\* The migrations folder, in the order of the file names.
Up(k, s) ==
  CASE k = 1 -> M0001Up(s) [] k = 2 -> M0002Up(s) [] k = 3 -> M0003Up(s) [] k = 4 -> M0004Up(s)
    [] k = 5 -> M0007Up(s) [] k = 6 -> M0008Up(s) [] k = 7 -> M0009Up(s) [] k = 8 -> M0010Up(s)
    [] k = 9 -> M0011Up(s) [] k = 10 -> M0012Up(s) [] k = 11 -> M0013Up(s) [] k = 12 -> M0014Up(s)
    [] k = 13 -> M0015Up(s) [] k = 14 -> M0016Up(s)
Down(k, s) ==
  CASE k = 1 -> M0001Down(s) [] k = 2 -> M0002Down(s) [] k = 3 -> M0003Down(s) [] k = 4 -> M0004Down(s)
    [] k = 5 -> M0007Down(s) [] k = 6 -> M0008Down(s) [] k = 7 -> M0009Down(s) [] k = 8 -> M0010Down(s)
    [] k = 9 -> M0011Down(s) [] k = 10 -> M0012Down(s) [] k = 11 -> M0013Down(s) [] k = 12 -> M0014Down(s)
    [] k = 13 -> M0015Down(s) [] k = 14 -> M0016Down(s)
Last == 14

StoreTechnologies == 5   \* 0007 creates the table
EventLog == 8            \* 0010 rewrites it

ASSUME MigrationsAssumption ==
  /\ Release \subseteq 0..Last
  /\ MaxMishaps \in Nat
  /\ MaxRows \in Nat

\* The schema s after the migrations behind "from" up to "to".
Upped(s, from, to) ==
  LET after[k \in from..to] == IF k = from THEN s ELSE Up(k, after[k - 1]) IN after[to]

SchemaAfter == [k \in 0..Last |-> Upped(EmptySchema, 0, k)]

---------------------------------------------------------------------------
(* types.ts: what the code believes. *)

StoresTable == Columns({"domain"}, {"id", "created_at"}, {"name"})
StoreCrawlsTable == Columns({"store_id", "status"}, {"id", "created_at"}, {})
StoreMetadataTable == Columns({"store_id"}, {"id", "created_at"}, {"platform", "homepage_text"})
StoreTechnologiesTable == Columns({"store_id", "name", "event_type"}, {"id", "created_at"}, {"category"})
StoreSubscriptionsTable == Columns({"user_id", "store_id"}, {"id", "created_at"}, {})
TechnologiesTable == Columns({"name"}, {"id", "created_at"}, {"category"})
UsersTable ==
  Columns({"email", "password_hash"}, {"id", "role", "created_at", "updated_at"}, {"name", "last_login_at"})
UserSessionsTable ==
  Columns({"user_id", "refresh_token", "expires_at"}, {"id", "created_at"}, {"revoked_at", "last_used_at"})
PlansTable ==
  Columns({"slug", "name", "monthly_price_cents"}, {"id", "is_active", "created_at", "updated_at"},
          {"stripe_price_id"})
PlanLimitsTable == Columns({"plan_id", "resource_key"}, {"id"}, {"max_count"})
BillingCustomersTable == Columns({"user_id", "stripe_customer_id"}, {"id", "created_at"}, {})
BillingSubscriptionsTable ==
  Columns({"user_id", "plan_id", "stripe_subscription_id", "status", "next_payment_at"},
          {"id", "created_at", "updated_at"}, {})
BillingWebhookEventsTable == Columns({"id", "type"}, {"created_at"}, {})

Database ==
  {<<"stores", StoresTable>>, <<"store_crawls", StoreCrawlsTable>>,
   <<"store_metadata", StoreMetadataTable>>, <<"store_technologies", StoreTechnologiesTable>>,
   <<"store_subscriptions", StoreSubscriptionsTable>>, <<"technologies", TechnologiesTable>>,
   <<"users", UsersTable>>, <<"user_sessions", UserSessionsTable>>, <<"plans", PlansTable>>,
   <<"plan_limits", PlanLimitsTable>>, <<"billing_customers", BillingCustomersTable>>,
   <<"billing_subscriptions", BillingSubscriptionsTable>>,
   <<"billing_webhook_events", BillingWebhookEventsTable>>}

\* The ON CONFLICT targets of the repositories: Postgres refuses the statement
\* unless they are unique.
ConflictTargets ==
  {<<"stores", {"domain"}>>, <<"store_subscriptions", {"user_id", "store_id"}>>,
   <<"technologies", {"name"}>>, <<"plans", {"slug"}>>, <<"plan_limits", {"plan_id", "resource_key"}>>,
   <<"billing_subscriptions", {"stripe_subscription_id"}>>, <<"billing_webhook_events", {"id"}>>}

---------------------------------------------------------------------------
VARIABLES
  schema,   \* the database
  applied,  \* migrations recorded as executed
  rows,     \* store_technologies: rows of one store and technology, in order
  latest,   \* the release in the registry
  image,    \* the release pulled on the host
  app,      \* the release that runs
  deploy,   \* where each deploy is: "idle", "pulled", "migrated"
  mishaps,  \* migrations that failed and rollbacks, so far
  strayed   \* history: since the last clean deploy one overlapped another, its migrations
            \* failed or were refused, or one was rolled back

migrationVars == <<schema, applied, rows, latest, image, app, deploy, mishaps, strayed>>

MigrationInit ==
  /\ schema = EmptySchema
  /\ applied = 0
  /\ rows = <<>>
  /\ latest = 0 /\ image = 0 /\ app = 0
  /\ deploy = [d \in Deploy |-> "idle"]
  /\ mishaps = 0
  /\ strayed = FALSE

\* CI pushes the image of a commit as :latest.  Its runs end in any order and may
\* be run again, so the image may be older than the one it replaces.
Push(r) ==
  /\ r # latest
  /\ latest' = r
  /\ UNCHANGED <<schema, applied, rows, image, app, deploy, mishaps, strayed>>

\* docker compose pull.  No concurrency group keeps two deploys apart.
Pull(d) ==
  /\ deploy[d] = "idle" /\ latest > 0
  /\ image' = latest
  /\ deploy' = [deploy EXCEPT ![d] = "pulled"]
  /\ strayed' = (strayed \/ \E e \in Deploy : deploy[e] # "idle")
  /\ UNCHANGED <<schema, applied, rows, latest, app, mishaps>>

\* migrateToLatest of the pulled image: every pending migration in one
\* transaction, one process at a time, beside the code that is running.
Migrate(d) ==
  /\ deploy[d] = "pulled" /\ applied <= image
  /\ deploy' = [deploy EXCEPT ![d] = "migrated"]
  /\ applied' = image
  /\ schema' = Upped(schema, applied, image)
  /\ rows' = IF applied < EventLog /\ EventLog <= image THEN ToEvents(rows) ELSE rows
  /\ UNCHANGED <<latest, image, app, mishaps, strayed>>

\* It fails and changes nothing; the script has no "set -e" and goes on.
MigrateFails(d) ==
  /\ deploy[d] = "pulled" /\ applied < image /\ mishaps < MaxMishaps
  /\ deploy' = [deploy EXCEPT ![d] = "migrated"]
  /\ mishaps' = mishaps + 1
  /\ strayed' = TRUE
  /\ UNCHANGED <<schema, applied, rows, latest, image, app>>

\* The image is older than the schema: the migrator misses migrations that were
\* executed and refuses to run; the script goes on.
MigrateRefused(d) ==
  /\ deploy[d] = "pulled" /\ applied > image
  /\ deploy' = [deploy EXCEPT ![d] = "migrated"]
  /\ strayed' = TRUE
  /\ UNCHANGED <<schema, applied, rows, latest, image, app, mishaps>>

\* Faulty: the new code does not wait for its migrations.
HastyComposeUp(d) ==
  /\ deploy[d] # "idle"
  /\ app' = image
  /\ deploy' = [deploy EXCEPT ![d] = "idle"]
  /\ strayed' = (strayed /\ (applied # image \/ \E e \in Deploy \ {d} : deploy[e] # "idle"))
  /\ UNCHANGED <<schema, applied, rows, latest, image, mishaps>>

\* docker compose up -d runs the pulled image.
ComposeUp(d) ==
  /\ deploy[d] = "migrated"
  /\ app' = image
  /\ deploy' = [deploy EXCEPT ![d] = "idle"]
  /\ strayed' = (strayed /\ (applied # image \/ \E e \in Deploy \ {d} : deploy[e] # "idle"))
  /\ UNCHANGED <<schema, applied, rows, latest, image, mishaps>>

\* The last migration is taken back by hand; no command of the repository does.
Rollback ==
  /\ applied > 0 /\ mishaps < MaxMishaps /\ \A d \in Deploy : deploy[d] = "idle"
  /\ schema' = Down(applied, schema)
  /\ rows' = CASE applied = EventLog -> FromEvents(rows)
               [] applied = StoreTechnologies -> <<>>
               [] OTHER -> rows
  /\ applied' = applied - 1
  /\ mishaps' = mishaps + 1
  /\ strayed' = TRUE
  /\ UNCHANGED <<latest, image, app, deploy>>

\* A crawl by a release that keeps the event log.
RecordEvent ==
  /\ app >= EventLog /\ applied >= EventLog /\ Len(rows) < MaxRows
  /\ rows' = Append(rows, IF rows # <<>> /\ rows[Len(rows)] = "added" THEN "removed" ELSE "added")
  /\ UNCHANGED <<schema, applied, latest, image, app, deploy, mishaps, strayed>>

\* A crawl by an older release: a live row appears or is marked deleted.
RecordRow ==
  /\ app \in StoreTechnologies..(EventLog - 1) /\ applied \in StoreTechnologies..(EventLog - 1)
  /\ IF rows # <<>> /\ rows[Len(rows)] = "live"
     THEN rows' = [rows EXCEPT ![Len(rows)] = "deleted"]
     ELSE Len(rows) < MaxRows /\ rows' = Append(rows, "live")
  /\ UNCHANGED <<schema, applied, latest, image, app, deploy, mishaps, strayed>>

MigrationNext ==
  \/ \E r \in Release : Push(r)
  \/ \E d \in Deploy :
       Pull(d) \/ Migrate(d) \/ MigrateFails(d) \/ MigrateRefused(d) \/ ComposeUp(d)
  \/ Rollback \/ RecordEvent \/ RecordRow

MigrationSpec == MigrationInit /\ [][MigrationNext]_migrationVars

---------------------------------------------------------------------------
(* Properties. *)

TablesOf(s) == {<<t.name, t.columns>> : t \in s.tables}

\* What a release believes: the schema its own migrations build.
Believed(r) == SchemaAfter[r].tables

\* Every column the release names is there, and no column it does not know of
\* is required of its inserts.
Fits(r, s) ==
  \A t \in Believed(r) : \E u \in s.tables :
    /\ u.name = t.name
    /\ DOMAIN t.columns \subseteq DOMAIN u.columns
    /\ \A c \in DOMAIN u.columns \ DOMAIN t.columns : u.columns[c] # "required"

\* Whatever was deployed, failed and taken back: no statement lacks what it
\* needs, the down of each migration has undone its up, and the last release
\* finds exactly the columns of types.ts and a constraint for each ON CONFLICT.
SchemaMatchesTypes ==
  /\ schema.sound
  /\ schema = SchemaAfter[applied]
  /\ applied = Last =>
       /\ TablesOf(schema) = Database
       /\ \A c \in ConflictTargets : \E t \in schema.tables : t.name = c[1] /\ c[2] \in t.unique

\* The code that runs while and after the migrations of a deploy (deploy.yml
\* migrates first) fits the schema: older code does not only between 0010,
\* which takes columns away, and the restart, or after a deploy that strayed,
\* which may bring an older image back; newer code only after a deploy that
\* strayed.
RunningCodeFitsSchema ==
  \/ Fits(app, schema)
  \/ app < EventLog /\ EventLog <= applied
       /\ (strayed \/ \E d \in Deploy : deploy[d] = "migrated")
  \/ app > applied /\ strayed

\* The technology is there: by the log when the last row is no removal, by the
\* older rows when one of them is live.
Present ==
  IF applied >= EventLog THEN rows # <<>> /\ rows[Len(rows)] = "added"
  ELSE \E i \in DOMAIN rows : rows[i] = "live"

\* 0010 keeps the technology where it was, up and down, as long as no row but
\* the last is live: the down of a log that holds an older addition is a
\* divergence (it marks the removals deleted and leaves the additions live).
EventLogKeepsPresence ==
  [][(applied >= EventLog) # (applied' >= EventLog) /\ Len(rows') = Len(rows)
       /\ (\A i \in DOMAIN rows : i < Len(rows) => rows[i] \in {"deleted", "removed"})
     => (Present' <=> Present)]_migrationVars

=============================================================================
