------------------------------ MODULE Deployment ------------------------------
(***************************************************************************)
(* The API while its database is migrated and rolled back under it: the    *)
(* webhooks of ProviderOrders write to a table that Migrations creates and *)
(* drops.                                                                  *)
(***************************************************************************)
EXTENDS Migrations

CONSTANTS Slots, Events, Completing

VARIABLES row, seen, slot, answered, excused, cut,
          serving  \* the API is up, on a database that lacks the last migration

ASSUME EventsAssumption == Completing \subseteq Events /\ "none" \notin Events

O == INSTANCE ProviderOrders

orderVars == <<row, seen, slot, answered, excused, cut>>
allVars   == <<schemaVars, orderVars, serving>>

Undeployed == UNCHANGED <<table, records, tables, indexes, run, rollbacks, tangled>>

\* The first deployment, with no API and so no webhooks, or one of the last
\* migration under an API that serves.
Upgrades ==
    /\ table = TRUE /\ records = Versions \ {6}
    /\ tables = Tables \ provider_orders /\ indexes = Indexed(5)
    /\ run = [p \in Processes |-> Idle]
    /\ rollbacks = 0 /\ faults = 0 /\ tangled = FALSE
Deploys == O!Init /\ ((MigrationInit /\ serving = FALSE) \/ (Upgrades /\ serving = TRUE))

\* Under traffic a rollback takes back the last migration only: what longer ones do
\* is seen in the first deployment.
DeployStep == /\ UNCHANGED serving
        /\ \/ ~serving /\ MigrationNext /\ O!Migrated
           \/ serving /\ (\E p \in Processes : Script(p, {1})) /\ O!Migrated
           \/ serving /\ O!Next /\ Undeployed

Only(step) == step /\ UNCHANGED serving

\* Statements return or time out, and whoever deploys runs migrate again as long
\* as something is pending.
Live ==
    \A p \in Processes : /\ WF_allVars(Only(Settle(p) /\ O!Migrated))
                         /\ WF_allVars(Only(StartMigrate(p) /\ O!Migrated))

Deploying == Deploys /\ [][DeployStep]_allVars /\ Live

-------------------------------------------------------------------------------
\* The webhooks' two promises, while the table may be missing, dropped or created
\* under them.
OrdersAreKept == O!TypeOK /\ O!AnsweredIsStored /\ O!SeenIsTaken
===============================================================================
