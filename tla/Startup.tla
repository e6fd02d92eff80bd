------------------------------ MODULE Startup ------------------------------
(***************************************************************************)
(* Starting the backend: the container's entrypoint runs the migrations,   *)
(* SeederService.seed then looks up and inserts the permissions, the roles *)
(* and the administrator's account one by one, and the server listens.     *)
(* Several servers may start on one database; any of them may be killed    *)
(* between two awaits and is started again, as it is when the seeder       *)
(* throws.  While one listens, administrators edit what was seeded.        *)
(*                                                                         *)
(* Names are unique columns, so a row is its name; remove() is a soft      *)
(* delete, so a removed row keeps its name.  A save() is one step.         *)
(***************************************************************************)
EXTENDS Integers, FiniteSets

CONSTANTS
    Servers,
    Catalogue,     \* permissionsData
    Basic,         \* what the role user is given of it
    Custom,        \* permissions administrators add
    None,
    MaxCrashes,    \* bound: servers killed
    MaxEdits       \* bound: edits by administrators

ASSUME StartupAssumption ==
    /\ Basic \subseteq Catalogue /\ Custom \cap Catalogue = {}
    /\ None \notin Catalogue \cup Custom \cup {"superadmin", "admin", "user"}
    /\ MaxCrashes \in Nat /\ MaxEdits \in Nat

VARIABLES
    schema,     \* the migrations have been applied
    perm,       \* table permissions
    role,       \* table roles
    grants,     \* table role_permissions
    account,    \* the user ADMIN_EMAIL
    holds,      \* his role
    server,     \* how far each server has come
    crashes, edits,
    touched     \* whether administrators have removed or reassigned what was seeded

tables == <<schema, perm, role, grants, account, holds>>
bounds == <<crashes, edits, touched>>
vars == <<tables, server, bounds>>

Names == Catalogue \cup Custom
RoleNames == {"superadmin", "admin", "user"}

Status == {"absent", "live", "removed"}

\* The steps of a start, in order: each is what runs up to the next await.
Steps == {"down", "migrate", "pending", "lookPermission", "addPermission",
          "lookAdminRole", "saveAdminRole", "lookUserRole", "saveUserRole",
          "lookSuperadmin", "lookAccount", "addAccount", "up"}

Down == [at |-> "down", left |-> {}, all |-> {}, found |-> None]

Live(table) == {x \in DOMAIN table : table[x] = "live"}

Init ==
    /\ schema = FALSE
    /\ perm = [p \in Names |-> "absent"]
    /\ role = [r \in RoleNames |-> "absent"]
    /\ grants = [r \in RoleNames |-> {}]
    /\ account = "absent" /\ holds = None
    /\ server = [s \in Servers |-> Down]
    /\ crashes = 0 /\ edits = 0 /\ touched = FALSE

-----------------------------------------------------------------------------
(* One server starts *)

Goto(s, at) == server' = [server EXCEPT ![s].at = at]

\* A unique violation: bootstrap() rejects and the process ends.
Fail(s) == server' = [server EXCEPT ![s] = Down]

Start(s) ==
    /\ server[s].at = "down"
    /\ Goto(s, "migrate")
    /\ UNCHANGED tables

Seed(s) == server' = [server EXCEPT ![s].at = "lookPermission", ![s].left = Catalogue]

\* TypeORM reads the migrations already executed ...
LookMigrations(s) ==
    /\ server[s].at = "migrate"
    /\ IF schema THEN Seed(s) ELSE Goto(s, "pending")
    /\ UNCHANGED tables

\* ... and runs the others in one transaction: a table that is there by then
\* fails it.
RunMigrations(s) ==
    /\ server[s].at = "pending"
    /\ schema' = TRUE
    /\ IF schema THEN Fail(s) ELSE Seed(s)
    /\ UNCHANGED <<perm, role, grants, account, holds>>

\* The loop of seedPermissions: its next name.
Turn(s) == CHOOSE p \in server[s].left : TRUE

\* A slip to test ComesUp with: every permission is inserted again.
LookPermissionNever(s) ==
    /\ server[s].at = "lookPermission" /\ server[s].left # {}
    /\ Goto(s, "addPermission")
    /\ UNCHANGED tables

LookPermission(s) ==
    /\ server[s].at = "lookPermission" /\ server[s].left # {}
    /\ IF perm[Turn(s)] = "live"
       THEN server' = [server EXCEPT ![s].left = @ \ {Turn(s)}]
       ELSE Goto(s, "addPermission")
    /\ UNCHANGED tables

AddPermission(s) ==
    /\ server[s].at = "addPermission"
    /\ IF perm[Turn(s)] = "absent"
       THEN /\ perm' = [perm EXCEPT ![Turn(s)] = "live"]
            /\ server' = [server EXCEPT ![s].at = "lookPermission", ![s].left = @ \ {Turn(s)}]
       ELSE Fail(s) /\ UNCHANGED perm
    /\ UNCHANGED <<schema, role, grants, account, holds>>

\* A slip to test FullAccess with: seed() does not wait for seedPermissions.
LookPermissionsEarly(s) ==
    /\ server[s].at = "lookPermission"
    /\ server' = [server EXCEPT ![s].at = "lookAdminRole", ![s].left = {}, ![s].all = Live(perm)]
    /\ UNCHANGED tables

LookPermissions(s) ==
    /\ server[s].at = "lookPermission" /\ server[s].left = {}
    /\ server' = [server EXCEPT ![s].at = "lookAdminRole", ![s].all = Live(perm)]
    /\ UNCHANGED tables

Found(r) == IF r \in Live(role) THEN r ELSE None

\* The older of two rows comes first.
LookAdminRole(s) ==
    /\ server[s].at = "lookAdminRole"
    /\ server' = [server EXCEPT ![s].at = "saveAdminRole",
                                ![s].found = IF Found("superadmin") # None THEN "superadmin"
                                             ELSE Found("admin")]
    /\ UNCHANGED tables

\* save() of a role that was found, or of a new one, under a name: the name may
\* be taken by another row, and one that was removed since it was found is live
\* again.
SaveRole(s, name, given, next) ==
    LET found == server[s].found
    IN IF found = name \/ role[name] = "absent"
       THEN /\ role' = [r \in RoleNames |-> IF r = name THEN "live"
                                            ELSE IF r = found THEN "absent" ELSE role[r]]
            /\ grants' = [r \in RoleNames |-> IF r = name THEN given
                                              ELSE IF r = found THEN {} ELSE grants[r]]
            /\ holds' = IF holds # None /\ holds = found THEN name ELSE holds
            /\ Goto(s, next)
       ELSE Fail(s) /\ UNCHANGED <<role, grants, holds>>

SaveAdminRole(s) ==
    /\ server[s].at = "saveAdminRole"
    /\ SaveRole(s, "superadmin", server[s].all, "lookUserRole")
    /\ UNCHANGED <<schema, perm, account>>

LookUserRole(s) ==
    /\ server[s].at = "lookUserRole"
    /\ server' = [server EXCEPT ![s].at = "saveUserRole", ![s].found = Found("user")]
    /\ UNCHANGED tables

SaveUserRole(s) ==
    /\ server[s].at = "saveUserRole"
    /\ SaveRole(s, "user", server[s].all \cap Basic, "lookSuperadmin")
    /\ UNCHANGED <<schema, perm, account>>

LookSuperadmin(s) ==
    /\ server[s].at = "lookSuperadmin"
    /\ server' = [server EXCEPT ![s].at = "lookAccount", ![s].found = Found("superadmin")]
    /\ UNCHANGED tables

LookAccount(s) ==
    /\ server[s].at = "lookAccount"
    /\ Goto(s, IF account = "live" THEN "up" ELSE "addAccount")
    /\ UNCHANGED tables

\* A slip to test TypeOK with: the account is inserted without its role.
AddAccountAlone(s) ==
    /\ server[s].at = "addAccount"
    /\ IF account = "absent"
       THEN account' = "live" /\ Goto(s, "up")
       ELSE Fail(s) /\ UNCHANGED account
    /\ UNCHANGED <<schema, perm, role, grants, holds>>

\* Without a role to give him the insert fails as well.
AddAccount(s) ==
    /\ server[s].at = "addAccount"
    /\ IF account = "absent" /\ server[s].found # None
       THEN account' = "live" /\ holds' = "superadmin" /\ Goto(s, "up")
       ELSE Fail(s) /\ UNCHANGED <<account, holds>>
    /\ UNCHANGED <<schema, perm, role, grants>>

SeedPermissions(s) == LookPermission(s) \/ AddPermission(s)

SeedRoles(s) ==
    \/ LookPermissions(s) \/ LookAdminRole(s) \/ SaveAdminRole(s)
    \/ LookUserRole(s) \/ SaveUserRole(s)

SeedUsers(s) == LookSuperadmin(s) \/ LookAccount(s) \/ AddAccount(s)

Boot(s) ==
    /\ \/ Start(s) \/ LookMigrations(s) \/ RunMigrations(s)
       \/ SeedPermissions(s) \/ SeedRoles(s) \/ SeedUsers(s)
    /\ UNCHANGED bounds

Crash(s) ==
    /\ server[s].at # "down" /\ crashes < MaxCrashes
    /\ crashes' = crashes + 1
    /\ Fail(s)
    /\ UNCHANGED <<tables, edits, touched>>

-----------------------------------------------------------------------------
(* Administrators, while a server listens *)

Up == {s \in Servers : server[s].at = "up"}

CreatePermission ==
    \E p \in Custom :
        /\ perm[p] = "absent"
        /\ perm' = [perm EXCEPT ![p] = "live"]
        /\ UNCHANGED <<role, grants, account, holds, touched>>

RemovePermission ==
    \E p \in Live(perm) :
        /\ perm' = [perm EXCEPT ![p] = "removed"]
        /\ touched' = (touched \/ p \in Catalogue)
        /\ UNCHANGED <<role, grants, account, holds>>

CreateRole ==
    /\ role["admin"] = "absent"
    /\ role' = [role EXCEPT !["admin"] = "live"]
    /\ UNCHANGED <<perm, grants, account, holds, touched>>

RemoveRole ==
    \E r \in Live(role) :
        /\ role' = [role EXCEPT ![r] = "removed"]
        /\ touched' = (touched \/ r # "admin")
        /\ UNCHANGED <<perm, grants, account, holds>>

SyncPermissions ==
    \E r \in Live(role), ps \in SUBSET Live(perm) :
        /\ grants' = [grants EXCEPT ![r] = ps]
        /\ touched' = (touched \/ r # "admin")
        /\ UNCHANGED <<perm, role, account, holds>>

RemoveAccount ==
    /\ account = "live"
    /\ account' = "removed" /\ touched' = TRUE
    /\ UNCHANGED <<perm, role, grants, holds>>

Administrate ==
    /\ Up # {} /\ edits < MaxEdits
    /\ edits' = edits + 1
    /\ \/ CreatePermission \/ RemovePermission
       \/ CreateRole \/ RemoveRole \/ SyncPermissions
       \/ RemoveAccount
    /\ UNCHANGED <<schema, server, crashes>>

-----------------------------------------------------------------------------
Next == Administrate \/ \E s \in Servers : Boot(s) \/ Crash(s)

\* A server that has ended is started again, and a start goes on.
Fairness == \A s \in Servers : WF_vars(Boot(s))

Spec == Init /\ [][Next]_vars /\ Fairness

-----------------------------------------------------------------------------
(* Properties *)

\* The tables and the servers are well-typed: an account has its role, nothing
\* is seeded before the migrations, and what is granted has a row.
TypeOK ==
    /\ schema \in BOOLEAN /\ touched \in BOOLEAN
    /\ perm \in [Names -> Status] /\ role \in [RoleNames -> Status]
    /\ grants \in [RoleNames -> SUBSET {p \in Names : perm[p] # "absent"}]
    /\ \A r \in RoleNames : role[r] = "absent" => grants[r] = {}
    /\ account \in Status
    /\ IF account = "absent" THEN holds = None ELSE holds \in RoleNames /\ role[holds] # "absent"
    /\ server \in [Servers -> [at : Steps, left : SUBSET Catalogue, all : SUBSET Names,
                               found : RoleNames \cup {None}]]
    /\ ~schema => /\ perm = [p \in Names |-> "absent"]
                  /\ \A s \in Servers : server[s].at \in {"down", "migrate", "pending"}
    /\ crashes \in 0..MaxCrashes /\ edits \in 0..MaxEdits

\* Once a server listens, and as long as nobody has reassigned or removed what
\* was seeded, the administrator has every permission of the catalogue and a
\* user the basic ones, whatever other servers are starting or have crashed.
FullAccess ==
    Up # {} /\ ~touched =>
        /\ account = "live" /\ holds = "superadmin"
        /\ Catalogue \subseteq grants["superadmin"]
        /\ grants["user"] = Basic

\* Something the seeder looks for has been removed.
Lost == \/ \E p \in Catalogue : perm[p] = "removed"
        \/ \E r \in RoleNames \ {"admin"} : role[r] = "removed"
        \/ account = "removed"

\* A server that is down listens in the end, however often starts were killed
\* half-way or ran into each other, unless something seeded has been removed.
ComesUp == \A s \in Servers : (server[s].at = "down") ~> (server[s].at = "up" \/ Lost)

\* DATA_LAYER.md says of the seeder that it "is idempotent - it checks for
\* existing rows before inserting": with one server, it inserts no row whose
\* name is taken.
ChecksBeforeInserting ==
    \A s \in Servers :
        /\ server[s].at = "addPermission" => perm[Turn(s)] = "absent"
        /\ server[s].at = "saveAdminRole" /\ server[s].found = None => role["superadmin"] = "absent"
        /\ server[s].at = "saveUserRole" /\ server[s].found = None => role["user"] = "absent"
        /\ server[s].at = "addAccount" => account = "absent"
=============================================================================
