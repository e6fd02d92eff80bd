--------------------------- MODULE StartupProofs ---------------------------
(***************************************************************************)
(* Proofs about starting the backend, for any number of servers on one     *)
(* database, crashes and edits: the types, and that a server which listens *)
(* has given the administrator and the users what they need.  What makes   *)
(* it inductive is how far each server has come: what it has passed is     *)
(* there and stays, whatever step another one takes.                       *)
(***************************************************************************)
EXTENDS Startup, TLAPS

Present(table) == {x \in DOMAIN table : table[x] # "absent"}

Seeding == {"lookPermission", "addPermission"}
HasAccount == {"up"}
HasUserRole == {"lookSuperadmin", "lookAccount", "addAccount", "up"}
HasAdminRole == {"lookUserRole", "saveUserRole"} \cup HasUserRole
HasPermissions == {"lookAdminRole", "saveAdminRole"} \cup HasAdminRole

AdminRole == role["superadmin"] = "live" /\ Catalogue \subseteq grants["superadmin"]
UserRole == role["user"] = "live" /\ grants["user"] = Basic

\* What a server has read is what it may have read ...
ReadOK(v) ==
    /\ v.at \notin {"down", "migrate", "pending"} => schema
    /\ v.at = "addPermission" => v.left # {}
    /\ v.at = "saveAdminRole" => v.found \in {None, "superadmin", "admin"}
    /\ v.at = "saveUserRole" => v.found \in {None, "user"}
    /\ v.at \in {"lookAccount", "addAccount"} =>
         v.found = None \/ (v.found = "superadmin" /\ role["superadmin"] # "absent")
    /\ v.all \subseteq Present(perm)

\* ... and what it has passed is there, unless administrators have touched it.
PassedOK(v) ==
    /\ v.at \in Seeding => Catalogue \ v.left \subseteq Live(perm)
    /\ v.at \in HasPermissions => Catalogue \subseteq Live(perm) /\ Catalogue \subseteq v.all
    /\ v.at \in HasAdminRole => AdminRole
    /\ v.at \in HasUserRole => UserRole
    /\ v.at \in HasAccount => account = "live"

ServerOK(v) == ReadOK(v) /\ (~touched => PassedOK(v))

AccountOK ==
    /\ holds = IF account = "absent" THEN None ELSE "superadmin"
    /\ account # "absent" => role["superadmin"] # "absent"

Inv == TypeOK /\ AccountOK /\ \A s \in Servers : ServerOK(server[s])

-----------------------------------------------------------------------------
(* The other servers *)

\* What one step does not take from a server that does not take it.
Leaves ==
    /\ schema => schema'
    /\ Present(perm) \subseteq Present(perm')
    /\ role["superadmin"] # "absent" => role'["superadmin"] # "absent"
    /\ touched => touched'
    /\ ~touched' =>
         /\ Catalogue \cap Live(perm) \subseteq Live(perm')
         /\ AdminRole => AdminRole'
         /\ UserRole => UserRole'
         /\ account = "live" => account' = "live"

LEMMA LeavesOthers ==
    ASSUME Leaves, touched \in BOOLEAN, touched' \in BOOLEAN, NEW v, ServerOK(v)
    PROVE  ServerOK(v)'
<1>1. ReadOK(v)'
  BY DEF Leaves, ServerOK, ReadOK
<1>2. ASSUME ~touched' PROVE PassedOK(v)'
  BY <1>2 DEF Leaves, ServerOK, PassedOK
<1> QED BY <1>1, <1>2 DEF ServerOK

LEMMA SameLeaves == UNCHANGED <<tables, touched>> => Leaves
BY DEF Leaves, tables, AdminRole, UserRole

\* A step of one server.
LEMMA StepOK ==
    ASSUME Inv, Leaves, TypeOK', AccountOK', NEW s \in Servers, NEW v,
           server' = [server EXCEPT ![s] = v], ServerOK(v)'
    PROVE  Inv'
<1>1. ASSUME NEW t \in Servers, t # s
      PROVE  ServerOK(server[t])'
  <2>1. ServerOK(server[t]) /\ server'[t] = server[t]
    BY <1>1 DEF Inv, TypeOK
  <2> QED BY <2>1, LeavesOthers DEF Inv, TypeOK
<1>2. server'[s] = v
  BY DEF Inv, TypeOK
<1> QED BY <1>1, <1>2 DEF Inv

-----------------------------------------------------------------------------
(* Steps that change no table *)

Records == [at : Steps, left : SUBSET Catalogue, all : SUBSET Names,
            found : RoleNames \cup {None}]

LEMMA DownOK == Down \in Records /\ ServerOK(Down) /\ ServerOK(Down)'
BY DEF Down, Records, Steps, ServerOK, ReadOK, PassedOK, Seeding, HasPermissions, HasAdminRole,
       HasUserRole, HasAccount

LEMMA SameTypes ==
    ASSUME Inv, UNCHANGED <<tables, bounds>>, NEW s \in Servers, NEW v \in Records,
           server' = [server EXCEPT ![s] = v],
           v.at \in {"down", "migrate", "pending"} \/ schema
    PROVE  TypeOK' /\ AccountOK'
BY DEF Inv, TypeOK, AccountOK, tables, bounds, Records

LEMMA LookOK ==
    ASSUME Inv, UNCHANGED <<tables, bounds>>, NEW s \in Servers, NEW v \in Records,
           server' = [server EXCEPT ![s] = v], ServerOK(v)
    PROVE  Inv'
<1>1. v.at \in {"down", "migrate", "pending"} \/ schema
  BY DEF ServerOK, ReadOK
<1>2. ServerOK(v)'
  BY SameLeaves, LeavesOthers DEF Inv, TypeOK, bounds
<1> QED BY <1>1, <1>2, SameTypes, SameLeaves, StepOK DEF bounds

\* A server that fails.
LEMMA FailOK ==
    ASSUME Inv, UNCHANGED <<tables, bounds>>, NEW s \in Servers, Fail(s)
    PROVE  Inv'
BY DownOK, LookOK DEF Fail

LEMMA LooksKeep ==
    ASSUME StartupAssumption, Inv, NEW s \in Servers, UNCHANGED bounds,
           \/ Start(s) \/ LookMigrations(s) \/ LookPermission(s) \/ LookPermissions(s)
           \/ LookAdminRole(s) \/ LookUserRole(s) \/ LookSuperadmin(s) \/ LookAccount(s)
    PROVE  Inv'
<1> USE DEF Seeding, HasPermissions, HasAdminRole, HasUserRole, HasAccount
<1> DEFINE v == server[s]
<1>0. v \in Records /\ ServerOK(v) /\ UNCHANGED tables
  BY DEF Inv, TypeOK, Records, Start, LookMigrations, LookPermission, LookPermissions, LookAdminRole,
         LookUserRole, LookSuperadmin, LookAccount
<1>1. CASE Start(s)
  <2> DEFINE w == [v EXCEPT !.at = "migrate"]
  <2>1. server' = [server EXCEPT ![s] = w]
    BY <1>1 DEF Start, Goto
  <2>2. w \in Records /\ ServerOK(w)
    BY <1>0 DEF Records, Steps, ServerOK, ReadOK, PassedOK
  <2> HIDE DEF w
  <2> QED BY <1>0, <2>1, <2>2, LookOK
<1>2. CASE LookMigrations(s)
  <2>1. CASE schema
    <3> DEFINE w == [v EXCEPT !.at = "lookPermission", !.left = Catalogue]
    <3>1. server' = [server EXCEPT ![s] = w]
      BY <1>2, <2>1 DEF LookMigrations, Seed
    <3>2. w \in Records /\ ServerOK(w)
      BY <1>0, <2>1 DEF Records, Steps, ServerOK, ReadOK, PassedOK
    <3> HIDE DEF w
    <3> QED BY <1>0, <3>1, <3>2, LookOK
  <2>2. CASE ~schema
    <3> DEFINE w == [v EXCEPT !.at = "pending"]
    <3>1. server' = [server EXCEPT ![s] = w]
      BY <1>2, <2>2 DEF LookMigrations, Goto
    <3>2. w \in Records /\ ServerOK(w)
      BY <1>0 DEF Records, Steps, ServerOK, ReadOK, PassedOK
    <3> HIDE DEF w
    <3> QED BY <1>0, <3>1, <3>2, LookOK
  <2> QED BY <2>1, <2>2
<1>3. CASE LookPermission(s)
  <2>0. Turn(s) \in v.left /\ v.at = "lookPermission"
    BY <1>3 DEF LookPermission, Turn
  <2>1. CASE perm[Turn(s)] = "live"
    <3> DEFINE w == [v EXCEPT !.left = @ \ {Turn(s)}]
    <3>1. server' = [server EXCEPT ![s] = w]
      BY <1>3, <2>1 DEF LookPermission
    <3>2. w \in Records /\ w.at = v.at /\ w.left = v.left \ {Turn(s)} /\ w.all = v.all /\ w.found = v.found
      BY <1>0 DEF Records
    <3> HIDE DEF w
    <3>3. ReadOK(w)
      BY <1>0, <3>2, <2>0 DEF ServerOK, ReadOK
    <3>4. Turn(s) \in Live(perm)
      BY <1>0, <2>0, <2>1 DEF Live, Records, Inv, TypeOK, Names
    <3>5. ~touched => PassedOK(w)
      BY <1>0, <2>0, <3>2, <3>4 DEF ServerOK, PassedOK
    <3> QED BY <1>0, <3>1, <3>2, <3>3, <3>5, LookOK DEF ServerOK
  <2>2. CASE perm[Turn(s)] # "live"
    <3> DEFINE w == [v EXCEPT !.at = "addPermission"]
    <3>1. server' = [server EXCEPT ![s] = w]
      BY <1>3, <2>2 DEF LookPermission, Goto
    <3>2. w \in Records /\ ServerOK(w)
      BY <1>0, <2>0 DEF Records, Steps, ServerOK, ReadOK, PassedOK
    <3> HIDE DEF w
    <3> QED BY <1>0, <3>1, <3>2, LookOK
  <2> QED BY <2>1, <2>2
<1>4. CASE LookPermissions(s)
  <2> DEFINE w == [v EXCEPT !.at = "lookAdminRole", !.all = Live(perm)]
  <2>1. server' = [server EXCEPT ![s] = w] /\ v.at = "lookPermission" /\ v.left = {}
    BY <1>4 DEF LookPermissions
  <2>2. Live(perm) \subseteq Names /\ Live(perm) \subseteq Present(perm)
    BY DEF Live, Present, Inv, TypeOK
  <2>3. w \in Records /\ w.at = "lookAdminRole" /\ w.all = Live(perm)
    BY <1>0, <2>2 DEF Records, Steps
  <2> HIDE DEF w
  <2>4. ReadOK(w)
    BY <1>0, <2>1, <2>2, <2>3 DEF ServerOK, ReadOK
  <2>5. ~touched => PassedOK(w)
    BY <1>0, <2>1, <2>3 DEF ServerOK, PassedOK
  <2> QED BY <1>0, <2>1, <2>3, <2>4, <2>5, LookOK DEF ServerOK
<1>5. CASE LookAdminRole(s)
  <2> DEFINE f == IF Found("superadmin") # None THEN "superadmin" ELSE Found("admin")
             w == [v EXCEPT !.at = "saveAdminRole", !.found = f]
  <2>1. server' = [server EXCEPT ![s] = w] /\ v.at = "lookAdminRole"
    BY <1>5 DEF LookAdminRole
  <2>2. f \in {None, "superadmin", "admin"}
    BY DEF Found
  <2> HIDE DEF f
  <2>3. w \in Records /\ w.at = "saveAdminRole" /\ w.all = v.all /\ w.found = f
    BY <1>0, <2>2 DEF Records, Steps, RoleNames
  <2> HIDE DEF w
  <2>4. ReadOK(w)
    BY <1>0, <2>1, <2>2, <2>3 DEF ServerOK, ReadOK
  <2>5. ~touched => PassedOK(w)
    BY <1>0, <2>1, <2>3 DEF ServerOK, PassedOK
  <2> QED BY <1>0, <2>1, <2>3, <2>4, <2>5, LookOK DEF ServerOK
<1>6. CASE LookUserRole(s)
  <2> DEFINE f == Found("user")
             w == [v EXCEPT !.at = "saveUserRole", !.found = f]
  <2>1. server' = [server EXCEPT ![s] = w] /\ v.at = "lookUserRole"
    BY <1>6 DEF LookUserRole
  <2>2. f \in {None, "user"}
    BY DEF Found
  <2> HIDE DEF f
  <2>3. w \in Records /\ w.at = "saveUserRole" /\ w.all = v.all /\ w.found = f
    BY <1>0, <2>2 DEF Records, Steps, RoleNames
  <2> HIDE DEF w
  <2>4. ReadOK(w)
    BY <1>0, <2>1, <2>2, <2>3 DEF ServerOK, ReadOK
  <2>5. ~touched => PassedOK(w)
    BY <1>0, <2>1, <2>3 DEF ServerOK, PassedOK
  <2> QED BY <1>0, <2>1, <2>3, <2>4, <2>5, LookOK DEF ServerOK
<1>7. CASE LookSuperadmin(s)
  <2> DEFINE f == Found("superadmin")
             w == [v EXCEPT !.at = "lookAccount", !.found = f]
  <2>1. server' = [server EXCEPT ![s] = w] /\ v.at = "lookSuperadmin"
    BY <1>7 DEF LookSuperadmin
  <2>2. f = None \/ (f = "superadmin" /\ role["superadmin"] # "absent")
    BY DEF Found, Live
  <2> HIDE DEF f
  <2>3. w \in Records /\ w.at = "lookAccount" /\ w.all = v.all /\ w.found = f
    BY <1>0, <2>2 DEF Records, Steps, RoleNames
  <2> HIDE DEF w
  <2>4. ReadOK(w)
    BY <1>0, <2>1, <2>2, <2>3 DEF ServerOK, ReadOK
  <2>5. ~touched => PassedOK(w)
    BY <1>0, <2>1, <2>3 DEF ServerOK, PassedOK
  <2> QED BY <1>0, <2>1, <2>3, <2>4, <2>5, LookOK DEF ServerOK
<1>8. CASE LookAccount(s)
  <2> DEFINE at == IF account = "live" THEN "up" ELSE "addAccount"
             w == [v EXCEPT !.at = at]
  <2>1. server' = [server EXCEPT ![s] = w] /\ v.at = "lookAccount"
    BY <1>8 DEF LookAccount, Goto
  <2>2. (at = "up" /\ account = "live") \/ at = "addAccount"
    OBVIOUS
  <2> HIDE DEF at
  <2>3. w \in Records /\ w.at = at /\ w.all = v.all /\ w.found = v.found
    BY <1>0, <2>2 DEF Records, Steps
  <2> HIDE DEF w
  <2>4. ReadOK(w)
    BY <1>0, <2>1, <2>2, <2>3 DEF ServerOK, ReadOK
  <2>5. ~touched => PassedOK(w)
    BY <1>0, <2>1, <2>2, <2>3 DEF ServerOK, PassedOK
  <2> QED BY <1>0, <2>1, <2>3, <2>4, <2>5, LookOK DEF ServerOK
<1> QED BY <1>1, <1>2, <1>3, <1>4, <1>5, <1>6, <1>7, <1>8

-----------------------------------------------------------------------------
(* Steps that change the tables *)

LEMMA RunMigrationsKeeps ==
    ASSUME StartupAssumption, Inv, NEW s \in Servers, RunMigrations(s), UNCHANGED bounds
    PROVE  Inv'
<1> DEFINE v == server[s]
<1>1. CASE schema
  BY <1>1, FailOK DEF RunMigrations, Inv, TypeOK, tables
<1>2. CASE ~schema
  <2>2. v \in Records /\ ServerOK(v)
    BY DEF Inv, TypeOK, Records
  <2>3. PICK w \in Records : w = [v EXCEPT !.at = "lookPermission", !.left = Catalogue]
    BY <2>2 DEF Records, Steps
  <2>0. w.at = "lookPermission" /\ w.left = Catalogue /\ w.all = v.all
    BY <2>2, <2>3 DEF Records
  <2>1. server' = [server EXCEPT ![s] = w] /\ schema' = TRUE
        /\ UNCHANGED <<perm, role, grants, account, holds>>
    BY <1>2, <2>3 DEF RunMigrations, Seed
  <2>4. TypeOK' /\ AccountOK'
    BY <2>0, <2>1 DEF Inv, TypeOK, AccountOK, bounds, Records
  <2>5. Leaves
    BY <2>1 DEF Leaves, bounds, AdminRole, UserRole
  <2>6. ServerOK(w)'
    BY <2>0, <2>1, <2>2 DEF ServerOK, ReadOK, PassedOK, Seeding, HasPermissions, HasAdminRole,
                            HasUserRole, HasAccount
  <2> QED BY <2>1, <2>4, <2>5, <2>6, StepOK
<1> QED BY <1>1, <1>2

LEMMA AddPermissionKeeps ==
    ASSUME StartupAssumption, Inv, NEW s \in Servers, AddPermission(s), UNCHANGED bounds
    PROVE  Inv'
<1> DEFINE v == server[s]
<1>0. v \in Records /\ ServerOK(v) /\ v.at = "addPermission"
  BY DEF Inv, TypeOK, Records, AddPermission
<1>1. schema /\ Turn(s) \in v.left /\ Turn(s) \in Names
  BY <1>0 DEF ServerOK, ReadOK, Turn, Records, Names
<1>2. CASE perm[Turn(s)] # "absent"
  BY <1>2, FailOK DEF AddPermission, tables
<1>3. CASE perm[Turn(s)] = "absent"
  <2>0. PICK w \in Records : w = [v EXCEPT !.at = "lookPermission", !.left = v.left \ {Turn(s)}]
    BY <1>0 DEF Records, Steps
  <2>1. server' = [server EXCEPT ![s] = w] /\ perm' = [perm EXCEPT ![Turn(s)] = "live"]
        /\ UNCHANGED <<schema, role, grants, account, holds>>
    BY <1>3, <2>0 DEF AddPermission
  <2>2. w.at = "lookPermission" /\ w.left = v.left \ {Turn(s)} /\ w.all = v.all
    BY <1>0, <2>0 DEF Records
  <2>3. /\ perm' \in [Names -> Status] /\ Present(perm) \subseteq Present(perm')
        /\ Live(perm') = Live(perm) \cup {Turn(s)}
    BY <1>1, <2>1 DEF Inv, TypeOK, Present, Live, Status
  <2>4. {p \in Names : perm[p] # "absent"} \subseteq {p \in Names : perm'[p] # "absent"}
    BY <2>3 DEF Present, Inv, TypeOK
  <2>5. TypeOK' /\ AccountOK'
    BY <1>1, <2>1, <2>2, <2>3, <2>4 DEF Inv, TypeOK, AccountOK, bounds, Records
  <2>6. Leaves
    BY <2>1, <2>3 DEF Leaves, bounds, AdminRole, UserRole
  <2>7. ServerOK(w)'
    BY <1>0, <1>1, <2>1, <2>2, <2>3 DEF ServerOK, ReadOK, PassedOK, Seeding, HasPermissions,
            HasAdminRole, HasUserRole, HasAccount, bounds
  <2> QED BY <2>1, <2>5, <2>6, <2>7, StepOK
<1> QED BY <1>2, <1>3

\* save() of a role, whatever it is given of what has a row.
LEMMA SaveRoleTables ==
    ASSUME StartupAssumption, Inv, NEW s \in Servers, NEW name \in {"superadmin", "user"}, NEW given,
           NEW next, given \subseteq Present(perm), SaveRole(s, name, given, next),
           server[s].found \in {None, name, "admin"},
           server[s].found = name \/ role[name] = "absent", UNCHANGED <<perm, account>>
    PROVE  /\ role' \in [RoleNames -> Status] /\ role'[name] = "live" /\ grants'[name] = given
           /\ \A r \in {"superadmin", "user"} \ {name} : role'[r] = role[r] /\ grants'[r] = grants[r]
           /\ grants' \in [RoleNames -> SUBSET {p \in Names : perm[p] # "absent"}]
           /\ \A r \in RoleNames : role'[r] = "absent" => grants'[r] = {}
           /\ server' = [server EXCEPT ![s].at = next] /\ UNCHANGED holds
<1> DEFINE found == server[s].found
<1>1. /\ role' = [r \in RoleNames |-> IF r = name THEN "live" ELSE IF r = found THEN "absent" ELSE role[r]]
      /\ grants' = [r \in RoleNames |-> IF r = name THEN given ELSE IF r = found THEN {} ELSE grants[r]]
      /\ holds' = IF holds # None /\ holds = found THEN name ELSE holds
      /\ server' = [server EXCEPT ![s].at = next]
  BY DEF SaveRole, Goto
<1>2. found \in {None, name, "admin"}
  OBVIOUS
<1> HIDE DEF found
<1>3. UNCHANGED holds
  BY <1>1, <1>2 DEF Inv, AccountOK
<1>4. given \subseteq {p \in Names : perm[p] # "absent"}
  BY DEF Present, Inv, TypeOK
<1>5. role \in [RoleNames -> Status] /\ grants \in [RoleNames -> SUBSET {p \in Names : perm[p] # "absent"}]
      /\ \A r \in RoleNames : role[r] = "absent" => grants[r] = {}
  BY DEF Inv, TypeOK
<1>6. {"superadmin", "user"} \subseteq RoleNames /\ "live" \in Status /\ "absent" \in Status
  BY DEF RoleNames, Status
<1>7. \A r \in {"superadmin", "user"} \ {name} : r # found
  BY <1>2 DEF StartupAssumption
<1>8. \A r \in {"superadmin", "user"} \ {name} : role'[r] = role[r] /\ grants'[r] = grants[r]
  BY <1>1, <1>6, <1>7
<1>9. role' \in [RoleNames -> Status] /\ role'[name] = "live" /\ grants'[name] = given
  BY <1>1, <1>5, <1>6
<1>10. /\ grants' \in [RoleNames -> SUBSET {p \in Names : perm[p] # "absent"}]
       /\ \A r \in RoleNames : role'[r] = "absent" => grants'[r] = {}
  BY <1>1, <1>4, <1>5, <1>6
<1> QED BY <1>1, <1>3, <1>8, <1>9, <1>10

LEMMA SaveAdminRoleKeeps ==
    ASSUME StartupAssumption, Inv, NEW s \in Servers, SaveAdminRole(s), UNCHANGED bounds
    PROVE  Inv'
<1> DEFINE v == server[s]
<1>0. v \in Records /\ ServerOK(v) /\ v.at = "saveAdminRole" /\ UNCHANGED <<schema, perm, account>>
  BY DEF Inv, TypeOK, Records, SaveAdminRole
<1>1. v.found \in {None, "superadmin", "admin"} /\ v.all \subseteq Present(perm) /\ schema
  BY <1>0 DEF ServerOK, ReadOK
<1>2. SaveRole(s, "superadmin", v.all, "lookUserRole")
  BY DEF SaveAdminRole
<1>3. CASE ~(v.found = "superadmin" \/ role["superadmin"] = "absent")
  BY <1>0, <1>2, <1>3, FailOK DEF SaveRole, tables
<1>4. CASE v.found = "superadmin" \/ role["superadmin"] = "absent"
  <2>1. /\ role' \in [RoleNames -> Status] /\ role'["superadmin"] = "live" /\ grants'["superadmin"] = v.all
        /\ role'["user"] = role["user"] /\ grants'["user"] = grants["user"]
        /\ grants' \in [RoleNames -> SUBSET {p \in Names : perm[p] # "absent"}]
        /\ \A r \in RoleNames : role'[r] = "absent" => grants'[r] = {}
        /\ server' = [server EXCEPT ![s].at = "lookUserRole"] /\ UNCHANGED holds
    BY <1>0, <1>1, <1>2, <1>4, SaveRoleTables
  <2>2. PICK w \in Records : w = [v EXCEPT !.at = "lookUserRole"]
    BY <1>0 DEF Records, Steps
  <2>3. w.at = "lookUserRole" /\ w.all = v.all /\ server' = [server EXCEPT ![s] = w]
    BY <1>0, <2>1, <2>2 DEF Records
  <2>4. TypeOK' /\ AccountOK'
    BY <1>0, <1>1, <2>1, <2>3 DEF Inv, TypeOK, AccountOK, bounds, Records, RoleNames
  <2>5. ~touched /\ (AdminRole \/ v.at \in HasPermissions) => AdminRole'
    BY <1>0, <2>1 DEF ServerOK, PassedOK, HasPermissions, AdminRole
  <2>6. Leaves
    BY <1>0, <2>1, <2>5 DEF Leaves, bounds, AdminRole, UserRole
  <2>7. ReadOK(w)'
    BY <1>0, <1>1, <2>3 DEF ReadOK
  <2>8. ~touched => PassedOK(w)'
    BY <1>0, <2>3, <2>5 DEF ServerOK, PassedOK, Seeding, HasPermissions, HasAdminRole, HasUserRole,
                            HasAccount
  <2> QED BY <2>3, <2>4, <2>6, <2>7, <2>8, StepOK DEF ServerOK, bounds
<1> QED BY <1>3, <1>4

LEMMA SaveUserRoleKeeps ==
    ASSUME StartupAssumption, Inv, NEW s \in Servers, SaveUserRole(s), UNCHANGED bounds
    PROVE  Inv'
<1> DEFINE v == server[s]
<1>0. v \in Records /\ ServerOK(v) /\ v.at = "saveUserRole" /\ UNCHANGED <<schema, perm, account>>
  BY DEF Inv, TypeOK, Records, SaveUserRole
<1>1. v.found \in {None, "user"} /\ v.all \cap Basic \subseteq Present(perm) /\ schema
  BY <1>0 DEF ServerOK, ReadOK
<1>2. SaveRole(s, "user", v.all \cap Basic, "lookSuperadmin")
  BY DEF SaveUserRole
<1>3. CASE ~(v.found = "user" \/ role["user"] = "absent")
  BY <1>0, <1>2, <1>3, FailOK DEF SaveRole, tables
<1>4. CASE v.found = "user" \/ role["user"] = "absent"
  <2>1. /\ role' \in [RoleNames -> Status] /\ role'["user"] = "live" /\ grants'["user"] = v.all \cap Basic
        /\ role'["superadmin"] = role["superadmin"] /\ grants'["superadmin"] = grants["superadmin"]
        /\ grants' \in [RoleNames -> SUBSET {p \in Names : perm[p] # "absent"}]
        /\ \A r \in RoleNames : role'[r] = "absent" => grants'[r] = {}
        /\ server' = [server EXCEPT ![s].at = "lookSuperadmin"] /\ UNCHANGED holds
    BY <1>0, <1>1, <1>2, <1>4, SaveRoleTables
  <2>2. PICK w \in Records : w = [v EXCEPT !.at = "lookSuperadmin"]
    BY <1>0 DEF Records, Steps
  <2>3. w.at = "lookSuperadmin" /\ w.all = v.all /\ server' = [server EXCEPT ![s] = w]
    BY <1>0, <2>1, <2>2 DEF Records
  <2>4. TypeOK' /\ AccountOK'
    BY <1>0, <1>1, <2>1, <2>3 DEF Inv, TypeOK, AccountOK, bounds, Records, RoleNames
  <2>5. ~touched => UserRole' /\ AdminRole'
    BY <1>0, <2>1
    DEF ServerOK, PassedOK, HasPermissions, HasAdminRole, UserRole, AdminRole, StartupAssumption
  <2>6. Leaves
    BY <1>0, <2>1, <2>5 DEF Leaves, bounds
  <2>7. ReadOK(w)'
    BY <1>0, <1>1, <2>3 DEF ServerOK, ReadOK
  <2>8. ~touched => PassedOK(w)'
    BY <1>0, <2>3, <2>5 DEF ServerOK, PassedOK, Seeding, HasPermissions, HasAdminRole, HasUserRole,
                            HasAccount
  <2> QED BY <2>3, <2>4, <2>6, <2>7, <2>8, StepOK DEF ServerOK, bounds
<1> QED BY <1>3, <1>4

LEMMA AddAccountKeeps ==
    ASSUME StartupAssumption, Inv, NEW s \in Servers, AddAccount(s), UNCHANGED bounds
    PROVE  Inv'
<1> DEFINE v == server[s]
<1>0. v \in Records /\ ServerOK(v) /\ v.at = "addAccount" /\ UNCHANGED <<schema, perm, role, grants>>
  BY DEF Inv, TypeOK, Records, AddAccount
<1>1. CASE ~(account = "absent" /\ v.found # None)
  BY <1>0, <1>1, FailOK DEF AddAccount, tables
<1>2. CASE account = "absent" /\ v.found # None
  <2>1. PICK w \in Records : w = [v EXCEPT !.at = "up"]
    BY <1>0 DEF Records, Steps
  <2>2. w.at = "up" /\ w.all = v.all /\ server' = [server EXCEPT ![s] = w]
        /\ account' = "live" /\ holds' = "superadmin"
    BY <1>0, <1>2, <2>1 DEF Records, AddAccount, Goto
  <2>3. role["superadmin"] # "absent" /\ schema
    BY <1>0, <1>2 DEF ServerOK, ReadOK
  <2>4. TypeOK' /\ AccountOK'
    BY <1>0, <2>2, <2>3 DEF Inv, TypeOK, AccountOK, bounds, Records, Status, RoleNames
  <2>5. Leaves
    BY <1>0, <2>2 DEF Leaves, bounds, AdminRole, UserRole
  <2>6. ReadOK(w)'
    BY <1>0, <2>2, <2>3 DEF ServerOK, ReadOK
  <2>7. ~touched => PassedOK(w)'
    BY <1>0, <2>2 DEF ServerOK, PassedOK, AdminRole, UserRole, Seeding, HasPermissions,
                      HasAdminRole, HasUserRole, HasAccount
  <2> QED BY <2>2, <2>4, <2>5, <2>6, <2>7, StepOK DEF ServerOK, bounds
<1> QED BY <1>1, <1>2

LEMMA CrashKeeps ==
    ASSUME StartupAssumption, Inv, NEW s \in Servers, Crash(s)
    PROVE  Inv'
<1>1. TypeOK' /\ AccountOK'
  BY DownOK DEF Crash, Fail, Inv, TypeOK, AccountOK, tables, StartupAssumption, Down, Records
<1>2. Leaves
  BY SameLeaves DEF Crash
<1> QED BY <1>1, <1>2, DownOK, StepOK DEF Crash, Fail

\* The administrators.
LEMMA AdministrateKeeps ==
    ASSUME StartupAssumption, Inv, Administrate
    PROVE  Inv'
<1>0. /\ edits' \in 0..MaxEdits /\ UNCHANGED <<schema, server, crashes>> /\ schema
      /\ TypeOK /\ AccountOK
  <2>1. PICK s \in Servers : server[s].at = "up"
    BY DEF Administrate, Up
  <2>2. schema
    BY <2>1 DEF Inv, ServerOK, ReadOK
  <2> QED BY <2>2 DEF Administrate, Inv, TypeOK, StartupAssumption
<1>1. ASSUME TypeOK', AccountOK', Leaves
      PROVE  Inv'
  BY <1>0, <1>1, LeavesOthers DEF Inv, TypeOK
<1>2. ASSUME CreatePermission
      PROVE  TypeOK' /\ AccountOK' /\ Leaves
  <2>1. PICK p \in Custom : perm[p] = "absent" /\ perm' = [perm EXCEPT ![p] = "live"]
                            /\ UNCHANGED <<role, grants, account, holds, touched>>
    BY <1>2 DEF CreatePermission
  <2>2. /\ perm' \in [Names -> Status] /\ Present(perm) \subseteq Present(perm')
        /\ Live(perm) \subseteq Live(perm')
        /\ {q \in Names : perm[q] # "absent"} \subseteq {q \in Names : perm'[q] # "absent"}
    BY <1>0, <2>1 DEF TypeOK, Status, Present, Live
  <2> QED BY <1>0, <2>1, <2>2 DEF TypeOK, AccountOK, Leaves, AdminRole, UserRole
<1>3. ASSUME RemovePermission
      PROVE  TypeOK' /\ AccountOK' /\ Leaves
  <2>1. PICK p \in Live(perm) : perm' = [perm EXCEPT ![p] = "removed"]
                                /\ touched' = (touched \/ p \in Catalogue)
                                /\ UNCHANGED <<role, grants, account, holds>>
    BY <1>3 DEF RemovePermission
  <2>2. touched' \in BOOLEAN /\ (touched => touched') /\ (~touched' => p \notin Catalogue)
    BY <1>0, <2>1 DEF TypeOK
  <2>3. /\ perm' \in [Names -> Status] /\ Present(perm) \subseteq Present(perm')
        /\ p \notin Catalogue => Catalogue \cap Live(perm) \subseteq Live(perm')
        /\ {q \in Names : perm[q] # "absent"} \subseteq {q \in Names : perm'[q] # "absent"}
    BY <1>0, <2>1 DEF TypeOK, Status, Present, Live
  <2>4. UNCHANGED <<role, grants, account, holds>>
    BY <2>1
  <2> HIDE <2>1
  <2> QED BY <1>0, <2>2, <2>3, <2>4 DEF TypeOK, AccountOK, Leaves, AdminRole, UserRole
<1>4. ASSUME CreateRole
      PROVE  TypeOK' /\ AccountOK' /\ Leaves
  BY <1>0, <1>4 DEF CreateRole, TypeOK, AccountOK, Leaves, AdminRole, UserRole, Status, RoleNames
<1>5. ASSUME RemoveRole
      PROVE  TypeOK' /\ AccountOK' /\ Leaves
  <2>1. PICK r \in Live(role) : role' = [role EXCEPT ![r] = "removed"]
                                /\ touched' = (touched \/ r # "admin")
                                /\ UNCHANGED <<perm, grants, account, holds>>
    BY <1>5 DEF RemoveRole
  <2>2. touched' \in BOOLEAN /\ (touched => touched') /\ (~touched' => r = "admin")
    BY <1>0, <2>1 DEF TypeOK
  <2>3. /\ role' \in [RoleNames -> Status] /\ \A q \in RoleNames : role'[q] = "absent" <=> role[q] = "absent"
        /\ r = "admin" => role'["superadmin"] = role["superadmin"] /\ role'["user"] = role["user"]
    BY <1>0, <2>1 DEF TypeOK, Status, Live, RoleNames
  <2>4. UNCHANGED <<perm, grants, account, holds>>
    BY <2>1
  <2> HIDE <2>1
  <2> QED BY <1>0, <2>2, <2>3, <2>4 DEF TypeOK, AccountOK, Leaves, AdminRole, UserRole, RoleNames
<1>6. ASSUME SyncPermissions
      PROVE  TypeOK' /\ AccountOK' /\ Leaves
  <2>1. PICK r \in Live(role), ps \in SUBSET Live(perm) :
                 /\ grants' = [grants EXCEPT ![r] = ps]
                 /\ touched' = (touched \/ r # "admin")
                 /\ UNCHANGED <<perm, role, account, holds>>
    BY <1>6 DEF SyncPermissions
  <2>2. touched' \in BOOLEAN /\ (touched => touched') /\ (~touched' => r = "admin")
    BY <1>0, <2>1 DEF TypeOK
  <2>3. /\ grants' \in [RoleNames -> SUBSET {p \in Names : perm[p] # "absent"}]
        /\ \A q \in RoleNames : role[q] = "absent" => grants'[q] = {}
        /\ r = "admin" => grants'["superadmin"] = grants["superadmin"] /\ grants'["user"] = grants["user"]
    BY <1>0, <2>1 DEF TypeOK, Live, RoleNames
  <2>4. UNCHANGED <<perm, role, account, holds>>
    BY <2>1
  <2> HIDE <2>1
  <2> QED BY <1>0, <2>2, <2>3, <2>4 DEF TypeOK, AccountOK, Leaves, AdminRole, UserRole
<1>7. ASSUME RemoveAccount
      PROVE  TypeOK' /\ AccountOK' /\ Leaves
  BY <1>0, <1>7 DEF RemoveAccount, TypeOK, AccountOK, Leaves, Status
<1> QED BY <1>1, <1>2, <1>3, <1>4, <1>5, <1>6, <1>7 DEF Administrate

-----------------------------------------------------------------------------
(* The specification *)

LEMMA InitInv == Init => Inv
<1> SUFFICES ASSUME Init PROVE Inv
  OBVIOUS
<1>1. TypeOK
  <2>1. server \in [Servers -> Records] /\ \A s \in Servers : server[s].at = "down"
    BY DownOK DEF Init, Down
  <2>2. crashes \in 0..MaxCrashes /\ edits \in 0..MaxEdits
    BY StartupAssumption DEF Init, StartupAssumption
  <2>3. /\ perm \in [Names -> Status] /\ role \in [RoleNames -> Status] /\ account \in Status
        /\ grants \in [RoleNames -> SUBSET {p \in Names : perm[p] # "absent"}]
    BY DEF Init, Status
  <2> QED BY <2>1, <2>2, <2>3 DEF Init, TypeOK, Records
<1> QED BY <1>1, DownOK DEF Init, Inv, AccountOK

LEMMA NextInv == Inv /\ [Next]_vars => Inv'
<1> SUFFICES ASSUME Inv, [Next]_vars PROVE Inv'
  OBVIOUS
<1>1. CASE UNCHANGED vars
  <2>1. TypeOK' /\ AccountOK'
    BY <1>1 DEF vars, tables, bounds, Inv, TypeOK, AccountOK
  <2>2. Leaves
    BY <1>1, SameLeaves DEF vars, bounds
  <2>3. ASSUME NEW s \in Servers
        PROVE  ServerOK(server[s])'
    <3>1. ServerOK(server[s]) /\ server'[s] = server[s]
      BY <1>1 DEF Inv, vars
    <3> QED BY <2>1, <2>2, <3>1, LeavesOthers DEF Inv, TypeOK
  <2> QED BY <2>1, <2>3 DEF Inv
<1>2. CASE Administrate
  BY <1>2, AdministrateKeeps, StartupAssumption
<1>3. ASSUME NEW s \in Servers, Boot(s)
      PROVE  Inv'
  BY <1>3, StartupAssumption, LooksKeep, RunMigrationsKeeps, AddPermissionKeeps, SaveAdminRoleKeeps,
     SaveUserRoleKeeps, AddAccountKeeps DEF Boot, SeedPermissions, SeedRoles, SeedUsers
<1>4. ASSUME NEW s \in Servers, Crash(s)
      PROVE  Inv'
  BY <1>4, CrashKeeps, StartupAssumption
<1> QED BY <1>1, <1>2, <1>3, <1>4 DEF Next

LEMMA AlwaysInv == Spec => []Inv
BY InitInv, NextInv, PTL DEF Spec

\* For any number of servers, permissions, crashes and edits the tables and the
\* servers have their types: an account has its role, nothing is seeded before
\* the migrations, and what is granted has a row.
THEOREM StartupTypes == Spec => []TypeOK
<1>1. Inv => TypeOK
  BY DEF Inv
<1> QED BY <1>1, AlwaysInv, PTL

\* For any number of servers, permissions, crashes and edits: once a server
\* listens, and as long as nobody has reassigned or removed what was seeded, the
\* administrator has every permission of the catalogue and a user the basic ones.
THEOREM ListensWithFullAccess == Spec => []FullAccess
<1>1. Inv => FullAccess
  <2> SUFFICES ASSUME Inv, Up # {}, ~touched
               PROVE  /\ account = "live" /\ holds = "superadmin"
                      /\ Catalogue \subseteq grants["superadmin"] /\ grants["user"] = Basic
    BY DEF FullAccess
  <2>1. PICK s \in Servers : server[s].at = "up"
    BY DEF Up
  <2>2. PassedOK(server[s])
    BY DEF Inv, ServerOK
  <2> QED BY <2>1, <2>2 DEF PassedOK, HasAccount, HasUserRole, HasAdminRole, AdminRole, UserRole,
                             Inv, AccountOK
<1> QED BY <1>1, AlwaysInv, PTL
=============================================================================
