-------------------------------- MODULE Files --------------------------------
(***************************************************************************)
(* The file hierarchy and its access lists: src/db/files.rs, the path      *)
(* lookup of src/db/file_path.rs, the legacy list of                       *)
(* src/db/file_legacy_visibility.rs and the fixture that fills a database, *)
(* setup_files_db. Every SQL statement is one step, as several connections *)
(* share the database; a function of two statements is two steps, and any  *)
(* statement may fail. The tables only grow: no code deletes or updates    *)
(* their rows. Names are numbers, so that ORDER BY has an order.           *)
(***************************************************************************)
EXTENDS Integers, Sequences, FiniteSets, SequencesExt

CONSTANTS
    Fixtures,      \* connections that run setup_files_db
    Admins,        \* connections that call the writers in any order
    Readers,       \* connections that call the readers
    Users,         \* user ids; all but Alice exist from the start
    Alice,         \* the fixture's user
    Names,         \* basenames
    Groups,        \* group names; the fixture's is Everyone
    Everyone,
    Templates,     \* the [kind, name, object_key] an Admin inserts
    Paths,         \* paths looked up, split at every slash
    LegacyRows,    \* the pairs <<user id, file name>> the legacy tables may join
    MaxWrites      \* bound on the writes of the Admins together

ASSUME FilesAssumption ==
    /\ Names \subseteq Nat \ {0} /\ 1..3 \subseteq Names
    /\ Templates \subseteq [kind : {"file", "folder", "alias"}, name : Names, object_key : Nat]
    /\ Alice \in Users /\ Everyone \in Groups
    /\ MaxWrites \in Nat

VARIABLES
    users,                 \* ids present in users
    permissions,           \* rows [code, name]; an id is a position
    groups,                \* group names; an id is a position
    user_groups,           \* pairs <<user id, group id>>
    file_nodes,            \* rows; an id is a position
    resource_permissions,  \* rows [resource, kind, principal, permission]
    file_acl,              \* legacy tables joined: pairs <<user id, file name>>
    last_rowid,            \* last_insert_rowid() of each connection
    call,                  \* the call each connection is in
    setup,                 \* how far each fixture is, and what it has learnt
    writes                 \* writes begun by Admins

tables == <<users, permissions, groups, user_groups, file_nodes,
            resource_permissions, file_acl>>
filesVars == <<tables, last_rowid, call, setup, writes>>

Conns == Fixtures \cup Admins \cup Readers

(* Where a call is.                                                        *)
Idle == 0
Second == 2
Done == 3
Err == 4

NULL == 0
NoKey == 0
EmptySegment == 0
(* FileNodeKind::as_str, in the order the strings sort.                    *)
KindRank == [alias |-> 1, file |-> 2, folder |-> 3]

-----------------------------------------------------------------------------
(* Rows.                                                                   *)

download_file_permission == [code |-> 2, name |-> "download_file"]

(* A permission seeded before, and one whose name it has taken.            *)
OtherPermission == [code |-> 3, name |-> "other"]
NewPermissions == {download_file_permission, [code |-> 4, name |-> "other"]}

Ids(table) == DOMAIN table

(* The table's CHECK on the columns of each kind.                          *)
KindColumns(row) ==
    CASE row.kind = "file"   -> row.object_key # NoKey /\ row.alias_target = NULL
      [] row.kind = "folder" -> row.object_key = NoKey /\ row.alias_target = NULL
      [] row.kind = "alias"  -> row.object_key = NoKey /\ row.alias_target # NULL

MutSiblingNameFree(row) ==
    \A i \in Ids(file_nodes) :
        file_nodes[i].parent = row.parent => (file_nodes[i].name # row.name \/ row.parent = NULL)

(* The unique indexes on (name) at the top and (parent_id, name) below.    *)
SiblingNameFree(row) ==
    \A i \in Ids(file_nodes) :
        file_nodes[i].parent = row.parent => file_nodes[i].name # row.name

ObjectKeyFree(row) ==
    row.object_key = NoKey
    \/ \A i \in Ids(file_nodes) : file_nodes[i].object_key # row.object_key

References(row) ==
    /\ row.parent \in Ids(file_nodes) \cup {NULL}
    /\ row.alias_target \in Ids(file_nodes) \cup {NULL}

Insertable(row) ==
    KindColumns(row) /\ SiblingNameFree(row) /\ ObjectKeyFree(row) /\ References(row)

(* The foreign keys and the trigger on the principal.                      *)
Grantable(g) ==
    /\ g.resource \in Ids(file_nodes)
    /\ g.permission \in Ids(permissions)
    /\ \/ g.kind = "user" /\ g.principal \in users
       \/ g.kind = "group" /\ g.principal \in Ids(groups)

-----------------------------------------------------------------------------
(* Queries.                                                                *)

(* prepare_path: the slashes at both ends are trimmed, so the empty        *)
(* segments there vanish.                                                  *)
Solid(path) == {i \in DOMAIN path : path[i] # EmptySegment}

MutPreparePath(path) == path

prepare_path(path) ==
    IF Solid(path) = {} THEN <<>>
    ELSE SubSeq(path, CHOOSE i \in Solid(path) : \A j \in Solid(path) : i <= j,
                      CHOOSE i \in Solid(path) : \A j \in Solid(path) : i >= j)

InvalidPath(path) == EmptySegment \in Range(prepare_path(path))

(* One recursion of the path query: join the rows found so far with the    *)
(* nodes of the next name under them. The seed row is NULL.                *)
Step(rows, segment) ==
    {i \in Ids(file_nodes) : file_nodes[i].name = segment /\ file_nodes[i].parent \in rows}

file_node_id_from_path(path) ==
    LET rows == FoldLeft(Step, {NULL}, prepare_path(path))
    IN  IF prepare_path(path) = <<>> \/ rows = {} THEN NULL
        ELSE CHOOSE i \in rows : TRUE

(* ORDER BY name: the siblings have distinct names.                        *)
list_child_file_nodes(parent) ==
    SetToSortSeq({i \in Ids(file_nodes) : file_nodes[i].parent = parent},
                 LAMBDA i, j : file_nodes[i].name < file_nodes[j].name)

GrantReaches(g, u) ==
    \/ g.kind = "user" /\ g.principal = u
    \/ g.kind = "group" /\ <<u, g.principal>> \in user_groups

MutVisibleNodes(u) ==
    {i \in Ids(file_nodes) :
        /\ file_nodes[i].parent = NULL
        /\ \E g \in resource_permissions : g.resource = i /\ GrantReaches(g, u)}

(* The joined query of list_visible_root_file_nodes_for_user.              *)
VisibleNodes(u) ==
    {i \in Ids(file_nodes) :
        /\ file_nodes[i].parent = NULL
        /\ \E g \in resource_permissions :
            /\ g.resource = i
            /\ permissions[g.permission].code = download_file_permission.code
            /\ GrantReaches(g, u)}

Entry(i) == [name |-> file_nodes[i].name, kind |-> file_nodes[i].kind]

modern_visible(u) == {Entry(i) : i \in VisibleNodes(u)}

list_legacy_visible_root_files_for_user(u) ==
    {[name |-> n, kind |-> "file"] : n \in {m \in Names : <<u, m>> \in file_acl}}

EntryBefore(e, f) ==
    e.name < f.name \/ (e.name = f.name /\ KindRank[e.kind] < KindRank[f.kind])

(* The legacy entries whose (name, kind) is not taken join the modern      *)
(* ones, and the whole is sorted.                                          *)
Merged(modern, legacy) ==
    SetToSortSeq(modern \cup {e \in legacy : e \notin modern}, EntryBefore)

(* What the tables entitle a user to see, grant by grant; the listing's    *)
(* answer is judged against it.                                            *)
Entitled(u) ==
    {Entry(g.resource) : g \in {h \in resource_permissions :
        /\ file_nodes[h.resource].parent = NULL
        /\ permissions[h.permission] = download_file_permission
        /\ \/ h.kind = "user" /\ h.principal = u
           \/ \E m \in user_groups : h.kind = "group" /\ m = <<u, h.principal>>}}
    \cup {[name |-> r[2], kind |-> "file"] : r \in {a \in file_acl : a[1] = u}}

-----------------------------------------------------------------------------
(* setup_files_db: ensure_test_user, then the calls of the plan in order;  *)
(* the ids its calls return are the ones its later calls use.              *)

FixtureRow(name) ==
    [kind |-> "file", name |-> name, parent |-> NULL, alias_target |-> NULL,
     object_key |-> name]

FixtureGrant(permission, node) ==
    [resource |-> node, kind |-> "user", principal |-> Alice, permission |-> permission]

PlanLength == 8

Free(c) == call[c].at = Idle

(* ensure_test_user: a lookup, then an insert when it found nobody; the    *)
(* username is unique.                                                     *)
EnsureLookup(c) ==
    /\ setup[c].at = "lookup" /\ Free(c)
    /\ setup' = [setup EXCEPT ![c].at = IF Alice \in users THEN "plan" ELSE "create"]
    /\ UNCHANGED <<tables, last_rowid, call>>

ensure_test_user(c) ==
    /\ setup[c].at = "create" /\ Free(c)
    /\ users' = users \cup {Alice}
    /\ setup' = [setup EXCEPT ![c].at = IF Alice \in users THEN "failed" ELSE "plan"]
    /\ UNCHANGED <<permissions, groups, user_groups, file_nodes, resource_permissions,
                   file_acl, last_rowid, call>>

-----------------------------------------------------------------------------
(* Calls. A call waits for its second statement or is done; arg is what it *)
(* was given, got what its first statement found, out the answer, and seen *)
(* a history value that a listing is judged against.                       *)

NoCall == [op |-> "none", at |-> Idle, arg |-> NULL, got |-> NULL, out |-> NULL, seen |-> {}]

Answer(c, op, arg, v) ==
    call' = [call EXCEPT ![c] = [NoCall EXCEPT !.op = op, !.at = Done, !.arg = arg, !.out = v]]

Advance(c, op, arg, v, seen) ==
    call' = [call EXCEPT ![c] = [NoCall EXCEPT !.op = op, !.at = Second, !.arg = arg,
                                               !.got = v, !.seen = seen]]

Fails(c) == call' = [call EXCEPT ![c] = [NoCall EXCEPT !.at = Err]]

In(c, op) == call[c].op = op /\ call[c].at = Second

Finish(c, v) == call' = [call EXCEPT ![c].at = Done, ![c].out = v]

(* Any statement may fail, and the `?` after it ends the call.             *)
StatementFails(c) ==
    /\ \/ call[c].at = Second
       \/ Free(c) /\ c \in Fixtures /\ setup[c].at \in {"lookup", "create", "plan"}
    /\ Fails(c)
    /\ UNCHANGED <<tables, last_rowid, setup>>

(* The answer goes to the caller: a fixture keeps it for its later calls,  *)
(* and gives up on an error.                                               *)
Returns(c) ==
    /\ call[c].at \in {Done, Err}
    /\ call' = [call EXCEPT ![c] = NoCall]
    /\ setup' =
        IF c \notin Fixtures THEN setup
        ELSE IF call[c].at = Err THEN [setup EXCEPT ![c].at = "failed"]
        ELSE [setup EXCEPT ![c].ids = Append(@, call[c].out),
                           ![c].at = IF Len(setup[c].ids) + 1 = PlanLength THEN "ok" ELSE "plan"]
    /\ UNCHANGED <<tables, last_rowid>>

Codes == {permissions[i].code : i \in Ids(permissions)}

PermissionNames == {permissions[i].name : i \in Ids(permissions)}

(* insert_or_get_id: INSERT ... ON CONFLICT (code) DO NOTHING, which still *)
(* fails on a name that another code has taken.                            *)
SeedInsert(c, new) ==
    /\ Free(c)
    /\ \/ /\ new.code \in Codes
          /\ Advance(c, "seed_permission", new, NULL, {}) /\ UNCHANGED permissions
       \/ /\ new.code \notin Codes /\ new.name \in PermissionNames
          /\ Fails(c) /\ UNCHANGED permissions
       \/ /\ new.code \notin Codes /\ new.name \notin PermissionNames
          /\ permissions' = Append(permissions, new)
          /\ Advance(c, "seed_permission", new, NULL, {})
    /\ UNCHANGED <<users, groups, user_groups, file_nodes, resource_permissions,
                   file_acl, last_rowid, setup>>

MutGrantInsert(c, g) ==
    /\ Free(c)
    /\ Answer(c, "grant_resource_permission", g, 1)
    /\ resource_permissions' = IF resource_permissions = {} THEN {g} ELSE resource_permissions
    /\ UNCHANGED <<users, permissions, groups, user_groups, file_nodes, file_acl,
                   last_rowid, setup>>

seed_permission(c) ==
    /\ In(c, "seed_permission")
    /\ \E i \in Ids(permissions) :
        permissions[i].code = call[c].arg.code /\ Finish(c, i)
    /\ UNCHANGED <<tables, last_rowid, setup>>

GroupInsert(c, name) ==
    /\ Free(c)
    /\ groups' = IF name \in Range(groups) THEN groups ELSE Append(groups, name)
    /\ Advance(c, "create_group", name, NULL, {})
    /\ UNCHANGED <<users, permissions, user_groups, file_nodes, resource_permissions,
                   file_acl, last_rowid, setup>>

create_group(c) ==
    /\ In(c, "create_group")
    /\ \E i \in Ids(groups) : groups[i] = call[c].arg /\ Finish(c, i)
    /\ UNCHANGED <<tables, last_rowid, setup>>

(* ON CONFLICT DO NOTHING: the answer says whether a row was inserted.     *)
add_user_to_group(c, m) ==
    /\ Free(c)
    /\ LET valid == m[1] \in users /\ m[2] \in Ids(groups)
       IN  \/ ~valid /\ Fails(c) /\ UNCHANGED user_groups
           \/ /\ valid
              /\ Answer(c, "add_user_to_group", m, IF m \in user_groups THEN 0 ELSE 1)
              /\ user_groups' = user_groups \cup {m}
    /\ UNCHANGED <<users, permissions, groups, file_nodes, resource_permissions,
                   file_acl, last_rowid, setup>>

grant_resource_permission(c, g) ==
    /\ Free(c)
    /\ \/ ~Grantable(g) /\ Fails(c) /\ UNCHANGED resource_permissions
       \/ /\ Grantable(g)
          /\ Answer(c, "grant_resource_permission", g,
                    IF g \in resource_permissions THEN 0 ELSE 1)
          /\ resource_permissions' = resource_permissions \cup {g}
    /\ UNCHANGED <<users, permissions, groups, user_groups, file_nodes, file_acl,
                   last_rowid, setup>>

(* insert_returning_id without RETURNING: the id is read back from the     *)
(* connection in a second statement.                                       *)
NodeInsert(c, row) ==
    /\ Free(c)
    /\ \/ ~Insertable(row) /\ Fails(c) /\ UNCHANGED <<file_nodes, last_rowid>>
       \/ /\ Insertable(row)
          /\ file_nodes' = Append(file_nodes, row)
          /\ last_rowid' = [last_rowid EXCEPT ![c] = Len(file_nodes')]
          /\ Advance(c, "create_file_node", row, NULL, {})
    /\ UNCHANGED <<users, permissions, groups, user_groups, resource_permissions,
                   file_acl, setup>>

MutCreateFileNode(c) ==
    /\ In(c, "create_file_node")
    /\ Finish(c, Len(file_nodes))
    /\ UNCHANGED <<tables, last_rowid, setup>>

create_file_node(c) ==
    /\ In(c, "create_file_node")
    /\ Finish(c, last_rowid[c])
    /\ UNCHANGED <<tables, last_rowid, setup>>

(* The readers. A lookup that finds no id answers without a second query.  *)
LookupPath(c, path) ==
    /\ Free(c)
    /\ LET id == file_node_id_from_path(path)
       IN  \/ InvalidPath(path) /\ Fails(c)
           \/ /\ ~InvalidPath(path) /\ id = NULL
              /\ Answer(c, "resolve_file_node_path", path, NULL)
           \/ /\ ~InvalidPath(path) /\ id # NULL
              /\ Advance(c, "resolve_file_node_path", path, id, {})
    /\ UNCHANGED <<tables, last_rowid, setup>>

LookupAlias(c, node) ==
    /\ Free(c)
    /\ \/ /\ file_nodes[node].alias_target = NULL
          /\ Answer(c, "resolve_alias_target", node, NULL)
       \/ /\ file_nodes[node].alias_target # NULL
          /\ Advance(c, "resolve_alias_target", node, file_nodes[node].alias_target, {})
    /\ UNCHANGED <<tables, last_rowid, setup>>

get_file_node(c) ==
    /\ In(c, "resolve_file_node_path") \/ In(c, "resolve_alias_target")
    /\ Finish(c, IF call[c].got \in Ids(file_nodes) THEN call[c].got ELSE NULL)
    /\ UNCHANGED <<tables, last_rowid, setup>>

VisibleModern(c, u) ==
    /\ Free(c)
    /\ Advance(c, "list_visible", u, modern_visible(u), Entitled(u))
    /\ UNCHANGED <<tables, last_rowid, setup>>

list_visible_root_file_nodes_for_user(c) ==
    /\ In(c, "list_visible")
    /\ Finish(c, Merged(call[c].got, list_legacy_visible_root_files_for_user(call[c].arg)))
    /\ UNCHANGED <<tables, last_rowid, setup>>

-----------------------------------------------------------------------------
(* Who calls what.                                                         *)

NewRow(t, parent, target) ==
    [kind |-> t.kind, name |-> t.name, parent |-> parent, alias_target |-> target,
     object_key |-> t.object_key]

(* setup_files_db after ensure_test_user: the calls in order, each with    *)
(* the ids the calls before it returned.                                   *)
FixtureCall(c) ==
    LET ids == setup[c].ids
    IN  /\ setup[c].at = "plan"
        /\ \/ Len(ids) = 0 /\ SeedInsert(c, download_file_permission)
           \/ Len(ids) = 1 /\ GroupInsert(c, Everyone)
           \/ Len(ids) = 2 /\ add_user_to_group(c, <<Alice, ids[2]>>)
           \/ \E n \in 1..3 : Len(ids) = n + 2 /\ NodeInsert(c, FixtureRow(n))
           \/ Len(ids) = 6 /\ grant_resource_permission(c, FixtureGrant(ids[1], ids[4]))
           \/ Len(ids) = 7 /\ grant_resource_permission(c, FixtureGrant(ids[1], ids[6]))

Writes(c) ==
    \/ \E p \in NewPermissions : SeedInsert(c, p)
    \/ \E g \in Groups : GroupInsert(c, g)
    \/ \E u \in Users, g \in 1..(Len(groups) + 1) : add_user_to_group(c, <<u, g>>)
    \/ \E t \in Templates, p \in 0..Len(file_nodes),
          a \in {NULL, Len(file_nodes), Len(file_nodes) + 1} : NodeInsert(c, NewRow(t, p, a))
    \/ \E i \in Ids(file_nodes), k \in {"user", "group"}, q \in Users \cup Ids(groups),
          p \in Ids(permissions) :
          grant_resource_permission(c, [resource |-> i, kind |-> k, principal |-> q,
                                        permission |-> p])

Reads(c) ==
    \/ \E p \in Paths : LookupPath(c, p)
    \/ \E i \in Ids(file_nodes) : LookupAlias(c, i)
    \/ \E u \in Users : VisibleModern(c, u)

-----------------------------------------------------------------------------
Init ==
    /\ users = Users \ {Alice}
    /\ permissions = <<OtherPermission>> /\ groups = <<>> /\ user_groups = {}
    /\ file_nodes = <<>> /\ resource_permissions = {}
    /\ file_acl \in SUBSET {r \in LegacyRows : r[1] \in users}
    /\ last_rowid = [c \in Conns |-> 0]
    /\ call = [c \in Conns |-> NoCall]
    /\ setup = [c \in Fixtures |-> [at |-> "lookup", ids |-> <<>>]]
    /\ writes = 0

SecondStatement(c) ==
    \/ StatementFails(c) \/ Returns(c)
    \/ seed_permission(c) \/ create_group(c) \/ create_file_node(c)
    \/ get_file_node(c) \/ list_visible_root_file_nodes_for_user(c)

Next ==
    \/ /\ \/ \E c \in Conns : SecondStatement(c)
          \/ \E c \in Fixtures : FixtureCall(c) \/ EnsureLookup(c) \/ ensure_test_user(c)
          \/ \E c \in Readers : Reads(c)
       /\ UNCHANGED writes
    \/ /\ writes < MaxWrites /\ writes' = writes + 1
       /\ \E c \in Admins : Writes(c)

Spec == Init /\ [][Next]_filesVars

-----------------------------------------------------------------------------
(* Properties.                                                             *)

(* The hierarchy is a forest: siblings have different names, no two files  *)
(* share an object key, and a node's parent and alias target are older     *)
(* than the node, so neither the path query nor a chain of aliases can     *)
(* loop. create_file_node checks none of this itself; it rests on the      *)
(* table's indexes and foreign keys.                                       *)
NodesFormForest ==
    \A i \in Ids(file_nodes) :
        /\ file_nodes[i].parent < i /\ file_nodes[i].alias_target < i
        /\ \A j \in Ids(file_nodes) \ {i} :
            /\ file_nodes[i].parent = file_nodes[j].parent
                  => file_nodes[i].name # file_nodes[j].name
            /\ file_nodes[i].object_key = file_nodes[j].object_key
                  => file_nodes[i].object_key = NoKey

PathTo[i \in Nat] ==
    IF i = NULL THEN <<>> ELSE Append(PathTo[file_nodes[i].parent], file_nodes[i].name)

(* resolve_file_node_path finds every node by the names on the way to it,  *)
(* with or without slashes at the ends, and no other node.                 *)
NodesAnswerToTheirPath ==
    \A i \in Ids(file_nodes) :
        /\ file_node_id_from_path(PathTo[i]) = i
        /\ file_node_id_from_path(<<EmptySegment>> \o PathTo[i] \o <<EmptySegment>>) = i
        /\ file_nodes[i].parent # NULL
              => i \in Range(list_child_file_nodes(file_nodes[i].parent))

(* A call that answers with an id answers with the row that was asked for  *)
(* or inserted, whatever the other connections wrote between its two       *)
(* statements: seed_permission and create_group read the id back by key,   *)
(* create_file_node from its own connection, and the two lookups read a    *)
(* row by the id they found before.                                        *)
AnswersNameTheirRows ==
    \A c \in Conns :
        LET k == call[c]
        IN  k.at = Done =>
            CASE k.op = "seed_permission" -> permissions[k.out].code = k.arg.code
              [] k.op = "create_group" -> groups[k.out] = k.arg
              [] k.op = "create_file_node" -> file_nodes[k.out] = k.arg
              [] k.op = "resolve_file_node_path" /\ k.out # NULL ->
                    PathTo[k.out] = prepare_path(k.arg)
              [] k.op = "resolve_alias_target" /\ k.out # NULL ->
                    file_nodes[k.arg].alias_target = k.out
              [] OTHER -> TRUE

(* A listing holds every entry its user was entitled to when it began,     *)
(* none the user is not entitled to when it ends, and no entry twice, in   *)
(* order of name and kind, although the modern and the legacy tables are   *)
(* read one after the other.                                               *)
ListingsBracketed ==
    \A c \in Conns :
        LET k == call[c]
        IN  (k.op = "list_visible" /\ k.at = Done) =>
            /\ k.seen \subseteq Range(k.out)
            /\ Range(k.out) \subseteq Entitled(k.arg)
            /\ \A i, j \in DOMAIN k.out : i < j => EntryBefore(k.out[i], k.out[j])

(* setup_files_db on a database another run is filling: at most one of     *)
(* them succeeds, and it leaves Alice entitled to its first and third file *)
(* through rows of its own.                                                *)
FixtureContract ==
    \A c \in Fixtures : setup[c].at = "ok" =>
        /\ \A d \in Fixtures \ {c} : setup[d].at # "ok"
        /\ \A k \in 1..3 : file_nodes[setup[c].ids[k + 3]] = FixtureRow(k)
        /\ {[name |-> n, kind |-> "file"] : n \in {1, 3}} \subseteq Entitled(Alice)
=============================================================================
