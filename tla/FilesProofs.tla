---------------------------- MODULE FilesProofs ----------------------------
(***************************************************************************)
(* The file hierarchy stays a forest whatever the connections, names and   *)
(* templates: NodesFormForest for every instance of Files. The only step   *)
(* that changes file_nodes is NodeInsert, which appends one row that       *)
(* passed the table's indexes and foreign keys.                            *)
(***************************************************************************)
EXTENDS Files, TLAPS, SequenceTheorems

Row ==
    [kind : {"file", "folder", "alias"}, name : Nat, parent : Nat,
     alias_target : Nat, object_key : Nat]

ForestInv == file_nodes \in Seq(Row) /\ NodesFormForest

(* A fixture's row and every row an Admin may try have the columns' types. *)
LEMMA FixtureRowTyped ==
    ASSUME NEW n \in 1..3
    PROVE  FixtureRow(n) \in Row
BY DEF FixtureRow, Row, NULL

LEMMA NewRowTyped ==
    ASSUME file_nodes \in Seq(Row), NEW t \in Templates, NEW p \in 0..Len(file_nodes),
           NEW a \in {NULL, Len(file_nodes), Len(file_nodes) + 1}
    PROVE  NewRow(t, p, a) \in Row
<1>1. t \in [kind : {"file", "folder", "alias"}, name : Nat, object_key : Nat]
  BY FilesAssumption DEF FilesAssumption
<1>2. a \in Nat /\ p \in Nat  BY DEF NULL
<1>. QED  BY <1>1, <1>2 DEF Row, NewRow

(* NodeInsert keeps the forest: the row it appends passed Insertable.      *)
LEMMA NodeInsertKeepsForest ==
    ASSUME ForestInv, NEW c, NEW row \in Row, NodeInsert(c, row)
    PROVE  ForestInv'
<1>1. CASE file_nodes' = file_nodes
  BY <1>1 DEF ForestInv, NodesFormForest, Ids
<1>2. CASE Insertable(row) /\ file_nodes' = Append(file_nodes, row)
  <2>. DEFINE n == Len(file_nodes)
  <2>1. n \in Nat /\ DOMAIN file_nodes = 1..n  BY DEF ForestInv
  <2>2. /\ file_nodes' \in Seq(Row) /\ DOMAIN file_nodes' = 1..(n + 1)
        /\ file_nodes'[n + 1] = row
        /\ \A i \in 1..n : file_nodes'[i] = file_nodes[i]
    BY <1>2, <2>1 DEF ForestInv
  <2>3. row.parent \in 0..n /\ row.alias_target \in 0..n
    BY <1>2, <2>1 DEF Insertable, References, Ids, NULL
  <2>4. \A i \in 1..n : file_nodes[i].parent = row.parent => file_nodes[i].name # row.name
    BY <1>2, <2>1 DEF Insertable, SiblingNameFree, Ids
  <2>5. \A i \in 1..n : row.object_key = NoKey \/ file_nodes[i].object_key # row.object_key
    BY <1>2, <2>1 DEF Insertable, ObjectKeyFree, Ids
  <2>6. \A i \in 1..n :
          /\ file_nodes[i].parent < i /\ file_nodes[i].alias_target < i
          /\ \A j \in (1..n) \ {i} :
              /\ file_nodes[i].parent = file_nodes[j].parent
                    => file_nodes[i].name # file_nodes[j].name
              /\ file_nodes[i].object_key = file_nodes[j].object_key
                    => file_nodes[i].object_key = NoKey
    BY <2>1 DEF ForestInv, NodesFormForest, Ids
  <2>7. ASSUME NEW i \in 1..(n + 1)
        PROVE  /\ file_nodes'[i].parent < i /\ file_nodes'[i].alias_target < i
               /\ \A j \in (1..(n + 1)) \ {i} :
                   /\ file_nodes'[i].parent = file_nodes'[j].parent
                         => file_nodes'[i].name # file_nodes'[j].name
                   /\ file_nodes'[i].object_key = file_nodes'[j].object_key
                         => file_nodes'[i].object_key = NoKey
    <3>1. CASE i = n + 1
      BY <2>1, <2>2, <2>3, <2>4, <2>5, <3>1, SMTT(30)
    <3>2. CASE i \in 1..n
      <4>1. file_nodes'[i].parent < i /\ file_nodes'[i].alias_target < i
        BY <2>2, <2>6, <3>2
      <4>2. ASSUME NEW j \in (1..(n + 1)) \ {i}
            PROVE  /\ file_nodes'[i].parent = file_nodes'[j].parent
                         => file_nodes'[i].name # file_nodes'[j].name
                   /\ file_nodes'[i].object_key = file_nodes'[j].object_key
                         => file_nodes'[i].object_key = NoKey
        <5>1. CASE j = n + 1  BY <2>1, <2>2, <2>4, <2>5, <3>2, <5>1, SMTT(30)
        <5>2. CASE j \in 1..n  BY <2>2, <2>6, <3>2, <5>2, SMTT(30)
        <5>. QED  BY <2>1, <5>1, <5>2
      <4>. QED  BY <4>1, <4>2
    <3>. QED  BY <2>1, <3>1, <3>2
  <2>. QED  BY <2>2, <2>7 DEF ForestInv, NodesFormForest, Ids, NoKey
<1>. QED  BY <1>1, <1>2 DEF NodeInsert

(* Every other step leaves file_nodes alone.                               *)
LEMMA OtherStepsKeepNodes ==
    ASSUME file_nodes \in Seq(Row), [Next]_filesVars
    PROVE  \/ file_nodes' = file_nodes
           \/ \E c \in Admins \cup Fixtures : \E r \in Row : NodeInsert(c, r)
<1>1. ASSUME NEW c, Writes(c)
      PROVE  file_nodes' = file_nodes \/ \E r \in Row : NodeInsert(c, r)
  BY <1>1, NewRowTyped DEF Writes, SeedInsert, GroupInsert, add_user_to_group,
     grant_resource_permission
<1>2. ASSUME NEW c, SecondStatement(c)  PROVE file_nodes' = file_nodes
  BY <1>2 DEF SecondStatement, StatementFails, Returns, seed_permission, create_group,
     create_file_node, get_file_node, list_visible_root_file_nodes_for_user, tables
<1>3. ASSUME NEW c, Reads(c)  PROVE file_nodes' = file_nodes
  BY <1>3 DEF Reads, LookupPath, LookupAlias, VisibleModern, tables
<1>4. ASSUME NEW c, EnsureLookup(c) \/ ensure_test_user(c)  PROVE file_nodes' = file_nodes
  BY <1>4 DEF EnsureLookup, ensure_test_user, tables
<1>5. ASSUME NEW c, FixtureCall(c)
      PROVE  file_nodes' = file_nodes \/ \E r \in Row : NodeInsert(c, r)
  BY <1>5, FixtureRowTyped DEF FixtureCall, SeedInsert, GroupInsert, add_user_to_group,
     grant_resource_permission
<1>. QED  BY <1>1, <1>2, <1>3, <1>4, <1>5, SMTT(30) DEF Next, filesVars, tables

(* NodesFormForest holds in every reachable state, for every value of the  *)
(* constants: no interleaving of create_file_node calls makes two siblings *)
(* of one name, a shared object key or a loop of parents or aliases.       *)
THEOREM FilesForest == Spec => []NodesFormForest
<1>1. Init => ForestInv
  BY DEF Init, ForestInv, NodesFormForest, Ids
<1>2. ForestInv /\ [Next]_filesVars => ForestInv'
  <2>. SUFFICES ASSUME ForestInv, [Next]_filesVars  PROVE ForestInv'
    OBVIOUS
  <2>1. CASE file_nodes' = file_nodes
    BY <2>1 DEF ForestInv, NodesFormForest, Ids
  <2>2. ASSUME NEW c \in Admins \cup Fixtures, NEW r \in Row, NodeInsert(c, r)
        PROVE  ForestInv'
    BY <2>2, NodeInsertKeepsForest
  <2>. QED  BY <2>1, <2>2, OtherStepsKeepNodes DEF ForestInv
<1>3. ForestInv => NodesFormForest  BY DEF ForestInv
<1>. QED  BY <1>1, <1>2, <1>3, PTL DEF Spec
=============================================================================
