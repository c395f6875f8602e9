------------------------------ MODULE MCStartup ------------------------------
(* The legacy daemon, the wireframe daemon and a create-user start on one  *)
(* database; the password is typed and configured, or neither.             *)
EXTENDS Startup

CONSTANTS d1, c1, w1, alice, typed, stored

MCKind == [p \in Procs |-> IF p = d1 THEN "legacy" ELSE IF p = c1 THEN "create_user" ELSE "wireframe"]

Given(u, w) == [username |-> u, password |-> w]

MCArguments ==
    {[cli |-> Given(alice, typed), file |-> Given(None, stored)],
     [cli |-> Given(None, None), file |-> Given(alice, None)]}

MCMaxStarts == [p \in Procs |-> IF p = c1 THEN 2 ELSE 1]

MCDatabases ==
    {[backend |-> "sqlite", version |-> 0, features |-> {"json1", "recursive_cte"}],
     [backend |-> "postgres", version |-> 13, features |-> {}]}
=============================================================================
