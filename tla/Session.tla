------------------------------- MODULE Session -------------------------------
(***************************************************************************)
(* The per-connection session of src/handler.rs as operators on a session  *)
(* record, shared by the two server modules. The fields kept are the ones  *)
(* that gate commands or reach other users; icon, flags and automatic      *)
(* response are left out. A privilege mask is the set of its bits' names.   *)
(***************************************************************************)
EXTENDS Integers

CONSTANTS
    Users,      \* primary keys of the users table
    Username,   \* their account names
    NoName      \* the empty display name of a fresh session

ASSUME UsersAssumption == Users \subseteq Nat \ {0}

NoUser == 0

default_user ==
    {"DOWNLOAD_FILE", "READ_CHAT", "SEND_CHAT", "SHOW_IN_LIST", "SEND_PRIVATE_MESSAGE",
     "NEWS_READ_ARTICLE", "NEWS_POST_ARTICLE", "GET_CLIENT_INFO", "CHANGE_OWN_PASSWORD"}

(* What handle_login grants.                                               *)
LoginPrivileges == default_user \cup {"NO_AGREEMENT"}

DefaultSession ==
    [user_id |-> NoUser, phase |-> "Unauthenticated", privileges |-> {}, display_name |-> NoName]

is_authenticated(s) == s.user_id # NoUser

is_online(s) == s.phase = "Online"

requires_agreement(privileges) == "NO_AGREEMENT" \notin privileges

apply_login(s, user) ==
    [user_id      |-> user,
     phase        |-> IF requires_agreement(LoginPrivileges) THEN "PendingAgreement" ELSE "Online",
     privileges   |-> LoginPrivileges,
     display_name |-> Username[user]]

(* apply_user_info_update with a replacement name.                         *)
apply_user_info_update(s, name) == [s EXCEPT !.display_name = name]

shows_in_user_list(s) == is_online(s) /\ "SHOW_IN_LIST" \in s.privileges

(* presence_snapshot returns a snapshot and not None.                      *)
has_presence_snapshot(s) == is_authenticated(s) /\ shows_in_user_list(s)

MutRequirePrivilege(s, privilege) ==
    IF is_authenticated(s) /\ privilege \notin s.privileges THEN 4 ELSE 0

(* require_privilege as the error code of its reply, 0 when it passes.     *)
require_privilege(s, privilege) ==
    CASE ~is_authenticated(s) -> 1
      [] is_authenticated(s) /\ privilege \notin s.privileges -> 4
      [] OTHER -> 0
==============================================================================
