------------------------------- MODULE Commands -------------------------------
(***************************************************************************)
(* The command path both servers share (src/commands, src/login.rs, the    *)
(* session of src/handler.rs): the bytes of a request are validated,       *)
(* parsed into a command, checked against the session and answered. The    *)
(* legacy server answers through handle_request and gives the connection   *)
(* up when that fails; the wireframe router answers every failure with     *)
(* error 3. A connection works on one request at a time (its task, or the  *)
(* session's mutex), so handling a request is one step; what the database, *)
(* the registry and the news and file handlers answer is left open.        *)
(*                                                                         *)
(* The history `effects` is written as SessionGating's, which the commands *)
(* are checked to implement.                                               *)
(***************************************************************************)
EXTENDS Session, Params

LOCAL INSTANCE SequencesExt
LOCAL INSTANCE FiniteSetsExt

CONSTANTS
    Conns,
    Legacy,        \* the connections of the legacy server; the others are wireframe's
    Password,      \* the password an account's hash verifies, by user
    Requests,      \* what the client of a connection sends: [ty, params, damage]
    MaxRequests    \* bound: requests in all

VARIABLES
    sent,       \* requests sent, by connection
    handled,    \* how many of them have been handled
    open,       \* the connections not given up
    session,    \* handler::Session without the next three fields
    prefs,      \* its icon_id, connection_flags and auto_response
    listed,     \* the connections in the presence registry
    replies,    \* the replies' headers
    effects     \* history: SessionGating's effects

vars == <<sent, handled, open, session, prefs, listed, replies, effects>>

-----------------------------------------------------------------------------
(* Transaction types. As with fields, a type is its number.                *)
TransactionType ==
    [Error |-> 100, Login |-> 107, Agreement |-> 109, Agreed |-> 121, GetFileNameList |-> 200,
     DownloadBanner |-> 212, GetUserNameList |-> 300, NotifyChangeUser |-> 301,
     NotifyDeleteUser |-> 302, GetClientInfoText |-> 303, SetClientUserInfo |-> 304,
     UserAccess |-> 354, NewsCategoryNameList |-> 370, NewsArticleNameList |-> 371,
     NewsArticleData |-> 400, PostNewsArticle |-> 410]

ASSUME TypesDistinct == IsInjective(TransactionType)

TypeIn(ty, names) == \E n \in names : TransactionType[n] = ty

allows_payload(ty) == ~TypeIn(ty, {"GetFileNameList", "DownloadBanner", "GetUserNameList"})

rejects_payload(ty, payload) ==
    payload # <<>> /\ ~TypeIn(ty, {"GetFileNameList"}) /\ ~allows_payload(ty)

bypass_payload_decode(ty) == TypeIn(ty, {"GetFileNameList"}) \/ ~allows_payload(ty)

(* The payload a request puts on the wire: its parameters, or a block that *)
(* lost or gained a byte or whose count is off by one.                     *)
Payload(r) ==
    LET buf == encode_params(r.params)
    IN  CASE r.damage = "empty" -> <<>>
          [] r.damage = "none"  -> buf
          [] r.damage = "cut"   -> Front(buf)
          [] r.damage = "extra" -> Append(buf, 0)
          [] r.damage = "more"  -> to_be_bytes(Len(r.params) + 1) \o SubSeq(buf, 3, Len(buf))
          [] r.damage = "fewer" -> to_be_bytes(Len(r.params) - 1) \o SubSeq(buf, 3, Len(buf))

-----------------------------------------------------------------------------
(* parse_command.                                                          *)

(* The arguments a type's parser looks up, each a result.                  *)
Arguments(ty, ps) ==
    LET text(f) == first_param_string(ps, FieldId[f])
    IN  CASE TypeIn(ty, {"Login"}) ->
                [username |-> Required(text("Login")), password |-> Required(text("Password"))]
          [] TypeIn(ty, {"GetClientInfoText"}) ->
                [target_user_id |-> as_i32(Required(first_param_u32(ps, FieldId.UserId)))]
          [] TypeIn(ty, {"SetClientUserInfo"}) ->
                [display_name  |-> text("Name"),
                 icon_id       |-> as_u16(first_param_u32(ps, FieldId.IconId)),
                 options       |-> as_u8(first_param_u32(ps, FieldId.Options)),
                 auto_response |-> text("AutoResponse")]
          [] TypeIn(ty, {"NewsCategoryNameList"}) -> [path |-> text("NewsPath")]
          [] TypeIn(ty, {"NewsArticleNameList"}) -> [path |-> Required(text("NewsPath"))]
          [] TypeIn(ty, {"NewsArticleData"}) ->
                [path       |-> Required(text("NewsPath")),
                 article_id |-> Required(first_param_i32(ps, FieldId.NewsArticleId))]
          [] TypeIn(ty, {"PostNewsArticle"}) ->
                [path        |-> Required(text("NewsPath")),
                 title       |-> Required(text("NewsTitle")),
                 flags       |-> first_param_i32(ps, FieldId.NewsArticleFlags),
                 data_flavor |-> Required(text("NewsDataFlavor")),
                 data        |-> Required(text("NewsArticleData"))]

Decoded == {"Login", "GetClientInfoText", "SetClientUserInfo", "NewsCategoryNameList",
            "NewsArticleNameList", "NewsArticleData", "PostNewsArticle"}

Command(name, args) == [name |-> name, args |-> args]

(* A command by name, or "Err" for a request that does not parse; decoded  *)
(* is decode_params(payload), where a parser starts.                       *)
parse_command(ty, payload, decoded) ==
    LET args == Arguments(ty, decoded.value)
        name == CHOOSE n \in DOMAIN TransactionType : TransactionType[n] = ty
    IN  CASE rejects_payload(ty, payload) -> Command("InvalidPayload", <<>>)
          [] TypeIn(ty, Decoded) ->
                IF decoded.is = "error" \/ \E a \in DOMAIN args : args[a].is = "error"
                THEN Command("Err", <<>>)
                ELSE Command(name, args)
          [] TypeIn(ty, {"GetUserNameList", "GetFileNameList"}) /\ ~rejects_payload(ty, payload) ->
                Command(name, <<>>)
          [] OTHER -> Command("Unknown", <<>>)

(* parse_transaction and from_transaction on a request's frame.            *)
CommandOf(r, payload, decoded) ==
    IF validate_payload(bypass_payload_decode(r.ty), payload)
    THEN parse_command(r.ty, payload, decoded)
    ELSE Command("Err", <<>>)

(* The requests with the bytes they are sent as, then with what these are  *)
(* decoded to, then with the command that is parsed: three tables of pure  *)
(* results, so that each is computed once.                                 *)
Framed == {<<r, Payload(r)>> : r \in UNION {Requests[c] : c \in Conns}}

FrameDecoded == {<<f[1], f[2], decode_params(f[2])>> : f \in Framed}

Traffic ==
    {[ty |-> f[1].ty, params |-> f[1].params, damage |-> f[1].damage, payload |-> f[2],
      decoded |-> f[3], command |-> CommandOf(f[1], f[2], f[3])] : f \in FrameDecoded}

-----------------------------------------------------------------------------
(* The checks commands make before they act, as error codes.               *)

RequiredPrivilege ==
    [GetFileNameList |-> "DOWNLOAD_FILE", GetClientInfoText |-> "GET_CLIENT_INFO",
     NewsCategoryNameList |-> "NEWS_READ_ARTICLE", NewsArticleNameList |-> "NEWS_READ_ARTICLE",
     NewsArticleData |-> "NEWS_READ_ARTICLE", PostNewsArticle |-> "NEWS_POST_ARTICLE"]

Gated == DOMAIN RequiredPrivilege \cup {"GetUserNameList", "SetClientUserInfo"}

MutGate(s, name) ==
    CASE name \in {"GetUserNameList", "SetClientUserInfo"} -> 0
      [] OTHER -> require_privilege(s, RequiredPrivilege[name])

Gate(s, name) ==
    CASE name = "GetUserNameList" -> IF is_online(s) THEN 0 ELSE 1
      [] name = "SetClientUserInfo" -> IF is_authenticated(s) THEN 0 ELSE 1
      [] OTHER -> require_privilege(s, RequiredPrivilege[name])

(* process returned Err: no reply of the command's own.                    *)
Fails == -1

(* What the handlers behind the check may answer. Lists return a failure,  *)
(* client info also finds no such user, and news turns its failures into   *)
(* replies: an unknown path and, for an article's data, no such article.   *)
ListAnswers == {0, Fails}

InfoAnswers == {0, 3, Fails}

NewsAnswers(name) == {0, 3, 5} \cup (IF name = "NewsArticleData" THEN {6} ELSE {})

Answers(name) ==
    CASE name \in {"GetUserNameList", "GetFileNameList"} -> ListAnswers
      [] name = "GetClientInfoText" -> InfoAnswers
      [] OTHER -> NewsAnswers(name)

-----------------------------------------------------------------------------
(* Preferences: apply_login resets them, apply_user_info_update edits them.*)

DefaultPrefs == [icon_id |-> 0, connection_flags |-> 0, auto_response |-> Nothing]

has_auto_response(flags) == (flags \div 4) % 2 = 1

(* Options keeps the three known bits (from_bits_truncate).                *)
FlagsAfter(p, update) ==
    IF update.options.is = "ok" THEN update.options.value % 8 ELSE p.connection_flags

UpdatedPrefs(p, update) ==
    [icon_id          |-> IF update.icon_id.is = "ok" THEN update.icon_id.value ELSE p.icon_id,
     connection_flags |-> FlagsAfter(p, update),
     auto_response    |-> CASE ~has_auto_response(FlagsAfter(p, update)) -> Nothing
                            [] has_auto_response(FlagsAfter(p, update))
                               /\ update.auto_response.is = "ok" -> update.auto_response
                            [] OTHER -> p.auto_response]

UpdatedSession(s, update) ==
    IF update.display_name.is = "ok"
    THEN apply_user_info_update(s, update.display_name.value)
    ELSE s

(* get_user_by_name and verify_password.                                   *)
Verified(args) ==
    {u \in Users : Username[u] = args.username.value /\ Password[u] = args.password.value}

-----------------------------------------------------------------------------
(* SessionGating seen through the commands. The checks put the server's    *)
(* commands in the classes of the model's requests.                        *)

RequestClass ==
    [GetUserNameList |-> "GetUserInfo", SetClientUserInfo |-> "GetUserInfo",
     GetFileNameList |-> "GetFileList", GetClientInfoText |-> "GetClientInfo",
     NewsCategoryNameList |-> "GetNewsCategories", NewsArticleNameList |-> "GetNewsCategories",
     NewsArticleData |-> "GetNewsCategories", PostNewsArticle |-> "PostNewsArticle"]

(* The gated commands among requests not yet handled.                      *)
GatedQueue(requests) ==
    FoldLeft(LAMBDA q, r : IF r.command.name \in Gated
                           THEN Append(q, RequestClass[r.command.name]) ELSE q,
             <<>>, requests)

Waiting(c) == SubSeq(sent[c], handled[c] + 1, Len(sent[c]))

SG == INSTANCE SessionGating WITH
    Clients <- Conns, UserIds <- Users, PrivilegeSets <- {LoginPrivileges},
    MaxQueueDepth <- MaxRequests,
    sessions <- [c \in Conns |-> [user_id |-> session[c].user_id, privileges |-> session[c].privileges]],
    queues <- [c \in Conns |-> GatedQueue(Waiting(c))]

(* The crate's copy of the default privileges agrees with the server's.    *)
ASSUME PrivilegesInSync == SG!DEFAULT_USER_PRIVILEGES = default_user

(* What a check that ended with `code` adds to the history. An operation   *)
(* counts once its check has passed, whether or not the database is there. *)
EffectOf(c, name, code) ==
    CASE code = 1 -> SG!Answered("RejectedUnauthenticated", c, RequestClass[name])
      [] code = 4 -> SG!Answered("RejectedInsufficientPrivilege", c, RequestClass[name])
      [] code = 0 /\ name \in DOMAIN RequiredPrivilege ->
            [kind |-> "PrivilegedEffectCompleted", client |-> c, request |-> RequestClass[name],
             privilege |-> {RequiredPrivilege[name]}, session_privileges |-> session[c].privileges]
      [] OTHER -> SG!Answered("UnprivilegedEffectCompleted", c, RequestClass[name])

-----------------------------------------------------------------------------
Init ==
    /\ sent = [c \in Conns |-> <<>>]
    /\ handled = [c \in Conns |-> 0]
    /\ open = Conns
    /\ session = [c \in Conns |-> DefaultSession]
    /\ prefs = [c \in Conns |-> DefaultPrefs]
    /\ listed = {}
    /\ replies = [c \in Conns |-> <<>>]
    /\ effects = <<>>

Send(c, r) ==
    /\ c \in open
    /\ [ty |-> r.ty, params |-> r.params, damage |-> r.damage] \in Requests[c]
    /\ MapThenSumSet(LAMBDA d : Len(sent[d]), Conns) < MaxRequests
    /\ sent' = [sent EXCEPT ![c] = Append(@, r)]
    /\ UNCHANGED <<handled, open, session, prefs, listed, replies, effects>>

(* The next request of c is a command in names.                            *)
NextCommand(c) == sent[c][handled[c] + 1].command

Takes(c, names) ==
    /\ c \in open
    /\ handled[c] < Len(sent[c])
    /\ NextCommand(c).name \in names
    /\ handled' = [handled EXCEPT ![c] = @ + 1]
    /\ UNCHANGED sent

(* The end of handle_request, and of the router's route.                   *)
Answer(c, code) ==
    IF code = Fails /\ c \in Legacy
    THEN open' = open \ {c} /\ UNCHANGED replies
    ELSE /\ replies' = [replies EXCEPT ![c] = Append(@, IF code = Fails THEN 3 ELSE code)]
         /\ UNCHANGED open

(* The tail of login and 304: publish session s in the registry. That only *)
(* fails for a newcomer (no free id), and then after s has been stored.    *)
Publish(c, s, code) ==
    \/ /\ Answer(c, code)
       /\ listed' = IF has_presence_snapshot(s) THEN listed \cup {c} ELSE listed
    \/ /\ has_presence_snapshot(s)
       /\ c \notin listed
       /\ Answer(c, Fails)
       /\ UNCHANGED listed

(* The request does not validate or does not parse, or the database is out *)
(* of reach when a login needs it.                                         *)
HandleFails(c) ==
    /\ Takes(c, {"Err", "Login"})
    /\ Answer(c, Fails)
    /\ UNCHANGED <<session, prefs, listed, effects>>

(* A login, also of a session that is logged in already.                   *)
MutHandleLogin(c) ==
    /\ Takes(c, {"Login"})
    /\ \E u \in {v \in Users : Username[v] = NextCommand(c).args.username.value} :
          /\ session' = [session EXCEPT ![c] = apply_login(session[c], u)]
          /\ prefs' = [prefs EXCEPT ![c] = DefaultPrefs]
          /\ effects' = Append(effects, SG!Authenticated(c, u))
          /\ Publish(c, session'[c], IF u \in Verified(NextCommand(c).args) THEN 0 ELSE 1)

HandleLogin(c) ==
    /\ Takes(c, {"Login"})
    /\ \E u \in Verified(NextCommand(c).args) :
          /\ session' = [session EXCEPT ![c] = apply_login(session[c], u)]
          /\ prefs' = [prefs EXCEPT ![c] = DefaultPrefs]
          /\ effects' = Append(effects, SG!Authenticated(c, u))
          /\ Publish(c, session'[c], 0)

DenyLogin(c) ==
    /\ Takes(c, {"Login"})
    /\ Verified(NextCommand(c).args) = {}
    /\ Publish(c, session[c], 1)
    /\ UNCHANGED <<session, prefs, effects>>

SetClientUserInfo(c) ==
    /\ Takes(c, {"SetClientUserInfo"})
    /\ Gate(session[c], "SetClientUserInfo") = 0
    /\ session' = [session EXCEPT ![c] = UpdatedSession(@, NextCommand(c).args)]
    /\ prefs' = [prefs EXCEPT ![c] = UpdatedPrefs(@, NextCommand(c).args)]
    /\ effects' = Append(effects, EffectOf(c, "SetClientUserInfo", 0))
    /\ Publish(c, session'[c], 0)

(* The other gated commands, and 304 when its check fails.                 *)
HandleGated(c) ==
    /\ Takes(c, Gated)
    /\ LET name == NextCommand(c).name
           code == Gate(session[c], name)
       IN  /\ code # 0 \/ name # "SetClientUserInfo"
           /\ effects' = Append(effects, EffectOf(c, name, code))
           /\ \E answer \in IF code = 0 THEN Answers(name) ELSE {code} : Answer(c, answer)
    /\ UNCHANGED <<session, prefs, listed>>

(* process_invalid_payload and process_unknown check nothing.              *)
HandleOther(c) ==
    /\ Takes(c, {"InvalidPayload", "Unknown"})
    /\ Answer(c, IF NextCommand(c).name = "InvalidPayload" THEN 2 ELSE 3)
    /\ UNCHANGED <<session, prefs, listed, effects>>

Next ==
    \E c \in Conns :
        \/ \E r \in Traffic : Send(c, r)
        \/ HandleFails(c)
        \/ HandleLogin(c)
        \/ DenyLogin(c)
        \/ SetClientUserInfo(c)
        \/ HandleGated(c)
        \/ HandleOther(c)

Spec == Init /\ [][Next]_vars
-----------------------------------------------------------------------------
(* The commands gate requests as the verification crate's session model    *)
(* does: every step of the command path is a step of that model (with      *)
(* logins of logged-in sessions allowed) or does not concern it, so what   *)
(* is proved of the model holds of check_privilege_and_run and its kin.    *)
GatesLikeSessionModel == SG!ServerSpec

(* On the server too, no privileged operation runs for a connection that   *)
(* is not logged in at that moment, or without the privilege.              *)
PrivilegedOnlyWhileLoggedIn == SG!PrivilegedOnlyWhileLoggedIn

(* What the client meant by a field, without decoding anything.            *)
Meant(r, field) == {r.params[i][2] : i \in {j \in DOMAIN r.params : r.params[j][1] = FieldId[field]}}

(* The requests of a type that were answered with success.                 *)
Done(c, type) ==
    {i \in DOMAIN replies[c] : replies[c][i] = 0 /\ sent[c][i].ty = TransactionType[type]}

(* The requests that store before they publish, answered with error 3.     *)
HalfDone(c) ==
    {i \in DOMAIN replies[c] :
        replies[c][i] = 3 /\ TypeIn(sent[c][i].ty, {"Login", "SetClientUserInfo"})}

(* A client can tell who it is from its own requests and their replies:    *)
(* the account of its last successful login, under the last name it set    *)
(* since. A refused login, a malformed request or a refused 304 in between *)
(* changes nothing. (Only error 3 leaves it in doubt: login and 304 store  *)
(* the session before they publish it, and publishing may fail.)           *)
RepliesTellSession ==
    \A c \in open : HalfDone(c) = {} =>
        LET logins == Done(c, "Login")
            login == Max(logins)
            renames == {i \in Done(c, "SetClientUserInfo") :
                           i > login /\ Meant(sent[c][i], "Name") # {}}
        IN  IF logins = {}
            THEN session[c] = DefaultSession /\ prefs[c] = DefaultPrefs
            ELSE /\ Meant(sent[c][login], "Login") = {Username[session[c].user_id]}
                 /\ {session[c].display_name} =
                       IF renames = {} THEN Meant(sent[c][login], "Login")
                       ELSE Meant(sent[c][Max(renames)], "Name")

(* encode_params and decode_params are inverse on every list the decoder   *)
(* admits (a field it does not let repeat must not), a damaged block is    *)
(* never read as some other list, and a payload that validates decodes.    *)
PayloadsDecodeAsSent ==
    \A c \in {d \in Conns : handled[d] < Len(sent[d])} :
        LET r == Last(sent[c])
            repeats == \E i, j \in DOMAIN r.params :
                          i < j /\ r.params[i][1] = r.params[j][1]
                          /\ r.params[i][1] \notin {200, 300, 321, 323}
        IN  /\ r.decoded = CASE r.damage = "empty" -> Ok(<<>>)
                             [] r.damage = "none" /\ ~repeats -> Ok(r.params)
                             [] OTHER -> Error
            /\ validate_payload(FALSE, r.payload) => r.decoded.is = "ok"
=============================================================================
