------------------------------ MODULE MCCommands ------------------------------
(* TLC instance of Commands: a legacy and a wireframe connection, two      *)
(* accounts, and requests that reach every command, every parser's errors  *)
(* and every way a block can be damaged. Texts are one byte long.          *)
EXTENDS Commands

MCUsername == <<<<97>>, <<98>>>>
MCPassword == <<<<112>>, <<113>>>>

Whole(type, params) == [ty |-> TransactionType[type], params |-> params, damage |-> "none"]
Bare(type) == [ty |-> TransactionType[type], params |-> <<>>, damage |-> "empty"]
Spoilt(r, damage) == [r EXCEPT !.damage = damage]

LoginA == Whole("Login", <<<<105, <<97>>>>, <<106, <<112>>>>>>)
LoginB == Whole("Login", <<<<106, <<113>>>>, <<105, <<98>>>>>>)
SetAll == Whole("SetClientUserInfo",
                <<<<102, <<99>>>>, <<104, <<0, 7>>>>, <<113, <<0, 4>>>>, <<215, <<100>>>>>>)
Path == <<325, <<47>>>>
Post == <<Path, <<328, <<116>>>>, <<327, <<116>>>>, <<333, <<100>>>>>>

LegacyRequests ==
    {LoginA, SetAll, Spoilt(LoginA, "cut"),
     Whole("Login", <<<<105, <<97>>>>, <<106, <<113>>>>>>),                     \* wrong password
     Whole("Login", <<<<105, <<97>>>>, <<105, <<98>>>>, <<106, <<113>>>>>>),    \* repeated field
     Bare("GetUserNameList"), Whole("GetUserNameList", <<>>),
     Spoilt(Whole("GetFileNameList", <<>>), "cut"),
     Whole("NewsCategoryNameList", <<Path, <<323, <<>>>>, <<323, <<>>>>>>),
     Bare("DownloadBanner")}

WireframeRequests ==
    {LoginA, LoginB, SetAll,
     Spoilt(LoginB, "extra"), Spoilt(SetAll, "more"), Spoilt(SetAll, "fewer"),
     Whole("Login", <<<<105, <<255>>>>, <<106, <<112>>>>>>),                    \* not UTF-8
     Whole("Login", <<<<105, <<98>>>>, <<106, <<112>>>>>>),                     \* wrong password
     Whole("SetClientUserInfo", <<<<113, <<0, 8>>>>>>),                         \* an unknown option
     Whole("SetClientUserInfo", <<<<215, <<101>>>>, <<102, <<97>>>>>>),
     Whole("SetClientUserInfo", <<<<113, <<0, 0, 1, 0>>>>>>),                   \* beyond u8
     Whole("SetClientUserInfo", <<<<104, <<0, 1, 0, 0>>>>>>),                   \* beyond u16
     Whole("GetClientInfoText", <<<<103, <<0, 1>>>>>>),
     Whole("GetClientInfoText", <<<<103, <<128, 0, 0, 0>>>>>>),                 \* beyond i32
     Bare("GetUserNameList"), Bare("GetFileNameList"), Bare("NewsCategoryNameList"),
     Whole("NewsArticleNameList", <<<<300, <<>>>>, <<300, <<>>>>>>),
     Whole("NewsArticleData", <<Path, <<326, <<0, 0, 0, 1>>>>>>),
     Whole("NewsArticleData", <<Path, <<326, <<0, 1>>>>>>),                     \* too short
     Whole("PostNewsArticle", Post)}

MCRequests == <<LegacyRequests, WireframeRequests>>
==============================================================================
