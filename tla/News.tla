------------------------------- MODULE News --------------------------------
(***************************************************************************)
(* The news catalogue (bundles and categories, found by slash-separated    *)
(* paths) and the root articles of each category, a doubly linked list     *)
(* that posting extends in one database transaction of several statements. *)
(*                                                                         *)
(* Posts of different connections interleave between the statements.  What *)
(* that allows is the database's isolation, which is external and differs: *)
(*  - "sqlite": a transaction whose reads another commit has overtaken     *)
(*    cannot write, nor can one while another has written: its statement   *)
(*    fails as busy, and the post with it;                                 *)
(*  - "postgres": read committed.  Each statement sees what is committed   *)
(*    by then, ids come from a sequence that never goes back, and an       *)
(*    UPDATE waits for the transaction that holds the row.                 *)
(*                                                                         *)
(* Rows are numbered as the tables number them; 0 stands for NULL.         *)
(***************************************************************************)
EXTENDS Integers, Sequences, FiniteSets, FiniteSetsExt

CONSTANTS
  Names,         \* the names of bundles and categories, the path segments
  Posters,       \* connections that post
  MaxDepth,      \* bound: segments of a path
  MaxRows,       \* bound: rows of the three tables and open posts, together
  MaxClock       \* bound: distinct times of posting

ASSUME NewsAssumption == MaxDepth \in Nat /\ MaxRows \in Nat /\ MaxClock \in Nat

VARIABLES
  backend,       \* the database the server was built for
  bundles,       \* news_bundles: id -> [name, parent]
  categories,    \* news_categories: id -> [name, bundle]
  articles,      \* committed news_articles: id -> row
  next_id,       \* the id the next insert takes
  clock,         \* Utc::now, which does not go back
  post,          \* each poster's open transaction
  acked          \* ids a post was answered with

newsVars == <<backend, bundles, categories, articles, next_id, clock, post,
              acked>>

NULL == 0

Invalid == -1  \* PathLookupError::InvalidPath

NEWS_ERR_PATH_UNSUPPORTED == 5

Paths == UNION {[1..n -> Names] : n \in 0..MaxDepth}

----------------------------------------------------------------------------
\* Paths.  prepare_path trims the slashes at both ends and splits the rest: a
\* path is the sequence of its segments, and an empty one is "no path".

Children(parent, name) ==
  {b \in DOMAIN bundles : bundles[b].name = name /\ bundles[b].parent = parent}

\* The recursive step joins the next segment to the bundles below the current
\* row; a LEFT JOIN keeps the row, with a NULL id, where there is none.
Joined(id, segment, left) ==
  IF left /\ Children(id, segment) = {} THEN {NULL} ELSE Children(id, segment)

\* The rows of the recursive query by idx, from the seed (0, NULL).
tree(path, left) ==
  LET row[n \in 0..Len(path)] ==
        IF n = 0 THEN {NULL} ELSE UNION {Joined(id, path[n], left) : id \in row[n - 1]}
  IN  row

First(ids) == IF ids = {} THEN Invalid ELSE Min(ids)

bundle_id_from_path(path) ==
  IF path = <<>> THEN NULL ELSE First(tree(path, FALSE)[Len(path)])

MutCategoryIdFromPath(path) ==
  IF path = <<>> THEN Invalid
  ELSE First({c \in DOMAIN categories :
                /\ categories[c].name = path[Len(path)]
                /\ categories[c].bundle \in tree(path, TRUE)[Len(path)]})

category_id_from_path(path) ==
  IF path = <<>> THEN Invalid
  ELSE First({c \in DOMAIN categories :
                /\ categories[c].name = path[Len(path)]
                /\ categories[c].bundle \in tree(path, TRUE)[Len(path) - 1]})

\* list_names_at_path, which has first the bundles and then the categories.
BundleNames(parent) ==
  {bundles[b].name : b \in {x \in DOMAIN bundles : bundles[x].parent = parent}}

CategoryNames(parent) ==
  {categories[c].name :
     c \in {x \in DOMAIN categories : categories[x].bundle = parent}}

Rows ==
  Len(bundles) + Len(categories) + next_id - 1
    + Cardinality({p \in Posters :
                     post[p].at # "idle" /\ post[p].id \in {NULL, next_id}})

Writing == {p \in Posters : post[p].at \in {"inserted", "linked"}}

\* SQLite: a commit overtakes the reads of every other open transaction.
Overtake(posts) ==
  [p \in Posters |->
     [posts[p] EXCEPT !.stale = backend = "sqlite" /\ posts[p].at # "idle"]]

\* The columns that are read back; guid, serial numbers and dates are not.
NewBundle(name, parent) == [name |-> name, parent |-> parent]

NewCategory(name, bundle) == [name |-> name, bundle |-> bundle]

\* The unique indexes refuse a second row of the same name and parent.  Only
\* set-up code and fixtures call these two; each is a statement of its own.
create_bundle(name, parent) ==
  /\ Rows < MaxRows
  /\ backend = "sqlite" => Writing = {}
  /\ Children(parent, name) = {}
  /\ bundles' = Append(bundles, NewBundle(name, parent))
  /\ post' = Overtake(post)
  /\ UNCHANGED <<backend, categories, articles, next_id, clock, acked>>

create_category(name, bundle) ==
  /\ Rows < MaxRows
  /\ backend = "sqlite" => Writing = {}
  /\ name \notin CategoryNames(bundle)
  /\ categories' = Append(categories, NewCategory(name, bundle))
  /\ post' = Overtake(post)
  /\ UNCHANGED <<backend, bundles, articles, next_id, clock, acked>>

----------------------------------------------------------------------------
\* Reading

RootArticles(cat) == {a \in DOMAIN articles : articles[a].category = cat}

get_article(path, id) ==
  IF category_id_from_path(path) # Invalid
     /\ id \in RootArticles(category_id_from_path(path))
  THEN {articles[id]} ELSE {}

\* What the reply tells of an article: its date and links, if it has them.
article_to_params(row) ==
  [date |-> row.posted_at, prev |-> row.prev, next |-> row.next]

handle_article_data(path, id) ==
  {article_to_params(row) : row \in get_article(path, id)}

\* list_article_titles: the articles it lists; it sorts them by posted_at.
list_article_titles(path) == RootArticles(category_id_from_path(path))

\* The reply to a list request: an error, or what `fetch` returned.
handle_list(id, fetched) ==
  [error |-> IF id = Invalid THEN NEWS_ERR_PATH_UNSUPPORTED ELSE 0,
   listed |-> IF id = Invalid THEN {} ELSE fetched]

handle_category_list(path) ==
  LET id == bundle_id_from_path(path)
  IN  handle_list(id, BundleNames(id) \cup CategoryNames(id))

handle_article_titles(path) ==
  handle_list(category_id_from_path(path), list_article_titles(path))

----------------------------------------------------------------------------
\* Posting: the statements of create_root_article

NoPost == [at |-> "idle", category |-> NULL, last |-> NULL, id |-> NULL,
           posted_at |-> 0, stale |-> FALSE]

NewsInit ==
  /\ backend \in {"sqlite", "postgres"}
  /\ bundles = <<>>
  /\ categories = <<>>
  /\ articles = <<>>
  /\ next_id = 1
  /\ clock = 0
  /\ post = [p \in Posters |-> NoPost]
  /\ acked = {}

\* process_post_article with the privilege and a path that resolves.  Without
\* either, the post is answered at once and nothing changes.
process_post_article(p, path) ==
  /\ post[p].at = "idle"
  /\ category_id_from_path(path) # Invalid
  /\ Rows < MaxRows
  /\ post' = [post EXCEPT ![p] =
                [NoPost EXCEPT !.at = "located",
                               !.category = category_id_from_path(path)]]
  /\ UNCHANGED <<backend, bundles, categories, articles, next_id, clock, acked>>

MutLastRootArticle(cat) == Max(DOMAIN articles \cup {NULL})

\* The committed root article with the greatest id, if any.
LastRootArticle(cat) == Max(RootArticles(cat) \cup {NULL})

get_last_root_article_id(p) ==
  /\ post[p].at = "located"
  /\ post' = [post EXCEPT ![p].at = "read",
                          ![p].last = LastRootArticle(post[p].category)]
  /\ UNCHANGED <<backend, bundles, categories, articles, next_id, clock, acked>>

MutMayWrite(p) == TRUE

\* SQLite's write lock; Postgres inserts without waiting.
MayWrite(p) ==
  backend = "sqlite" => ~post[p].stale /\ Writing = {}

\* The row is seen by others only once committed.  Its id is taken from the
\* Postgres sequence for good; SQLite counts it on commit.
insert_new_article(p) ==
  /\ post[p].at = "read"
  /\ MayWrite(p)
  /\ clock' \in clock..MaxClock
  /\ post' = [post EXCEPT ![p].at = IF post[p].last = NULL THEN "linked"
                                    ELSE "inserted",
                          ![p].id = next_id,
                          ![p].posted_at = clock']
  /\ next_id' = IF backend = "postgres" THEN next_id + 1 ELSE next_id
  /\ UNCHANGED <<backend, bundles, categories, articles, acked>>

\* Holders of the row lock an UPDATE of article a needs.
Holders(a) == {q \in Posters : post[q].at = "linked" /\ post[q].last = a}

MutLinkPrevToNew(p) ==
  /\ post[p].at = "inserted"
  /\ \A q \in Writing \ {p} : post[q].last # post[p].last
  /\ post' = [post EXCEPT ![p].at = "linked"]
  /\ UNCHANGED <<backend, bundles, categories, articles, next_id, clock, acked>>

link_prev_to_new(p) ==
  /\ post[p].at = "inserted"
  /\ Holders(post[p].last) = {}
  /\ post' = [post EXCEPT ![p].at = "linked"]
  /\ UNCHANGED <<backend, bundles, categories, articles, next_id, clock, acked>>

\* What the transaction writes: its row, and the next link of the last one.
NewRow(p) ==
  [category |-> post[p].category, prev |-> post[p].last, next |-> NULL,
   posted_at |-> post[p].posted_at]

MutWritten(p) ==
  [a \in DOMAIN articles \cup {post[p].id} |->
     IF a = post[p].id THEN NewRow(p)
     ELSE IF a = post[p].last THEN [articles[a] EXCEPT !.prev = post[p].id]
     ELSE articles[a]]

Written(p) ==
  [a \in DOMAIN articles \cup {post[p].id} |->
     IF a = post[p].id THEN NewRow(p)
     ELSE IF a = post[p].last THEN [articles[a] EXCEPT !.next = post[p].id]
     ELSE articles[a]]

\* The commit, answered with the id; a Postgres connection lost while it
\* commits answers with an internal error all the same.
Commit(p, answered) ==
  /\ post[p].at = "linked"
  /\ answered \/ backend = "postgres"
  /\ articles' = Written(p)
  /\ next_id' = IF backend = "postgres" THEN next_id ELSE post[p].id + 1
  /\ acked' = IF answered THEN acked \cup {post[p].id} ELSE acked
  /\ post' = [Overtake(post) EXCEPT ![p] = NoPost]
  /\ UNCHANGED <<backend, bundles, categories, clock>>

MutRollback(p) ==
  /\ post' = [post EXCEPT ![p] = NoPost]
  /\ acked' = IF post[p].id = NULL THEN acked ELSE acked \cup {post[p].id}
  /\ UNCHANGED <<backend, bundles, categories, articles, next_id, clock>>

\* The transaction is rolled back and the post answered with an error.
Rollback(p) ==
  /\ post' = [post EXCEPT ![p] = NoPost]
  /\ UNCHANGED <<backend, bundles, categories, articles, next_id, clock, acked>>

\* The insert of a transaction that may not write: it fails as busy.
Busy(p) == post[p].at = "read" /\ ~MayWrite(p) /\ Rollback(p)

\* Any statement may fail for a reason of its own.
Fail(p) == post[p].at # "idle" /\ Rollback(p)

\* The next statement of an open post.
Step(p) ==
  \/ get_last_root_article_id(p)
  \/ insert_new_article(p)
  \/ Busy(p)
  \/ link_prev_to_new(p)
  \/ \E answered \in BOOLEAN : Commit(p, answered)

NewsNext ==
  \/ \E name \in Names, parent \in {NULL} \cup DOMAIN bundles :
       create_bundle(name, parent) \/ create_category(name, parent)
  \/ \E p \in Posters :
       \/ \E path \in Paths : process_post_article(p, path)
       \/ Step(p)
       \/ Fail(p)

\* The database executes the statements it is sent; whether one fails is not
\* up to the server, so nothing is assumed of Fail.
NewsFairness == \A p \in Posters : WF_newsVars(Step(p))

NewsSpec == NewsInit /\ [][NewsNext]_newsVars /\ NewsFairness

----------------------------------------------------------------------------
\* Properties

\* The reference for paths: the names on the way from the root.
BundlePath ==
  LET walk[b \in 0..Len(bundles)] ==
        IF b = NULL THEN <<>>
        ELSE Append(walk[bundles[b].parent], bundles[b].name)
  IN  walk

CategoryPath(c) == Append(BundlePath[categories[c].bundle], categories[c].name)

\* The recursive queries of news_path.rs against that reference.  A bundle is
\* found by exactly its path.  A category is found by its path, and by another
\* only if that one continues, after a prefix that is the path of no bundle,
\* with the category's own (the LEFT JOIN falls back to the root).  Whatever
\* name a category list shows at a path can be opened there.
PathsResolve ==
  /\ \A path \in Paths, b \in 0..Len(bundles) :
       bundle_id_from_path(path) = b <=> BundlePath[b] = path
  /\ \A c \in DOMAIN categories : category_id_from_path(CategoryPath(c)) = c
  /\ \A path \in Paths :
       LET c == category_id_from_path(path) IN
       c # Invalid /\ path # CategoryPath(c) =>
         \E k \in 1..(Len(path) - 1) :
           /\ SubSeq(path, k + 1, Len(path)) = CategoryPath(c)
           /\ bundle_id_from_path(SubSeq(path, 1, k)) = Invalid
  /\ \A path \in Paths : \A n \in handle_category_list(path).listed :
       \/ bundle_id_from_path(Append(path, n)) # Invalid
       \/ category_id_from_path(Append(path, n)) # Invalid

\* A client that follows the links of the articles it is shown never leaves
\* the category nor meets a missing article, whatever posts interleave on
\* either database: prev goes to an older article, posted no later, that has
\* a successor, and next leads to an article that names this one as its prev.
LinksLead ==
  \A a \in DOMAIN articles :
    LET path == CategoryPath(articles[a].category) IN
    \A shown \in handle_article_data(path, a) :
      /\ shown.prev # NULL =>
           /\ shown.prev < a
           /\ \E r \in handle_article_data(path, shown.prev) :
                r.date <= shown.date /\ r.next # NULL
      /\ shown.next # NULL =>
           \E r \in handle_article_data(path, shown.next) : r.prev = a

\* The links of a category's root articles are one list of all of them, in
\* the order of their ids.
OneList ==
  \A a \in DOMAIN articles :
    LET siblings == RootArticles(articles[a].category)
        older == {b \in siblings : b < a}
        newer == {b \in siblings : b > a}
    IN
    /\ articles[a].prev = Max(older \cup {NULL})
    /\ articles[a].next = IF newer = {} THEN NULL ELSE Min(newer)

\* On SQLite the posts of concurrent connections keep one list per category:
\* of two that read the same last article, the later to write fails as busy.
SqliteKeepsOneList == backend = "sqlite" => OneList

\* A post answered with its id is listed under its category's path from then
\* on, although a post that failed may have been committed as well.
AnsweredPostsListed ==
  \A id \in acked :
    /\ id \in DOMAIN articles
    /\ id \in handle_article_titles(CategoryPath(articles[id].category)).listed

\* A committed article keeps its place: only its next link changes, on SQLite
\* only from none to the successor, and never back to none.
ArticlesKeepTheirPlace ==
  [][\A a \in DOMAIN articles :
       /\ a \in DOMAIN articles'
       /\ articles'[a] = [articles[a] EXCEPT !.next = articles'[a].next]
       /\ \/ articles'[a].next = articles[a].next
          \/ articles[a].next = NULL
          \/ backend = "postgres" /\ articles'[a].next # NULL]_newsVars

\* Every post ends: no order of reads, write locks and row locks leaves
\* connections waiting for each other.
PostsEnd == \A p \in Posters : post[p].at # "idle" ~> post[p].at = "idle"
============================================================================
