SPECIFICATION NewsSpec
CONSTANTS
  a = a
  b = b
  p1 = p1
  p2 = p2
  Names <- MCNames
  Posters <- MCPosters
  MaxDepth = 3
  MaxRows = 5
  MaxClock = 1
INVARIANTS
  
  LinksLead
  SqliteKeepsOneList
  AnsweredPostsListed
PROPERTIES
  ArticlesKeepTheirPlace
  PostsEnd
CHECK_DEADLOCK FALSE
