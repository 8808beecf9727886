SPECIFICATION MCSpec
CONSTANTS
  p1 = p1  p2 = p2  S = S  imdb = imdb  Movie = Movie  Series = Series
  find = find
  A = A  B = B  t1 = t1  t2 = t2  t3 = t3  la = la  lb = lb  h1 = h1  NoSource = NoSource
  Requests = {r1}
  Followers = {}
  Worker = Worker
  Feed <- MCFeed
  Pages <- MCTwoWorks
  MaxSubjects = 4
  None = None
  Browsers = {d1, d2}
  Queries = {find, top}
  Searches = {find}
  Works = {s1, s2}
  Recognised = {s1}
  Caps = {"search", "detail"}
  Ttl = 0
  DetailTtl = 0
  MaxNow = 1
  MaxFollows = 1
  Nothing = Nothing
INVARIANTS NoSilentMerge
