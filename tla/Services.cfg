\* Two commands of the forward and of the phone; two shells; one owner and two requests; two
\* threads; two link workers with one converter, a second converter of their process, one of
\* another; three reporters; a link with two filters.
SPECIFICATION Spec
CONSTANTS
  Commands = {c1, c2}
  Pids = {q1, q2}
  Ports = {8888, 8889}
  None = None
  MaxFaults = 2
  Workers = {w1, w2}
  Followers = {f1}
  NoFollower = NoFollower
  FixScript = TRUE
  MaxKills = 1
  Shells = {s1, s2}
  MachinePids = {m1, m2}
  StopOrder <- MCStopOrder
  StartOrder <- MCStartOrder
  NoPid = NoPid
  MaxCuts = 1
  Requests = {r1, r2}
  Owners = {o1}
  Urls = {x}
  Filters = {f1, f2}
  WebAdmin = WebAdmin
  MaxId = 2
  MaxRevision = 1
  Threads = {th1, th2}
  Names = {n1}
  Tokens = {k1}
  Admin = Admin
  Passwords = {pw}
  Limit = 2
  MaxMade = 2
  t1 = t1
  t2 = t2
  t3 = t3
  t4 = t4
  v1 = v1
  v2 = v2
  v3 = v3
  p1 = p1
  p2 = p2
  Callers = {t1, t2, t3, t4}
  Converters = {v1, v2, v3}
  Processes = {p1, p2}
  LinkUrls = {x}
  ConverterOf <- MCConverterOf
  ProcessOf <- MCProcessOf
  Nobody = Nobody
  Reporters = {d1, d2, d3}
  Errors = {e1, e2}
  NoError = NoError
  MaxFailures = 5
  SearchUrls = {x}
  Options = {price, date}
  Unwritable = {date}
  Settings = {d, s}
  Default = d
  Missing = Missing
  MaxEdits = 1
INVARIANTS
  ForwardKept
  RotationWhole
  OneOfEach
  RefusedByFailures
  SameRevisionSameLink
  EndedStaysEnded
  RequestJustified
  FailuresAccounted
  FiltersSurvive
PROPERTIES
  StrangersSafe
  StopClears
CHECK_DEADLOCK FALSE
