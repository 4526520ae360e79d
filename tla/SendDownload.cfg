CONSTANTS NamaSeries = {n}  ZarSeries = {z}  ZarMovies = {f}  Releases = {a, b}  Premium = {a}
          Users = {anna}  Requests = {r, q}  Limit = 2  Announced = 2  None = none  MaxTurns = 1
SPECIFICATION Spec
INVARIANT QuotaHolds
INVARIANT SentAsPicked
INVARIANT MarkIsTrue
CHECK_DEADLOCK FALSE

SYMMETRY RequestSymmetry
