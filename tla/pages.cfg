CONSTANTS
  Row <- MCRow
  Alike <- MCAlike
  PerPage = 1
  None = None
  UserKind <- MCUserKind
  MaxMoves <- MCMoves
  MaxChanges = 1
  Pref = {"colorMode"}
  MaxProfileMoves = 6
  MaxPosts = 2
  MaxOthers = 1
SPECIFICATION PagesSpec
INVARIANTS ShownAsAsked RefusedOnlyWhenStale QrIsTheirs DeliversOnce PrefsSaved RunsWhatIsAsked ProvenFirst
CHECK_DEADLOCK FALSE
