CONSTANTS
  nsA = nsA
  o1 = o1
  Unset = Unset
  Namespaces = {nsA}
  Objects = {o1}
  NsOf <- MCNsOf
  Hards = {2}
  FirstHard = 1
  FirstStatus = Unset
  FirstOwned = {nsA}
  MaxMoves = 1
  MaxHardEdits = 1
  MaxErrors = 1
SPECIFICATION FairSpec
INVARIANT
  LimitsDue
PROPERTIES
  ReplacesWhatItRead
  Converges
