\* One race of any format, two teams, three people and two legs, one request at a time;
\* files of up to two rows against up to three participants of a relay and a loop race.
SPECIFICATION AllSpec
CONSTANTS
  a1 = a1  a2 = a2  a3 = a3  b1 = b1  b2 = b2  f1 = f1  f2 = f2
  Races <- MCRaces
  Teams <- Bs
  People <- As
  Requests <- MCOneRequest
  RaceFormats <- MCFormats
  MaxLeg = 2
  NoRace = NoRace
  NoTeam = NoTeam
  NoPerson = NoPerson
  Keep = Keep
  FileRaces <- MCFileRaces
  FileFormat <- MCFileFormat
  TeamNames <- MCTeamNames
  Bibs <- As
  Refs <- MCRefs
  NoRef = NoRef
  InputRows <- MCInputRows
  MaxRows = 2
  MaxPeople = 3
  Runners <- As
  RunnerTeams <- B
  MaxBib = 3
  Cells <- MCCells
  Layouts <- MCLayouts
  PeoplePerFile = 2
  MaxChosen = 3
  None = None
SYMMETRY MCSymmetry
INVARIANTS RulesKept BibsAndRefsNeverClash SecondImportChangesNothing CleanImportKeepsOrder
  PrintIsRight
CHECK_DEADLOCK FALSE
