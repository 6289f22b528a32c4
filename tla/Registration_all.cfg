\* Two races, one team, two people, two requests at once.
SPECIFICATION Spec
CONSTANTS
  a1 = a1  a2 = a2  t1 = t1  p1 = p1  p2 = p2  q1 = q1  q2 = q2
  Races <- MCRaces
  Teams <- MCOneTeam
  People <- MCTwoPeople
  Requests <- MCRequests
  RaceFormats <- MCTwoFormats
  MaxLeg = 0
  NoRace = NoRace
  NoTeam = NoTeam
  NoPerson = NoPerson
  Keep = Keep
SYMMETRY MCSymmetry
INVARIANT TeamOfSameRace
PROPERTY DetachedStayRegistered
CHECK_DEADLOCK FALSE
