\* Two places that each fit one activity, two plans, one intervention or crash.
SPECIFICATION FairSpec
CONSTANTS
  Places = {"home", "cafe"}
  Home = "home"
  Activities = {"gaming", "coffee"}
  Fits <- MCFits
  Plans = {"p1", "p2"}
  MaxShocks = 1
INVARIANTS VisitsAreClosed PlansAreKept
PROPERTIES BegunWhereItFits RoadEnds
CHECK_DEADLOCK FALSE
