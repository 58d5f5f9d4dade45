------------------------------ MODULE MCJobQueue ------------------------------
(***************************************************************************)
(* Constants of JobQueue for TLC: five of the program's job types, one for *)
(* each lane and the two of a turn, and a retired one.                     *)
(***************************************************************************)
EXTENDS JobQueue

MCLanes == {"critical", "background", "maintenance", "autonomous"}

MCLaneOf ==
  [t \in Registered |->
     CASE t = "qq.deliver" -> "critical"
       [] t \in {"memory.extract", "future.analyze"} -> "background"
       [] t = "life.tick" -> "autonomous"
       [] OTHER -> "maintenance"]

MCConcurrency == [l \in Lanes |-> IF l = "critical" THEN 2 ELSE 1]

MCPriority ==
  [t \in Types |->
     CASE t = "qq.deliver" -> 100
       [] t = "memory.extract" -> 50
       [] t = "future.analyze" -> 45
       [] t = "life.tick" -> 75
       [] OTHER -> 10]

\* qq.deliver has one attempt; the others have two here, three in the program.
MCMaxAttempts == [t \in Types |-> IF t = "qq.deliver" THEN 1 ELSE 2]

TurnOrSingle ==
  {<<"memory.extract", "future.analyze">>, <<"qq.deliver">>, <<"maintenance">>,
   <<"life.tick">>}
===============================================================================
