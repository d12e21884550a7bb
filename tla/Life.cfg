SPECIFICATION Spec
CONSTANTS
  NEngines = 2
  i1 = i1  i2 = i2  i3 = i3
  Instances = {i1, i2, i3}
  Fewer = {i1, i2}
  NoInst = NoInst
  MaxRetries = 1
  MaxCrashes = 1
  Worlds = {{"start", "stop", "rows"}, {"start", "stop", "fail", "edit", "admin", "resume", "rows"}, {"start", "fail", "crash", "resume"}}
INVARIANTS TypeOK RoutesQuiet
PROPERTIES StopTakesHold StopsAndAnswers ResumedIsServed
CHECK_DEADLOCK FALSE
