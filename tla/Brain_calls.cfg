SPECIFICATION Spec
CONSTANTS
  c1 = c1  c2 = c2  own = own  run = run  wsp = wsp  prj = prj  who = who  art = art
  said = said  note = note  res = res  ctx = ctx
  t1 = t1  t2 = t2  t3 = t3  x1 = x1  x2 = x2  x3 = x3  x0 = x0
  base = base  seenBefore = seenBefore  echo = echo
  Boot = Boot  None = None  Merged = Merged
  Caller = {c1, c2}
  Owner = own  Runtime = run  Workspace = wsp  Project = prj
  Content = {base, seenBefore}
  Bare = x0
  Entity <- MCEntity
  Fact <- MCFact
  EntityOf <- MCEntityOf
  Task <- MCTask
  Text <- MCText
  IdOf <- MCIdOf
  Attracts <- MCAttracts
  Closes <- MCCloses
  Message <- MCMessage
  Tool <- MCTool
  Memo <- MCMemo
  TaskMemo <- MCTaskMemo
  Update <- MCUpdate
  Target <- MCTarget
  Earlier <- MCEarlier
  Direct = {t1}
  Foreign = foreign
  InScope = {base, seenBefore, said, note, res, x1, x2, x0}
  Window <- MCWindow
  Span = 5
  Limit = 4
  MaxCalls = 2
  MaxFaults = 1
SYMMETRY Threads
INVARIANTS TypeOK IndexAgrees RecallHonest
PROPERTIES WritesWhatItFound TwinsExplained FactsHaveEntity
CHECK_DEADLOCK FALSE
