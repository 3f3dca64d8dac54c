SPECIFICATION Spec
CONSTANTS
  s1 = s1  r1 = r1  r2 = r2  f1 = f1  j1 = j1  k1 = k1  k2 = k2  i1 = i1  i2 = i2
  old = old  new = new  manifestFile = manifestFile  script = script 
  skill1 = skill1  dir1 = dir1  exact = exact  star = star  prefix = prefix
  a1 = a1  a2 = a2  a3 = a3
  Party = {a1, a2, a3}
  EncryptChannels = TRUE
  Initiator = a1  Coordinator = a2  Worker = a3
  skillName = skillName  echoName = echoName  runSkill = runSkill  runLocal = runLocal
  Name = {skillName, echoName, runSkill, runLocal}
  Pattern = {exact, star, prefix}
  Matches <- MCMatches
  DefaultDeny = TRUE
  Call = {k1, k2}
  Installer = {i1, i2}
  Target <- MCTarget
  Bundle = {old, new}
  Skill = {skill1}
  Dir = {dir1}
  File = {manifestFile, script}
  Manifest = manifestFile
  SkillOf <- MCSkillOf
  DirOf <- MCDirOf
  FilesOf <- MCFilesOf
  Policies <- MCPolicies
  Absent = Absent  Partial = Partial  None = None
  Stream = {s1}
  Request = {r1, r2}
  Follower = {f1}
  Job = {j1}
  JobTarget <- MCJobTarget
  Tails <- MCTails
  Blank <- MCBlank
  NoTarget = NoTarget
  HistoryLimit = 2
  ChannelLimit = 1
  MaxUpdates = 2
  MaxWork = 3
  MaxAlone = 4
SYMMETRY Alike
INVARIANTS SystemTypeOK StreamsFaithful MessagesAccounted JobsKept PackagesWhole MachinesAccounted
CHECK_DEADLOCK FALSE
