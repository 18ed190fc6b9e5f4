SPECIFICATION ConsoleSpec
CONSTANTS
  Roles = {"admin", "editor"}
  Id = {a, b, c}
  NoId = noUser
  Password = {old, new}
  Task = {s, t}
  Inst = {i, j}
  NoInst = noInstance
  Name = {n}
  NoName = noName
  Call = {s, t}
  ListLimit = 2
  Field = {interval, level}
  Value = {0, 1}
  Edit = {s, t}
  Env = {x, y}
  NoEnv = noEnvironment
  Templates = {x}
  Part = {description, endpoints}
  Inherited = {endpoints}
  Content = {0, 1}
  Blank = 0
  Visit = {s, t}
  MaxRequests = 3
INVARIANT NoLockout
CHECK_DEADLOCK FALSE
