\* A Create and a Delete overlap; does All still succeed?
CONSTANTS
  a = a
  b = b
  tcp80 = tcp80
  s1 = s1
  s2 = s2
  Guids = {a, b}
  Services = {tcp80}
  NumTags = 2
  NULL = NULL
  Drivers = {"postgres"}
  Sessions = {s1, s2}
  Lists <- MCLists
  MaxCalls = 3
SPECIFICATION Spec
INVARIANT
  AllSucceeds
