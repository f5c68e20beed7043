CONSTANTS
  first = first
  retry = retry
  reuse = reuse
  other = other
  plain = plain
  k1 = k1
  k2 = k2
  one = one
  two = two
  None = None
  Req = {first, retry, reuse, other, plain}
  Key = {k1, k2}
  Body = {one, two}
  KeyOf <- MCKeyOf
  BodyOf <- MCBodyOf
  Writes <- MCWrites
  MaxEntries = 1
SPECIFICATION Spec
INVARIANTS
  TypeOK
  CommandRunsOnce
  AnswersOwnCommand
PROPERTIES
  EveryRequestAnswered
CHECK_DEADLOCK FALSE
