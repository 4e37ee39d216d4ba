CONSTANTS
  Login = {l1, l2}
  Resend = {r1, r2}
  Session = {s1, s2}
  Code = {k1, k2}
  None = None
  MaxAttempts = 2
  Lifetime = 2
  ResendWait = 1
  TTL = 2
  SendLimit = 2
  HourLimit = 3
  Hour = 2
  MaxVersion = 2
  MaxTime = 2
SPECIFICATION Spec
INVARIANTS
  SecondFactorHolds
  ChallengesOpenOnce
  GuessesAreBounded
  RowsAreOfTheEditor
  MailsAreBudgeted
SYMMETRY Symmetry
