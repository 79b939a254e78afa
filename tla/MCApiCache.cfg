\* Two threads, two questions in three query strings, one build.
CONSTANTS
  Threads = {t1, t2}
  QueryStrings <- MCPlain
  TTL = 2
  MaxCompute = 1
  MaxClock = 4
  MaxBuilds = 1
  Absent = Absent
SPECIFICATION CacheSpec
INVARIANTS PlainQuestionIsAnswered AnswersAreHonest
PROPERTIES StalenessIsBounded
SYMMETRY ThreadSymmetry
