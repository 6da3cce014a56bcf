\* The method whose list other threads extend: object topics are registered
\* from stream threads while it runs on the main thread.
CONSTANTS
  Callers = {"listTopics"}
  MaxLen = 2
SPECIFICATION Spec
INVARIANT EntriesWereWritten
CHECK_DEADLOCK FALSE
