\* Two concurrent callers against a chain of three records, without symmetry, because of liveness.
SPECIFICATION Spec
CONSTANTS
  agent = agent  alice = alice  k1 = k1  k2 = k2  None = None
  Principals = {agent, alice}
  Kind <- Kinds
  Keys = {k1, k2}
  Bodies = {"once", "many", "accept"}
  Lane <- Lanes
  Accepts <- SmallAccepts
  Submissions <- SomeSubmissions
  Capacity = 3
  Callers = {c1, c2}
INVARIANTS TypeOK ReplayReproduces AppliedAtMostOnce RetriesAnswerTheRecord
PROPERTIES RecordsWereAsked EverySubmissionEnds
