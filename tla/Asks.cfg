SPECIFICATION Spec
CONSTANTS
  Commands = {1, 2}
  Requests = {1, 2}
  Questions <- MCQuestions
  MaxPosts = 2
  MaxKills = 1
ACTION_CONSTRAINT MCInTurn
CONSTRAINT MCAnswers
INVARIANTS
  AnswersMatch
  LoopNeedsApproval
  FilesSound
PROPERTIES
  EveryAskEnds
CHECK_DEADLOCK FALSE
