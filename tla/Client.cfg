\* A user who makes two choices, and two answers.
SPECIFICATION FairSpec
CONSTANTS
  Words <- AllWords
  Second <- SecondOf
  Entries <- SomeEntries
  Long <- LongOf
  Spoilt = "spoilt"
  User = "ana"
  Inputs <- TypedInputs
  Big <- BigInputs
  Statuses <- SomeStatuses
  Texts <- SentTexts
  Lists <- SomeLists
  Glued <- GluedOf
  Garbage <- SomeGarbage
  MaxRequests = 2
  MaxAnswers = 2
INVARIANTS
  IInv
  ReadAsMeant
  
  ToldInOrder
PROPERTY TakenEnds
