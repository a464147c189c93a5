SPECIFICATION FairSpec
CONSTANTS
  Conn = {f1, f2}
  Answer <- Answers
  Garbage <- Texts
  Word = {"mode", "url", "message", "error", "blob", "w", "x", "pairing", "empty", ""}
  Number = {"7"}
  Boolean = {"true", "false"}
  MaxLine = 10
  Events = {"confused", "listen", "term", "kill"}
  MaxEvents = 1
INVARIANTS TypeOK ParserAgrees
PROPERTIES OutcomeMeant HandlersEnd StopsWhenTold
