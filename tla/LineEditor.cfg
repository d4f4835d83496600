SPECIFICATION MCSpec
CONSTANTS
  Chars = {"a", "w", " "}
  Width <- Widths
  Bytes <- Encoding
  Cols = 3
  Prompts <- Every
  Keys <- AllKeys
  Completions <- Candidates
  Histories <- Beginnings
  TypeAhead = FALSE
  MaxLen = 3
  MaxRow = 9
  MaxSent = 2
INVARIANT ScreenShowsLine
PROPERTY FreshComesBack
