\* Every line of up to six characters for the parser; memories of five bytes;
\* numbers of five bits; texts of up to seven characters over buffers of two to
\* five, so that lines run over the cuts, fill the buffers and do not fit them.
CONSTANTS
  Alphabet = {"x", " ", "<", ">", "|", "&", ";", "(", ")"}
  MaxLine = 6
  MAXARGS = 3
  MemSize = 5
  Chars = {0, 1, 2}
  WIDTH = 5
  NumberChars = {" ", "-", "+", "0", "1", "7", "a", "x"}
  MaxStr = 4
  Bases = {0, 1, 2, 8, 10, 16}
  BUFSIZE = 3
  LINES = 2
  FileLists <- FilterInputs
  SIZE = 5
  SBUFSIZE = 2
  MAXARG = 3
  MAX_ARGS_NUM = 2
SPECIFICATION SpecAll
CHECK_DEADLOCK FALSE
INVARIANTS
  Parse_Grammar Strings_KeepPromises Numbers_RoundTrip Printf_Fields
  Filters_Cuts Grep_Matches Xargs_Lines Shell1_Words
