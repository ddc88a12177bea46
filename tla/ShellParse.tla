----------------------------- MODULE ShellParse -----------------------------
(***************************************************************************)
(* user/src/phase6/sh.c: the parser of the shell, a recursive descent over *)
(* a line that is parsed in place: a command keeps pointers into the line, *)
(* and nulterminate writes the zeros that end its strings when all is      *)
(* parsed.  A line is a sequence of characters; pointers are positions in  *)
(* it, with the terminating zero at position es.                           *)
(*                                                                         *)
(* The parser only moves from token to token, so that the tokens of the    *)
(* line can be taken first: a parse function starts at a token and returns *)
(* [ok, s, cmd], with s the next token; ok is FALSE after a panic.         *)
(***************************************************************************)
EXTENDS Integers, Sequences, FiniteSets, SequencesExt

CONSTANTS
  Alphabet,   \* the characters of lines: "a" and others for words, blanks, symbols
  MaxLine,    \* bound: length of a line
  MAXARGS

ASSUME ShellParseAssumption == MaxLine \in Nat /\ MAXARGS \in Nat \ {0}

VARIABLES
  line,
  status,     \* "read", "scanned", "parsed" or "panic"
  toks,       \* its tokens
  cmd,        \* what parsecmd made of it
  nuls        \* where nulterminate wrote a zero

vars == <<line, status, toks, cmd, nuls>>

whitespace == {" "}
symbols == {"<", "|", ">", "&", ";", "(", ")"}
NUL == "NUL"

es == Len(line) + 1
At(s) == IF s < es THEN line[s] ELSE NUL

Panic == [ok |-> FALSE, s |-> 0, cmd |-> <<>>]
Parsed(s, c) == [ok |-> TRUE, s |-> s, cmd |-> c]

\* The commands.  A word is a pair of pointers.
execcmd(argv) == [type |-> "EXEC", argv |-> argv]
redircmd(c, tok, file) == [type |-> "REDIR", cmd |-> c, tok |-> tok, file |-> file]
pipecmd(left, right) == [type |-> "PIPE", left |-> left, right |-> right]
listcmd(left, right) == [type |-> "LIST", left |-> left, right |-> right]
backcmd(c) == [type |-> "BACK", cmd |-> c]

-----------------------------------------------------------------------------
(* Variants of the definitions below, each with one plausible mistake.     *)

\* The table of arguments may be filled to the last place.
TooManyLate(argc) == argc > MAXARGS

-----------------------------------------------------------------------------
(* gettoken and peek.                                                      *)

Skip(s) ==
  CHOOSE t \in s .. es :
    /\ \A u \in s .. (t - 1) : At(u) \in whitespace
    /\ At(t) \notin whitespace

WordEnd(s) ==
  CHOOSE t \in s .. es :
    /\ \A u \in s .. (t - 1) : At(u) \notin whitespace \cup symbols
    /\ At(t) \in whitespace \cup symbols \cup {NUL}

\* The token at s: its kind, its two ends and where the next one starts.
gettoken(s) ==
  LET q == Skip(s)
      double == At(q) = ">" /\ At(q + 1) = ">"
      eq == IF At(q) = NUL THEN q
            ELSE IF double THEN q + 2
            ELSE IF At(q) \in symbols THEN q + 1
            ELSE WordEnd(q)
      ret == IF double THEN "+"
             ELSE IF At(q) \in symbols \cup {NUL} THEN At(q) ELSE "a"
  IN  [ret |-> ret, q |-> q, eq |-> eq, s |-> Skip(eq)]

\* The tokens from s on, as repeated calls find them.
RECURSIVE Tokens(_)
Tokens(s) ==
  LET t == gettoken(s) IN IF t.ret = NUL THEN <<>> ELSE <<t>> \o Tokens(t.s)

Kind(t, k) == IF k \in DOMAIN t THEN t[k].ret ELSE NUL
Word(t, k) == <<t[k].q, t[k].eq>>
peek(s, kinds) == Kind(toks, s) \in kinds

-----------------------------------------------------------------------------
(* The parse functions.                                                    *)

\* redircmd around cmd for each redirection, the first innermost.
Wrap(c, redirs) ==
  FoldLeft(LAMBDA d, r : redircmd(d, r.tok, r.file), c, redirs)

\* parseredirs: the redirections at s; cmd collects them.
RECURSIVE parseredirs(_, _)
parseredirs(redirs, s) ==
  IF ~peek(s, {"<", ">", "+"}) THEN Parsed(s, redirs)
  ELSE IF ~peek(s + 1, {"a"}) THEN Panic
  ELSE parseredirs(Append(redirs, [tok |-> toks[s].ret, file |-> Word(toks, s + 1)]), s + 2)

TooMany(argc) == argc >= MAXARGS

\* What becomes of the results of two functions, one called after the other.
Pair(l, r, c) == IF l.ok /\ r.ok THEN Parsed(r.s, c) ELSE Panic
Piped(l, r) == Pair(l, r, pipecmd(l.cmd, r.cmd))
Listed(l, r) == Pair(l, r, listcmd(l.cmd, r.cmd))
Redirected(l, r) == Pair(l, r, Wrap(l.cmd, r.cmd))

\* The loop of parseexec, with the arguments so far and what parseredirs returned.
RECURSIVE Args(_, _)
Args(argv, r) ==
  IF ~r.ok THEN Panic
  ELSE IF peek(r.s, {"|", ")", "&", ";", NUL})
  THEN Parsed(r.s, Wrap(execcmd(argv), r.cmd))
  ELSE IF ~peek(r.s, {"a"}) \/ TooMany(Len(argv) + 1) THEN Panic
  ELSE Args(Append(argv, Word(toks, r.s)), parseredirs(r.cmd, r.s + 1))

RECURSIVE parseline(_)

\* parseblock, after its command.
Closed(l) ==
  IF l.ok /\ peek(l.s, {")"}) THEN Redirected(l, parseredirs(<<>>, l.s + 1)) ELSE Panic
parseblock(s) == Closed(parseline(s + 1))

parseexec(s) ==
  IF peek(s, {"("}) THEN parseblock(s) ELSE Args(<<>>, parseredirs(<<>>, s))

RECURSIVE AfterExec(_)
AfterExec(l) ==
  IF l.ok /\ peek(l.s, {"|"}) THEN Piped(l, AfterExec(parseexec(l.s + 1))) ELSE l
parsepipe(s) == AfterExec(parseexec(s))

\* parseline, after its pipe: the loop over "&", then ";".
RECURSIVE AfterPipe(_)
AfterPipe(l) ==
  IF l.ok /\ peek(l.s, {"&"}) THEN AfterPipe(Parsed(l.s + 1, backcmd(l.cmd)))
  ELSE IF l.ok /\ peek(l.s, {";"}) THEN Listed(l, parseline(l.s + 1))
  ELSE l
parseline(s) == AfterPipe(parsepipe(s))

\* parsecmd, after parseline: nothing may be left over.
Finished(l) == IF l.ok /\ peek(l.s, {NUL}) THEN l ELSE Panic

\* The words of a command: arguments and files.
RECURSIVE Words(_)
Words(c) ==
  CASE c.type = "EXEC" -> {c.argv[k] : k \in DOMAIN c.argv}
    [] c.type = "REDIR" -> {c.file} \cup Words(c.cmd)
    [] c.type = "BACK" -> Words(c.cmd)
    [] OTHER -> Words(c.left) \cup Words(c.right)

End(word) == word[2]
nulterminate(c) == {End(w) : w \in Words(c)}

Init ==
  /\ line = <<>>
  /\ status = "read" /\ toks = <<>> /\ cmd = <<>> /\ nuls = {}

\* getcmd: the line grows by a character.
type(ch) ==
  /\ status = "read" /\ Len(line) < MaxLine
  /\ line' = Append(line, ch)
  /\ UNCHANGED <<status, toks, cmd, nuls>>

scan ==
  /\ status = "read"
  /\ status' = "scanned" /\ toks' = Tokens(1)
  /\ UNCHANGED <<line, cmd, nuls>>

\* The line has been parsed with result l.
Ends(l) ==
  IF l.ok THEN status' = "parsed" /\ cmd' = l.cmd /\ nuls' = nulterminate(l.cmd)
  ELSE status' = "panic" /\ UNCHANGED <<cmd, nuls>>
parsecmd ==
  /\ status = "scanned"
  /\ Ends(Finished(parseline(1)))
  /\ UNCHANGED <<line, toks>>

Next == scan \/ parsecmd \/ \E ch \in Alphabet : type(ch)
Spec == Init /\ [][Next]_vars

-----------------------------------------------------------------------------
(* Properties.                                                             *)

\* The grammar of the shell, as a relation between token strings and commands:
\*   line ::= pipe {"&"} [";" line]     pipe ::= exec ["|" pipe]
\*   exec ::= "(" line ")" {redir} | {redir} {word {redir}}
\*   redir ::= ("<" | ">" | ">>") word
Upto(t, k) == SubSeq(t, 1, k)
From(t, k) == SubSeq(t, k, Len(t))
IsRedir(t, k) == Kind(t, k) \in {"<", ">", "+"} /\ Kind(t, k + 1) = "a"
Redirs(t, ks) == [n \in DOMAIN ks |-> [tok |-> t[ks[n]].ret, file |-> Word(t, ks[n] + 1)]]
Ascending(set) == SetToSortSeq(set, <)

\* A plain command: each word is the file of a redirection or an argument.
Plain(t) ==
  LET rs == {k \in DOMAIN t : IsRedir(t, k)}
      ws == {k \in DOMAIN t : Kind(t, k) = "a" /\ k - 1 \notin rs}
      args == Ascending(ws)
  IN  IF Cardinality(rs) * 2 + Cardinality(ws) = Len(t) /\ Cardinality(ws) < MAXARGS
      THEN {Wrap(execcmd([n \in DOMAIN args |-> Word(t, args[n])]),
                 Redirs(t, Ascending(rs)))}
      ELSE {}

RECURSIVE IsLine(_)
Block(t) ==
  UNION {LET rs == [n \in 1 .. ((Len(t) - k) \div 2) |-> k + 2 * n - 1]
         IN  {Wrap(c, Redirs(t, rs)) : c \in IsLine(SubSeq(t, 2, k - 1))} :
           k \in {k \in 2 .. Len(t) :
                    /\ Kind(t, 1) = "(" /\ Kind(t, k) = ")" /\ (Len(t) - k) % 2 = 0
                    /\ \A n \in 1 .. ((Len(t) - k) \div 2) : IsRedir(t, k + 2 * n - 1)}}
Exec(t) == Plain(t) \cup Block(t)
RECURSIVE IsPipe(_)
IsPipe(t) ==
  Exec(t) \cup
  UNION {{pipecmd(l, r) : l \in Exec(Upto(t, k - 1)), r \in IsPipe(From(t, k + 1))} :
           k \in {k \in DOMAIN t : Kind(t, k) = "|"}}
RECURSIVE IsBack(_)
IsBack(t) ==
  IsPipe(t) \cup
  (IF Kind(t, Len(t)) = "&" THEN {backcmd(c) : c \in IsBack(Upto(t, Len(t) - 1))} ELSE {})
IsLine(t) ==
  IsBack(t) \cup
  UNION {{listcmd(l, r) : l \in IsBack(Upto(t, k - 1)), r \in IsLine(From(t, k + 1))} :
           k \in {k \in DOMAIN t : Kind(t, k) = ";"}}

\* The parser accepts exactly the lines of the grammar with fewer than MAXARGS
\* arguments to a command, and builds the one command the grammar gives them:
\* pipes and lists nest to the right, redirections belong to their command or
\* block, no argument is lost or swapped with a file.
ParsesGrammar ==
  status \in {"parsed", "panic"} =>
    IsLine(toks) = IF status = "parsed" THEN {cmd} ELSE {}

\* After nulterminate every word reads, from its first character to the first
\* zero, as it was typed: no word runs into the next, and no zero falls into
\* another word.
WordsEnd ==
  status = "parsed" =>
    \A w \in Words(cmd) :
      LET zeros == {p \in nuls \cup {es} : p >= w[1]}
      IN  /\ w[1] < w[2]
          /\ \A p \in zeros : w[2] <= p
          /\ w[2] \in zeros

=============================================================================
