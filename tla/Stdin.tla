------------------------------- MODULE Stdin --------------------------------
(***************************************************************************)
(* user/ulib/scanf.c: the buffered standard input of user programs.        *)
(* getchar, getline and scanf are sequences of four loops over a buffer    *)
(* that read() refills with as much as it likes: one character (getc, a    *)
(* literal of a format), remove_space and gets.  A step looks at one       *)
(* character, or calls read() when the buffer is empty.                    *)
(*                                                                         *)
(* read() is the kernel's: it returns some of the input, 0 at its end, or  *)
(* -1 (a read of /dev/null, for one).  After -1 tail is -1: head never     *)
(* meets it again, and the characters returned are what the buffer held,   *)
(* then whatever lies behind it.  Strings that scanf turns into numbers    *)
(* are kept as strings: the conversion is strtol's.                        *)
(***************************************************************************)
EXTENDS Integers, Sequences

CONSTANTS
  BUF_SIZE,
  NumBuf,    \* size of the buffer of scanf for a number (32)
  Plain,     \* a character that is no space
  Inputs,    \* what the kernel may have to deliver
  Sizes,     \* sizes given to getline: there is room for the zero
  MaxOver    \* bound: characters read behind the buffer

NUL == "NUL"
Space == {"sp", "nl"}     \* what isspace accepts, and the delimiters of scanf
Char == Space \cup {Plain, NUL}

ASSUME StdinAssumption ==
  /\ BUF_SIZE \in Nat \ {0} /\ NumBuf \in Nat \ {0} /\ MaxOver \in Nat
  /\ Sizes \subseteq Nat \ {0}
  /\ \A text \in Inputs : text \in Seq(Char)
  /\ Plain \notin Space \cup {NUL}

VARIABLES
  pending,   \* the input that read() has not delivered
  buf, head, tail,
  todo,      \* the loops the current call has still to run; the first is running
  i,         \* characters gets has stored
  dropping,  \* gets is in its second loop
  out,       \* what the running loop has stored
  ok,        \* read() has not failed
  before,    \* history: the stream when the running loop began
  last       \* history: the last finished loop

stream == <<pending, buf, head, tail, ok>>
vars == <<stream, todo, i, dropping, out, before, last>>

Idx == 0 .. (BUF_SIZE - 1)
Inf == -1                 \* gets with size -1: no limit that matters

\* The loops.
Getc == [kind |-> "getc", size |-> 0, delim |-> {}, throw |-> FALSE, contain |-> FALSE]
Literal == [Getc EXCEPT !.kind = "literal"]
RemoveSpace == [Getc EXCEPT !.kind = "space"]
Gets(size, delim, throw, contain) ==
  [kind |-> "gets", size |-> size, delim |-> delim, throw |-> throw, contain |-> contain]

\* The input that is left: the buffer, then what the kernel has.
Left(b, h, t) == [k \in 1 .. (t - h) |-> b[h + k - 1]] \o pending
Unread == IF ok THEN Left(buf, head, tail) ELSE <<>>

Done == [op |-> Getc, before |-> <<>>, out |-> <<>>, after |-> <<>>]

-----------------------------------------------------------------------------
(* Variants of the definitions below, each with one plausible mistake.     *)

\* gets always consumes the delimiter.
EatsDelimiter(ch) ==
  \/ todo[1].kind = "getc"
  \/ todo[1].kind = "literal" /\ ch = Plain
  \/ todo[1].kind = "gets" /\ ~dropping /\ ch # NUL /\ ch \in todo[1].delim
\* remove_space does not notice the end of the input.
SpinsAtEnd(left) ==
  /\ todo[1].kind # "space"
  /\ last' = [op |-> todo[1], before |-> before, after |-> left,
              out |-> IF todo[1].kind = "getc" THEN <<NUL>> ELSE out]
  /\ todo' = Tail(todo)
  /\ before' = IF todo' = <<>> THEN <<>> ELSE left
  /\ i' = 0 /\ dropping' = FALSE /\ out' = <<>>

-----------------------------------------------------------------------------

Init ==
  /\ pending \in Inputs
  /\ buf = [k \in Idx |-> NUL] /\ head = 0 /\ tail = 0
  /\ todo = <<>> /\ i = 0 /\ dropping = FALSE /\ out = <<>>
  /\ ok = TRUE /\ before = <<>> /\ last = Done

\* The calls of user programs, as the loops they run.
getchar == <<Getc>>
getline(size) == <<Gets(size, {"nl"}, FALSE, TRUE)>>
scanf_c == <<Getc>>
scanf_s == <<RemoveSpace, Gets(Inf, Space, TRUE, FALSE)>>
scanf_num == <<RemoveSpace, Gets(NumBuf, Space, TRUE, FALSE)>>
scanf_space == <<RemoveSpace>>
scanf_literal == <<Literal>>

call(loops) ==
  /\ todo = <<>> /\ loops # <<>>
  /\ todo' = loops
  /\ before' = Unread
  /\ UNCHANGED <<stream, i, dropping, out, last>>

op == todo[1]

\* gets has filled its buffer: one place is for the zero at the end.
Full(o) == o.size # Inf /\ i >= o.size - 1

\* The running loop ends with the stream as given; the next one begins.
Finish(result, left) ==
  /\ last' = [op |-> op, before |-> before, out |-> result, after |-> left]
  /\ todo' = Tail(todo)
  /\ before' = IF todo' = <<>> THEN <<>> ELSE left
  /\ i' = 0 /\ dropping' = FALSE /\ out' = <<>>
Goon == UNCHANGED <<todo, before, last>>

\* The loop meets the end of the input, or a zero in it.
MeetsEnd(left) ==
  Finish(IF op.kind = "getc" THEN <<NUL>> ELSE out, left)

\* gets has no room: it ends, or goes over to throwing characters away, without a
\* look at the input.
gets_full ==
  /\ todo # <<>> /\ op.kind = "gets" /\ ~dropping /\ Full(op)
  /\ IF op.throw
     THEN dropping' = TRUE /\ UNCHANGED <<i, out>> /\ Goon
     ELSE Finish(out, Unread)
  /\ UNCHANGED stream

Looks == todo # <<>> /\ (op.kind # "gets" \/ dropping \/ ~Full(op))

\* refill: read() delivers n characters, 0 only when there are none.
refill(n) ==
  /\ Looks /\ head = tail
  /\ n <= Len(pending) /\ (n = 0 => pending = <<>>)
  /\ buf' = [k \in Idx |-> IF k < n THEN pending[k + 1] ELSE buf[k]]
  /\ pending' = SubSeq(pending, n + 1, Len(pending))
  /\ head' = 0 /\ tail' = n
  /\ IF n = 0 THEN MeetsEnd(<<>>) ELSE UNCHANGED <<i, dropping, out>> /\ Goon
  /\ UNCHANGED ok

\* refill: read() fails.
refill_fails ==
  /\ Looks /\ head = tail
  /\ head' = 0 /\ tail' = -1 /\ ok' = FALSE
  /\ UNCHANGED <<pending, buf, i, dropping, out>> /\ Goon

\* The loop consumes ch and goes on, storing it or not.
Consumes(ch) ==
  \/ op.kind = "space" /\ ch \in Space
  \/ op.kind = "gets" /\ ch # NUL /\ ch \notin op.delim
\* The loop consumes ch and ends.
ConsumesLast(ch) ==
  \/ op.kind = "getc"
  \/ op.kind = "literal" /\ ch = Plain
  \/ op.kind = "gets" /\ ~dropping /\ op.contain /\ ch # NUL /\ ch \in op.delim

Peeked == IF head \in Idx THEN {buf[head]} ELSE Char
After(h) == IF ok THEN Left(buf, h, tail) ELSE <<>>

char_goes_on(ch) ==
  /\ Looks /\ head # tail /\ head < BUF_SIZE + MaxOver /\ ch \in Peeked
  /\ Consumes(ch)
  /\ head' = head + 1
  /\ IF op.kind = "gets" /\ ~dropping
     THEN i' = i + 1 /\ out' = Append(out, ch)
     ELSE UNCHANGED <<i, out>>
  /\ UNCHANGED <<pending, buf, tail, ok, dropping>> /\ Goon

char_ends(ch) ==
  /\ Looks /\ head # tail /\ head < BUF_SIZE + MaxOver /\ ch \in Peeked
  /\ ~Consumes(ch)
  /\ IF ConsumesLast(ch)
     THEN /\ head' = head + 1
          /\ Finish(Append(out, ch), After(head + 1))
     ELSE /\ head' = head
          /\ Finish(out, After(head))
  /\ UNCHANGED <<pending, buf, tail, ok>>

Step ==
  \/ gets_full
  \/ \E n \in 0 .. BUF_SIZE : refill(n)
  \/ \E ch \in Char : char_goes_on(ch) \/ char_ends(ch)

Calls ==
  {getchar, scanf_c, scanf_s, scanf_num, scanf_space, scanf_literal}
    \cup {getline(size) : size \in Sizes}

Next == (\E loops \in Calls : call(loops)) \/ Step \/ refill_fails

\* read() returns: the input is there, and nothing says that it must fail.
Spec == Init /\ [][Next]_vars /\ WF_vars(Step)

-----------------------------------------------------------------------------
(* Properties.                                                             *)

\* While read() has not failed, the indices stay inside the buffer and gets
\* inside the buffer of its caller: there is room for the zero.
TypeOK ==
  /\ buf \in [Idx -> Char]
  /\ ok => 0 <= head /\ head <= tail /\ tail <= BUF_SIZE
  /\ todo # <<>> /\ op.kind = "gets" /\ op.size # Inf => Len(out) <= op.size - 1

\* What the loops compute, said of the whole stream, with no buffer and no chunks:
\* how many characters at its front are in a set.
Run(s, set) ==
  CHOOSE n \in 0 .. Len(s) :
    /\ \A k \in 1 .. n : s[k] \in set
    /\ n < Len(s) => s[n + 1] \notin set
Firsts(s, n) == SubSeq(s, 1, n)
Rest(s, n) == SubSeq(s, n + 1, Len(s))
At(s, n) == IF n <= Len(s) THEN s[n] ELSE NUL

Stored(o, s) ==
  LET n == Run(s, Char \ (o.delim \cup {NUL}))
  IN  IF o.size # Inf /\ n >= o.size - 1 THEN o.size - 1
      ELSE IF o.contain /\ At(s, n + 1) # NUL THEN n + 1 ELSE n
Eaten(o, s) ==
  IF o.throw THEN Run(s, Char \ (o.delim \cup {NUL})) ELSE Stored(o, s)

\* What a loop takes from the stream, and what it gives to its caller.
Ate(o, s) ==
  CASE o.kind = "getc" -> IF s = <<>> THEN 0 ELSE 1
    [] o.kind = "literal" -> IF At(s, 1) = Plain THEN 1 ELSE 0
    [] o.kind = "space" -> Run(s, Space)
    [] o.kind = "gets" -> Eaten(o, s)
Gave(o, s) ==
  CASE o.kind = "getc" -> <<At(s, 1)>>
    [] o.kind = "literal" -> Firsts(s, Ate(o, s))
    [] o.kind = "space" -> <<>>
    [] o.kind = "gets" -> Firsts(s, Stored(o, s))

\* Every finished loop has returned, and left behind, what the stream alone
\* determines: how read() cuts the input into chunks makes no difference, nothing
\* is lost or seen twice at the edges of the buffer, and a line or word that is
\* too long is cut, or its rest thrown away, at the right place.
ChunksDoNotMatter ==
  /\ TypeOK
  /\ ok /\ last # Done =>
       /\ last.after = Rest(last.before, Ate(last.op, last.before))
       /\ last.out = Gave(last.op, last.before)

\* Every call comes to an end, unless read() fails.
CallsEnd == todo # <<>> ~> (todo = <<>> \/ ~ok)

=============================================================================
