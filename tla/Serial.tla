------------------------------- MODULE Serial -------------------------------
(***************************************************************************)
(* kernel/src/serial.c: the console's line discipline.  The UART receives  *)
(* bytes at any moment, also between two tests of its status register; the *)
(* kernel takes them out only while serial_read waits for input (getchar   *)
(* calls serial_handle).  Characters go round a buffer of BUFFER_SIZE      *)
(* slots between three counters: head, what readers have taken; clapboard, *)
(* the end of the last complete line; tail, the end of the line that is    *)
(* being typed and can still be edited.                                    *)
(*                                                                         *)
(* screen, got and high are history: what the echo has left on the screen  *)
(* (a newline stays, an erased character is gone), what readers received,  *)
(* and the furthest that tail ever was.                                    *)
(***************************************************************************)
EXTENDS Integers, Sequences

CONSTANTS
  BUFFER_SIZE,
  Printable,   \* printable characters
  Special,     \* those of them that only special keys send (after ESC)
  Keys,        \* what a key press sends: sequences of bytes
  Counts,      \* the count arguments of serial_read
  MaxKeys      \* bound: key presses in a behaviour

ASSUME SerialAssumption ==
  /\ BUFFER_SIZE \in Nat \ {0}
  /\ Counts \subseteq Nat
  /\ MaxKeys \in Nat
  /\ Special \subseteq Printable
  /\ Printable \cap {"nul", "esc", "bs", "cr", "nl", "ctl"} = {}

Chars == Printable \cup {"nl"}                  \* what the buffer may hold

VARIABLES
  wire,       \* bytes of the last key press that have not arrived yet
  keys,       \* number of key presses
  rx,         \* the UART's receive queue
  buffer, head, tail, clapboard,
  pc,         \* "user", "getchar", "handle" (its loop) or "drain" (after ESC)
  want,       \* characters serial_read still may return
  screen, got, high,
  leaked      \* history: a byte of a special key became input

hist == <<screen, got, high, leaked>>
line == <<wire, keys>>
vars == <<wire, keys, rx, buffer, head, tail, clapboard, pc, want, hist>>

Top(a, b) == IF a > b THEN a ELSE b

-----------------------------------------------------------------------------
(* Variants of the definitions below, each with one plausible mistake.     *)

AtShort(n) == n % (BUFFER_SIZE - 1)
PushBackKeepClap(ch) == [tail |-> tail + 1, clapboard |-> clapboard]
pop_front_until_count ==
  /\ pc = "getchar" /\ clapboard > head
  /\ got' = Append(got, buffer[head % BUFFER_SIZE])
  /\ pc' = IF want = 1 THEN "user" ELSE "getchar"
  /\ head' = head + 1
  /\ want' = want - 1
  /\ UNCHANGED <<line, rx, buffer, tail, clapboard, screen, high, leaked>>

-----------------------------------------------------------------------------

\* The slot of a counter.
At(n) == n % BUFFER_SIZE

Init ==
  /\ wire = <<>> /\ keys = 0 /\ rx = <<>>
  /\ buffer = [i \in 0 .. (BUFFER_SIZE - 1) |-> "nul"]
  /\ head = 0 /\ tail = 0 /\ clapboard = 0
  /\ pc = "user" /\ want = 0
  /\ screen = <<>> /\ got = <<>> /\ high = 0 /\ leaked = FALSE

\* The user presses a key; its bytes reach the UART one by one.
Press(k) ==
  /\ keys < MaxKeys /\ wire = <<>>
  /\ wire' = k /\ keys' = keys + 1
  /\ UNCHANGED <<rx, buffer, head, tail, clapboard, pc, want, hist>>
Arrive ==
  /\ wire # <<>>
  /\ rx' = Append(rx, Head(wire)) /\ wire' = Tail(wire)
  /\ UNCHANGED <<keys, buffer, head, tail, clapboard, pc, want, hist>>

-----------------------------------------------------------------------------
(* The kernel.                                                             *)

serial_read(count) ==
  /\ pc = "user"
  /\ want' = count
  /\ pc' = IF count = 0 THEN "user" ELSE "getchar"
  /\ UNCHANGED <<line, rx, buffer, head, tail, clapboard, hist>>

Ready == clapboard > head      \* the test of pop_front
CanErase == tail > clapboard   \* the test of pop_back

\* getchar finds a character: serial_read stores it and returns after a
\* newline or after its last one.
pop_front ==
  /\ pc = "getchar" /\ Ready
  /\ LET ch == buffer[At(head)]
     IN  /\ got' = Append(got, ch)
         /\ pc' = IF want = 1 \/ ch = "nl" THEN "user" ELSE "getchar"
  /\ head' = head + 1
  /\ want' = want - 1
  /\ UNCHANGED <<line, rx, buffer, tail, clapboard, screen, high, leaked>>

\* getchar finds none and calls serial_handle.
Poll ==
  /\ pc = "getchar" /\ ~Ready
  /\ pc' = "handle"
  /\ UNCHANGED <<line, rx, buffer, head, tail, clapboard, want, hist>>

\* push_back(ch): the two counters it sets.
PushBack(ch) ==
  [tail |-> tail + 1, clapboard |-> IF ch = "nl" THEN tail + 1 ELSE clapboard]

\* The loop of serial_handle takes the next byte.
Ignored == {"nul", "ctl"}
Translate(b) == IF b = "cr" THEN "nl" ELSE b
Take(b) ==
  /\ pc = "handle" /\ rx # <<>> /\ Head(rx) = b
  /\ rx' = Tail(rx)

HandleIgnore ==
  /\ \E b \in Ignored : Take(b)
  /\ UNCHANGED <<line, buffer, head, tail, clapboard, pc, want, hist>>

HandleEscape ==
  /\ Take("esc")
  /\ pc' = "drain"
  /\ UNCHANGED <<line, buffer, head, tail, clapboard, want, hist>>

\* Backspace: pop_back, and erase the character from the screen.
HandleBackspace ==
  /\ Take("bs")
  /\ IF CanErase
     THEN /\ tail' = tail - 1
          /\ screen' = SubSeq(screen, 1, Len(screen) - 1)
     ELSE UNCHANGED <<tail, screen>>
  /\ UNCHANGED <<line, buffer, head, clapboard, pc, want, got, high, leaked>>

\* A character or Enter: echo it, then push_back.
HandleChar ==
  \E b \in Chars \cup {"cr"} :
    /\ Take(b)
    /\ LET ch == Translate(b)
       IN  /\ screen' = Append(screen, ch)
           /\ buffer' = [buffer EXCEPT ![At(tail)] = ch]
           /\ tail' = PushBack(ch).tail
           /\ clapboard' = PushBack(ch).clapboard
           /\ leaked' = (leaked \/ ch \in Special)
    /\ high' = Top(high, tail')
    /\ UNCHANGED <<line, head, pc, want, got>>

\* The receive queue is empty: serial_handle returns to getchar.
HandleDone ==
  /\ pc = "handle" /\ rx = <<>>
  /\ pc' = "getchar"
  /\ UNCHANGED <<line, rx, buffer, head, tail, clapboard, want, hist>>

\* After ESC, everything the UART has right now is thrown away.
Drain ==
  /\ pc = "drain"
  /\ IF rx # <<>>
     THEN rx' = Tail(rx) /\ UNCHANGED pc
     ELSE pc' = "handle" /\ UNCHANGED rx
  /\ UNCHANGED <<line, buffer, head, tail, clapboard, want, hist>>

Kernel ==
  \/ pop_front \/ Poll
  \/ HandleIgnore \/ HandleEscape \/ HandleBackspace \/ HandleChar \/ HandleDone
  \/ Drain

Next ==
  \/ \E k \in Keys : Press(k)
  \/ Arrive
  \/ \E count \in Counts : serial_read(count)
  \/ Kernel

\* The kernel runs whenever serial_read has been called: interrupts are off and
\* nothing else gets the processor until it returns.
Spec == Init /\ [][Next]_vars /\ WF_vars(Kernel)

-----------------------------------------------------------------------------
(* Properties.                                                             *)

\* Every variable has its type; head <= clapboard <= tail: a reader never runs
\* into the line being edited, backspace never into a complete line.
TypeOK ==
  /\ buffer \in [0 .. (BUFFER_SIZE - 1) -> Chars \cup {"nul"}]
  /\ head \in Nat /\ clapboard \in Nat /\ tail \in Nat /\ want \in Nat
  /\ pc \in {"user", "getchar", "handle", "drain"}
  /\ head <= clapboard /\ clapboard <= tail

\* What the user sees is what is in the buffer, and the editable part is the
\* current line of the screen: after any typing and erasing, the echo and the
\* counters of push_back and pop_back agree, and every character that has not
\* been overwritten by one BUFFER_SIZE positions later is still as echoed.
ScreenIsInput ==
  /\ TypeOK
  /\ Len(screen) = tail
  /\ clapboard > 0 => screen[clapboard] = "nl"
  /\ \A n \in (clapboard + 1) .. tail : screen[n] # "nl"
  /\ \A n \in head .. (tail - 1) :
       high <= n + BUFFER_SIZE => buffer[At(n)] = screen[n + 1]

\* serial_read returns the characters on the screen, in order and once each,
\* unless the type-ahead ran a whole buffer past them; what a reader has
\* received stays on the screen.
Delivers ==
  /\ got' # got =>
       /\ Len(got') = Len(got) + 1 /\ Len(got) = head
       /\ high <= head + BUFFER_SIZE => got'[head + 1] = screen[head + 1]
  /\ SubSeq(screen', 1, head) = SubSeq(screen, 1, head)
ReadsWhatWasTyped == [][Delivers]_vars

\* A reader that waits while a complete line is in the buffer gets it:
\* serial_read returns (the polling loop of getchar), unless the typing ran a
\* whole buffer past the reader and overwrote the newline.
ReadReturns ==
  (pc # "user" /\ clapboard > head) ~> (pc = "user" \/ high > head + BUFFER_SIZE)

\* "special key (e.g. arrow key), ignore it" (serial_handle): no byte of a
\* special key becomes input.
SpecialKeysIgnored == ~leaked

=============================================================================
