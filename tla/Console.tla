------------------------------ MODULE Console ------------------------------
(***************************************************************************)
(* The kernel's console: kout::print() and kout::printf() under the        *)
(* consoleLock (console.cpp, printf.cpp), and the two users that must get  *)
(* through whatever else goes wrong, kpanic() (kpanic.cpp) and             *)
(* handleCpuException() (exceptionHandlers.cpp).                           *)
(***************************************************************************)
EXTENDS Screen

CONSTANTS CPUs, None,
          Formats,     \* what threads print: sequences of printf items
          LongBits,    \* width of an unsigned long
          MaxEvents    \* bound on the calls of threads and the panics together

VARIABLES screen,
          lock,      \* consoleLock: its owner, or None
          calls,     \* what the CPU has to print: its call in progress first
          pc,        \* "run", "call" (entering print), "loop", "halted"
          dying,     \* the CPU is in kpanic() or in an exception handler
          events,    \* calls threads have made, panics and exceptions
          log,       \* history: the text of the calls, in the order they began, until torn
          torn       \* history: two CPUs were in print()'s loop

vars == <<screen, lock, calls, pc, dying, events, log, torn>>
-----------------------------------------------------------------------------
(* What a call prints.  An item is literal text or a number with its base. *)

Digits == <<"0", "1", "2", "3", "4", "5", "6", "7", "8", "9", "a", "b", "c", "d", "e", "f">>

\* The do loop of print(value, base): least significant digit first.
Remainders(value, base) ==
  LET from[v \in 0 .. value] ==
        IF v < base THEN <<Digits[v + 1]>> ELSE <<Digits[(v % base) + 1]>> \o from[v \div base]
  IN  from[value]

\* An int is sign-extended to an unsigned long; then the digits are swapped.
Numeral(value, base) == Reverse(Remainders(value % 2^LongBits, base))

\* printf(): the items one after the other; print() has a single text.
Text(items) ==
  FlattenSeq([i \in DOMAIN items |-> IF "text" \in DOMAIN items[i] THEN items[i].text
                                     ELSE Numeral(items[i].value, items[i].base)])

Call(items) == [skip |-> FALSE, text |-> Text(items), items |-> items]

\* kpanic()
KpanicCalls == <<Call(<<[text |-> <<"K", "\n">>]>>), Call(<<[text |-> <<"M">>]>>)>>

\* handleCpuException(): most exceptions print their name, a page fault and a
\* protection fault printf the error code, and for a segment that is not
\* present the error code is print()'s skipLocking.
ExceptionCalls(kind, errorCode) ==
  LET name == Call(<<[text |-> <<"N">>]>>)
      reason == CASE kind = "name" -> name
                  [] kind = "code" -> Call(<<[text |-> <<"N">>], [value |-> errorCode, base |-> 16]>>)
                  [] kind = "NP" -> [name EXCEPT !.skip = errorCode # 0]
  IN  <<Call(<<[value |-> 9, base |-> 16]>>), reason>> \o KpanicCalls
-----------------------------------------------------------------------------
Init ==
  /\ screen = BlankScreen
  /\ lock = None
  /\ calls = [c \in CPUs |-> <<>>]
  /\ pc = [c \in CPUs |-> "run"]
  /\ dying = [c \in CPUs |-> FALSE]
  /\ events = 0 /\ log = <<>> /\ torn = FALSE

\* A thread calls print() or printf().
CallPrint(c, items) ==
  /\ pc[c] = "run" /\ events < MaxEvents
  /\ events' = events + 1
  /\ calls' = [calls EXCEPT ![c] = <<Call(items)>>]
  /\ pc' = [pc EXCEPT ![c] = "call"]
  /\ UNCHANGED <<screen, lock, dying, log, torn>>

Kpanic(c) ==
  /\ pc[c] = "run" /\ events < MaxEvents
  /\ calls' = [calls EXCEPT ![c] = KpanicCalls]
  /\ pc' = [pc EXCEPT ![c] = "call"]
  /\ dying' = [dying EXCEPT ![c] = TRUE]
  /\ events' = events + 1
  /\ UNCHANGED <<screen, lock, log, torn>>

\* An exception may come anywhere, also inside print(), where the CPU keeps
\* the lock.  (Bound: none inside a handler.)
Exception(c, kind, errorCode) ==
  /\ ~dying[c] /\ events < MaxEvents
  /\ calls' = [calls EXCEPT ![c] = ExceptionCalls(kind, errorCode)]
  /\ pc' = [pc EXCEPT ![c] = "call"]
  /\ dying' = [dying EXCEPT ![c] = TRUE]
  /\ events' = events + 1
  /\ UNCHANGED <<screen, lock, log, torn>>

Printing == {c \in CPUs : pc[c] = "loop"}

\* The text a reader expects of an item, numerals by their value.
Expected(item) ==
  IF "text" \in DOMAIN item THEN item.text
  ELSE LET value == item.value % 2^LongBits
           length == CHOOSE n \in 1 .. LongBits :
                       value < item.base ^ n /\ (n = 1 \/ value >= item.base ^ (n - 1))
       IN  [i \in 1 .. length |-> Digits[((value \div item.base ^ (length - i)) % item.base) + 1]]

ExpectedText(items) == FlattenSeq([i \in DOMAIN items |-> Expected(items[i])])

\* Mutant: print() does not take the lock.
EnterUnlocked(c) ==
  /\ pc[c] = "call" /\ calls[c] # <<>>
  /\ pc' = [pc EXCEPT ![c] = "loop"]
  /\ log' = log \o ExpectedText(Head(calls[c]).items)
  /\ torn' = torn
  /\ UNCHANGED <<screen, lock, calls, dying, events>>

\* consoleLock.acquire(), unless skipLocking.
Enter(c) ==
  /\ pc[c] = "call" /\ calls[c] # <<>>
  /\ Head(calls[c]).skip \/ lock = None
  /\ lock' = IF Head(calls[c]).skip THEN lock ELSE c
  /\ pc' = [pc EXCEPT ![c] = "loop"]
  /\ torn' = (torn \/ Printing # {})
  /\ log' = IF torn' THEN <<>> ELSE log \o ExpectedText(Head(calls[c]).items)
  /\ UNCHANGED <<screen, calls, dying, events>>

\* One iteration of the loop.  What two loops at a time leave on the screen is
\* not described: the data race has torn it.
PutCharacter(c) ==
  /\ pc[c] = "loop" /\ Head(calls[c]).text # <<>>
  /\ screen' = IF torn THEN screen ELSE Put(screen, Head(Head(calls[c]).text))
  /\ calls' = [calls EXCEPT ![c][1].text = Tail(@)]
  /\ UNCHANGED <<lock, pc, dying, events, log, torn>>

\* Mutant: the test of skipLocking is the wrong way round.
LeaveInverted(c) ==
  /\ pc[c] = "loop" /\ Head(calls[c]).text = <<>>
  /\ lock' = IF Head(calls[c]).skip THEN None ELSE lock
  /\ calls' = [calls EXCEPT ![c] = Tail(@)]
  /\ pc' = [pc EXCEPT ![c] = IF Len(calls[c]) > 1 THEN "call" ELSE IF dying[c] THEN "halted" ELSE "run"]
  /\ UNCHANGED <<screen, dying, events, log, torn>>

\* The end of print(): the lock is released, unless skipLocking, and the
\* caller goes on.
Leave(c) ==
  /\ pc[c] = "loop" /\ Head(calls[c]).text = <<>>
  /\ lock' = IF Head(calls[c]).skip THEN lock ELSE None
  /\ calls' = [calls EXCEPT ![c] = Tail(@)]
  /\ pc' = [pc EXCEPT ![c] = IF Len(calls[c]) > 1 THEN "call" ELSE IF dying[c] THEN "halted" ELSE "run"]
  /\ UNCHANGED <<screen, dying, events, log, torn>>

PrintStep(c) == Enter(c) \/ PutCharacter(c) \/ Leave(c)

Next == \E c \in CPUs :
  \/ PrintStep(c) \/ Kpanic(c)
  \/ \E items \in Formats : CallPrint(c, items)
  \/ \E kind \in {"name", "code", "NP"}, errorCode \in {0, 1} : Exception(c, kind, errorCode)

Spec == Init /\ [][Next]_vars

\* A CPU goes on executing; nothing more is assumed of the spinlock.
FairSpec == Spec /\ \A c \in CPUs : WF_vars(PrintStep(c))
-----------------------------------------------------------------------------
TypeOK ==
  /\ lock \in CPUs \cup {None}
  /\ pc \in [CPUs -> {"run", "call", "loop", "halted"}]
  /\ dying \in [CPUs -> BOOLEAN] /\ torn \in BOOLEAN
  /\ events \in 0 .. MaxEvents

\* What is printed stands on the console whole and in order: while no call is
\* in progress the screenBuffer and the cursor are those of a terminal to
\* which the texts of all calls were sent one after the other, wrapped,
\* scrolled and with numbers in their numerals.  An exception for a segment
\* that is not present may tear the text: it prints without the lock
\* (exceptionHandlers.cpp:78).  And the glass shows the screenBuffer at any time:
\* each cell the glyph of its character, all else black, while the back buffer,
\* from which copyRegion() scrolls, is what is on the screen.
ScreenShowsCalls ==
  /\ TypeOK
  /\ lock = None /\ Printing = {} /\ ~torn => Shows(screen, log)
  /\ screen.front = screen.back
  /\ screen.back = Drawn(screen)

\* A CPU that took an exception inside print() waits for its own lock, and so
\* does everyone else.
Stuck == \E c \in CPUs : lock = c /\ pc[c] = "call"

\* A CPU that panics or takes an exception prints all it has to say and halts,
\* unless the console is stuck.
PanicEnds == \A c \in CPUs : dying[c] ~> (pc[c] = "halted" \/ Stuck)
=============================================================================
