------------------------------- MODULE Panel -------------------------------
(***************************************************************************)
(* The live panel of a transfer (progress.py, TransferDisplay) and what    *)
(* else is written to the same terminal while it is up: log lines of the   *)
(* transfer, which take the panel down first (echo), and the output of     *)
(* other code, which is caught by line proxies and put above it.  A thread *)
(* repaints the panel ten times a second.  Every block under the lock _io  *)
(* is one step; the panel is one item of the screen.                       *)
(***************************************************************************)
EXTENDS Naturals, Sequences, SequencesExt

CONSTANT MaxTexts    \* texts that are written to the terminal

VARIABLES screen,    \* what the terminal shows: texts, and the panel
          drawn,     \* _drawn: the display believes that its panel is up
          hidden,    \* the cursor is hidden
          suspended, \* _suspended
          stopping,  \* _stop is set
          caught,    \* sys.stderr is the proxy
          buf,       \* the text without a newline that the proxy holds
          main,      \* where the main thread is
          painter,   \* the repainting thread
          echo,      \* what the threads that log are doing, if anything
          worker,    \* another thread that writes: the stream it took, or "-"
          texts,     \* texts written so far
          struck,    \* where a second Ctrl-C hit the main thread
          late       \* something was written between the stop and its end

vars == <<screen, drawn, hidden, suspended, stopping, caught, buf,
          main, painter, echo, worker, texts, struck, late>>
Display == <<screen, drawn, hidden, suspended, stopping, caught, buf>>

ThePanel == 0        \* the item of the screen; texts are numbered from 1

Init ==
  /\ screen = <<>> /\ drawn = FALSE /\ hidden = FALSE /\ suspended = 0
  /\ stopping = FALSE /\ caught = FALSE /\ buf = <<>>
  /\ main = "start" /\ painter = "off" /\ worker = "-"
  /\ echo = [t \in {"main", "reporter"} |-> "-"]
  /\ texts = 0 /\ struck = "-" /\ late = FALSE

-----------------------------------------------------------------------------
(* The terminal.  Home goes up as many rows as the panel has and overwrites  *)
(* what is there, be it the panel or not.                                    *)
Painted(s)  == IF drawn THEN Append(Front(s), ThePanel) ELSE Append(s, ThePanel)
Restored(s) == IF drawn THEN Front(s) ELSE s

\* emit_above: above the panel, if it is up and neither suspended nor stopping.
EmitAbove(text) ==
  IF drawn /\ suspended = 0 /\ ~stopping
  THEN /\ screen' = Restored(screen) \o <<text, ThePanel>>
       /\ UNCHANGED late
  ELSE /\ screen' = Append(screen, text)
       /\ late' = (late \/ (stopping /\ drawn))

-----------------------------------------------------------------------------
(* start hides the cursor, catches the streams and starts the painter; the   *)
(* main thread paints the first panel.                                       *)
Prepare ==
  /\ main = "start" /\ main' = "starting"
  /\ hidden' = TRUE /\ caught' = TRUE
  /\ UNCHANGED <<screen, drawn, suspended, stopping, buf, painter, echo, worker, texts, struck, late>>

Start ==
  /\ main = "starting" /\ main' = "run" /\ painter' = "wait"
  /\ screen' = Painted(screen) /\ drawn' = TRUE
  /\ UNCHANGED <<hidden, suspended, stopping, caught, buf, echo, worker, texts, struck, late>>

(* echo, by the main thread and by the reporter of a board (board.py): the   *)
(* panel is taken down by the first and put up again by the last of them.    *)
Suspend(t) ==
  /\ echo[t] = "-" /\ texts < MaxTexts /\ main \notin {"start", "starting"}
  /\ t = "main" => main = "run" /\ struck = "-"
  /\ echo' = [echo EXCEPT ![t] = "print"] /\ suspended' = suspended + 1
  /\ IF suspended = 0
     THEN screen' = Restored(screen) /\ drawn' = FALSE /\ hidden' = FALSE
     ELSE UNCHANGED <<screen, drawn, hidden>>
  /\ UNCHANGED <<stopping, caught, buf, main, painter, worker, texts, struck, late>>

\* print goes to the proxy, which finds the panel suspended.
Echo(t) ==
  /\ echo[t] = "print" /\ echo' = [echo EXCEPT ![t] = "resume"]
  /\ texts < MaxTexts /\ texts' = texts + 1 /\ EmitAbove(texts + 1)
  /\ UNCHANGED <<drawn, hidden, suspended, stopping, caught, buf, main, painter, worker, struck>>

\* Mutated: the first one to be done puts the panel up.
ResumesFirst == ~stopping
Resumes == suspended = 1 /\ ~stopping

Resume(t) ==
  /\ echo[t] = "resume" /\ echo' = [echo EXCEPT ![t] = "-"]
  /\ suspended' = suspended - 1
  /\ IF Resumes
     THEN screen' = Painted(screen) /\ drawn' = TRUE /\ hidden' = TRUE
     ELSE UNCHANGED <<screen, drawn, hidden>>
  /\ UNCHANGED <<stopping, caught, buf, main, painter, worker, texts, struck, late>>

\* _live_transfer: the transfer is complete, paused, or has failed.
TransferEnds == main = "run" /\ echo["main"] = "-"

\* stop.  The pools are shut down before it, unless a second Ctrl-C struck.
Stop ==
  /\ TransferEnds /\ (worker = "-" \/ struck # "-")
  /\ stopping' = TRUE /\ main' = "join"
  /\ UNCHANGED <<screen, drawn, hidden, suspended, caught, buf, painter, echo, worker, texts, struck, late>>

\* The join gives up after a second.
Join ==
  /\ main = "join" /\ main' = "release"
  /\ UNCHANGED <<Display, painter, echo, worker, texts, struck, late>>

Drain ==
  /\ buf' = <<>>
  /\ IF buf = <<>> THEN UNCHANGED <<screen, late>> ELSE EmitAbove(buf[1])

Release ==
  /\ main = "release" /\ main' = "restore" /\ caught' = FALSE
  /\ Drain
  /\ UNCHANGED <<drawn, hidden, suspended, stopping, painter, echo, worker, texts, struck>>

Restore ==
  /\ main = "restore" /\ main' = "left"
  /\ screen' = Restored(screen) /\ drawn' = FALSE /\ hidden' = FALSE
  /\ UNCHANGED <<suspended, stopping, caught, buf, painter, echo, worker, texts, struck, late>>

\* A second Ctrl-C raises KeyboardInterrupt in the main thread: the transfer
\* ends, after echo has resumed the panel, and with start or stop under way
\* nothing more is done.
Strike ==
  /\ struck = "-" /\ main \notin {"start", "left"}
  /\ struck' = main
  /\ IF main = "run"
     THEN /\ echo' = [echo EXCEPT !["main"] = IF @ = "-" THEN "-" ELSE "resume"]
          /\ UNCHANGED main
     ELSE main' = "left" /\ UNCHANGED echo
  /\ UNCHANGED <<Display, painter, worker, texts, late>>

-----------------------------------------------------------------------------
(* The thread that repaints: a tick, the snapshot, and the paint.            *)
Tick ==
  /\ painter = "wait"
  /\ painter' = IF stopping THEN "off" ELSE "refresh"
  /\ UNCHANGED <<Display, main, echo, worker, texts, struck, late>>

\* Mutated: a refresh that has begun is painted.
MayPaintLate == suspended = 0
MayPaint == suspended = 0 /\ ~stopping

Refresh ==
  /\ painter = "refresh" /\ painter' = "wait"
  /\ IF MayPaint THEN screen' = Painted(screen) /\ drawn' = TRUE
                 ELSE UNCHANGED <<screen, drawn>>
  /\ UNCHANGED <<hidden, suspended, stopping, caught, buf, main, echo, worker, texts, struck, late>>

-----------------------------------------------------------------------------
(* Another thread writes to stderr: it takes the stream that is there, and   *)
(* its text has a newline at the end or not.                                 *)
Take ==
  /\ worker = "-" /\ texts < MaxTexts
  /\ main = "run" /\ struck = "-"
  /\ worker' = "proxy"
  /\ UNCHANGED <<Display, main, painter, echo, texts, struck, late>>

Write ==
  /\ worker = "proxy" /\ worker' = "-" /\ texts < MaxTexts /\ texts' = texts + 1
  /\ \/ /\ EmitAbove(texts + 1) /\ UNCHANGED buf
     \/ /\ buf = <<>> /\ buf' = <<texts + 1>> /\ UNCHANGED <<screen, late>>
  /\ UNCHANGED <<drawn, hidden, suspended, stopping, caught, main, painter, echo, struck>>

\* The newline comes after all.
WriteNewline ==
  /\ main = "run" /\ struck = "-"
  /\ buf # <<>> /\ buf' = <<>> /\ EmitAbove(buf[1])
  /\ UNCHANGED <<drawn, hidden, suspended, stopping, caught, main, painter, echo, worker, texts, struck>>

Next ==
  \/ Prepare \/ Start \/ Stop \/ Join \/ Release \/ Restore \/ Strike
  \/ \E t \in DOMAIN echo : Suspend(t) \/ Echo(t) \/ Resume(t)
  \/ Tick \/ Refresh
  \/ Take \/ Write \/ WriteNewline

Spec == Init /\ [][Next]_vars

-----------------------------------------------------------------------------
Texts(s) == SelectSeq(s, LAMBDA x : x # ThePanel)

(* No text that reached the terminal is overwritten by the panel or moved,   *)
(* and the panel never stays behind in the scrollback: whatever the main     *)
(* thread, the painter and another writer do in whatever order, except for   *)
(* what is written after the stop began and before the panel is taken down,  *)
(* which emit_above puts under the panel (progress.py:933-974).              *)
Stands(s, t) == \A i \in DOMAIN s : IF s[i] = ThePanel THEN i = Len(s)
                                    ELSE i \in DOMAIN t /\ t[i] = s[i]
TextStands == [][late \/ Stands(screen, screen')]_vars

(* When the display is gone the terminal is as it was: no panel, the cursor  *)
(* visible, stderr its own - also if the painter outlived the join - unless  *)
(* a second Ctrl-C struck its start or stop, which nothing completes         *)
(* (progress.py:933-948, transfer.py:528-550).                               *)
TerminalGivenBack ==
  main = "left" =>
    \/ struck \in {"starting", "join", "release", "restore"}
    \/ /\ ~hidden /\ ~caught /\ ~drawn
       /\ late \/ \A i \in DOMAIN screen : screen[i] # ThePanel

(* "While the panel is live any other output aimed at the terminal ... is    *)
(* captured and printed above it instead of tearing through it"              *)
(* (docs/INCREMENTAL.md:195-198).                                            *)
NothingIsTorn ==
  main = "left" /\ struck = "-" => Len(Texts(screen)) = texts
=============================================================================
