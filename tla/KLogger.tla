------------------------------ MODULE KLogger ------------------------------
(***************************************************************************)
(* The log: every thread appends its messages to one buffer, under its     *)
(* lock; a timer prints the buffer every three seconds; the first message  *)
(* of a day changes to another file.  The stream out is a field that the   *)
(* lock does not guard: the timer reads it and prints to it without.       *)
(*                                                                         *)
(* The threads that log hold nothing but the lock, so one record stands    *)
(* for whichever has it.  The timer's thread, the thread that stops the    *)
(* server and the clock go on beside it.  closeLog and openLog assign out  *)
(* and stderrUsed together: stderrUsed is out = Stderr.                    *)
(***************************************************************************)
EXTENDS Integers, Sequences

CONSTANTS
    MaxDays,        \* bound on the days
    MaxMessages     \* bound on the messages

ASSUME LoggerAssumption == MaxDays \in Nat \ {0} /\ MaxMessages \in Nat

Days == 1..MaxDays

Lives == {"down", "starting", "up", "cancelled", "printed", "closed", "off"}

\* A stream is named by the day of its file.
Stderr == 0
Closed == -1
None == -2
File == {Stderr} \cup Days

VARIABLES
    day,            \* the clock
    prevDays,       \* the field prevDays; 0 before start()
    logFileDate,    \* the field logFileDate, as a day
    out,            \* the field out
    messages,       \* the buffer
    count,          \* messages logged; each is named by its number
    loggedOn,       \* loggedOn[m]: the day on which m was logged
    handler,        \* the thread that holds the lock of messages
    flusher,        \* the thread of the timer, inside flushLog
    life,           \* of the logger: start() and shutdown()
    written         \* written[d]: what the file of day d holds, or stderr

lvars == <<prevDays, logFileDate, out>>
mvars == <<messages, count, loggedOn>>
vars == <<day, lvars, mvars, handler, flusher, life, written>>

NoFlush == [pc |-> "idle", hand |-> <<>>, aim |-> None]
Unlocked == [pc |-> "free", days |-> 0]

LoggerTypeOK ==
    /\ day \in Days
    /\ prevDays \in 0..MaxDays
    /\ logFileDate \in 0..MaxDays
    /\ out \in File \cup {Closed}
    /\ messages \in Seq(1..MaxMessages)
    /\ count \in 0..MaxMessages
    /\ loggedOn \in [1..count -> Days]
    /\ handler \in [pc : {"free", "closed", "dated", "append", "mail"}, days : 0..MaxDays]
    /\ flusher \in [ pc : {"idle", "started", "took", "aimed"}, hand : Seq(1..MaxMessages),
                     aim : File \cup {Closed, None} ]
    /\ life \in Lives
    /\ written \in [File -> Seq(1..MaxMessages)]

LoggerInit ==
    /\ day = 1
    /\ prevDays = 0
    /\ logFileDate = 0
    /\ out = Stderr
    /\ messages = <<>>
    /\ count = 0
    /\ loggedOn = <<>>
    /\ handler = Unlocked
    /\ flusher = NoFlush
    /\ life = "down"
    /\ written = [d \in File |-> <<>>]

NextDay ==
    /\ day < MaxDays
    /\ day' = day + 1
    /\ UNCHANGED <<lvars, mvars, handler, flusher, life, written>>

-----------------------------------------------------------------------------
(* Streams.                                                                *)

\* print to a stream: to one that is closed, it is lost without a word.
PrintTo(stream, text) ==
    written' = IF stream = Closed THEN written
               ELSE [written EXCEPT ![stream] = @ \o text]

\* out.close(), unless it is stderr; whoever has read the field out before
\* still holds the stream.
Close ==
    /\ out' = IF out = Stderr THEN Stderr ELSE Closed
    /\ flusher' = IF flusher.aim = out /\ out # Stderr
                  THEN [flusher EXCEPT !.aim = Closed] ELSE flusher

\* openLog with a date that is known: the file is opened, or it cannot be and
\* stderr is used.
OpenFile(date) == out' = date \/ out' = Stderr

\* start(): openLog finds no date.  It reads the clock for the date of the
\* file, and once more for the day it remembers, this once: midnight may fall
\* between the two.
StartDates ==
    /\ life = "down"
    /\ life' = "starting"
    /\ logFileDate' = day
    /\ UNCHANGED <<day, prevDays, out, mvars, handler, flusher, written>>

StartOpens ==
    /\ life = "starting"
    /\ life' = "up"
    /\ prevDays' = day
    /\ OpenFile(logFileDate)
    /\ UNCHANGED <<day, logFileDate, mvars, handler, flusher, written>>

start == StartDates \/ StartOpens

\* start() is the first thing the server does, before anything is logged.
Started == life \notin {"down", "starting"}

-----------------------------------------------------------------------------
(* handleMessage, under the lock of messages.                              *)

Locked(from) == handler.pc = from

\* A thread takes the lock and reads the clock; on the day of the last change
\* it goes on to append.
HandleMessage ==
    /\ Started /\ count < MaxMessages
    /\ Locked("free")
    /\ day <= prevDays
    /\ handler' = [pc |-> "append", days |-> day]
    /\ UNCHANGED <<day, lvars, mvars, flusher, life, written>>

\* Mutant: the buffer is printed but not cleared.
ChangeWithoutClear ==
    /\ Started /\ count < MaxMessages
    /\ Locked("free")
    /\ day > prevDays
    /\ PrintTo(out, messages)
    /\ Close
    /\ handler' = [pc |-> "closed", days |-> day]
    /\ UNCHANGED <<day, prevDays, logFileDate, mvars, life>>

\* Else it prints the buffer and closes the stream.
DayChanged ==
    /\ Started /\ count < MaxMessages
    /\ Locked("free")
    /\ day > prevDays
    /\ PrintTo(out, messages)
    /\ messages' = <<>>
    /\ Close
    /\ handler' = [pc |-> "closed", days |-> day]
    /\ UNCHANGED <<day, prevDays, logFileDate, count, loggedOn, life>>

\* Mutant: the old date stays.
KeepDate ==
    /\ Locked("closed")
    /\ out' = Stderr
    /\ handler' = [handler EXCEPT !.pc = "dated"]
    /\ UNCHANGED <<day, prevDays, logFileDate, mvars, flusher, life, written>>

\* The end of closeLog, and the new date.
SetDate ==
    /\ Locked("closed")
    /\ out' = Stderr
    /\ logFileDate' = day
    /\ handler' = [handler EXCEPT !.pc = "dated"]
    /\ UNCHANGED <<day, prevDays, mvars, flusher, life, written>>

\* openLog finds a date, and does not remember the day.
OpenNext ==
    /\ Locked("dated")
    /\ OpenFile(logFileDate)
    /\ handler' = [handler EXCEPT !.pc = "append"]
    /\ UNCHANGED <<day, prevDays, logFileDate, mvars, flusher, life, written>>

\* The message is appended; with an exception, it is also mailed before the
\* lock is released.
Append1 ==
    /\ Locked("append")
    /\ count' = count + 1
    /\ messages' = Append(messages, count + 1)
    /\ loggedOn' = Append(loggedOn, handler.days)
    /\ handler' \in {Unlocked, [handler EXCEPT !.pc = "mail"]}
    /\ UNCHANGED <<day, lvars, flusher, life, written>>

MailSent ==
    /\ Locked("mail")
    /\ handler' = Unlocked
    /\ UNCHANGED <<day, lvars, mvars, flusher, life, written>>

HandlerGoesOn == SetDate \/ OpenNext \/ Append1 \/ MailSent

-----------------------------------------------------------------------------
(* flushLog.                                                               *)

\* The timer starts a run while the logger is up; one that had started when it
\* was cancelled may still be waiting for the lock.
MayTake == (life = "up" /\ flusher.pc = "idle") \/ flusher.pc = "started"

\* Mutant: a single message is not worth a flush.
TakeMany ==
    /\ MayTake
    /\ Locked("free") /\ Len(messages) > 1
    /\ flusher' = [flusher EXCEPT !.pc = "took", !.hand = messages]
    /\ messages' = <<>>
    /\ UNCHANGED <<day, lvars, count, loggedOn, handler, life, written>>

\* Under the lock: the text is taken out of the buffer.
FlushTakes ==
    /\ MayTake
    /\ Locked("free") /\ messages # <<>>
    /\ flusher' = [flusher EXCEPT !.pc = "took", !.hand = messages]
    /\ messages' = <<>>
    /\ UNCHANGED <<day, lvars, count, loggedOn, handler, life, written>>

\* There is nothing to take.
FlushReturns ==
    /\ flusher.pc = "started"
    /\ Locked("free") /\ messages = <<>>
    /\ flusher' = NoFlush
    /\ UNCHANGED <<day, lvars, mvars, handler, life, written>>

\* Without the lock: the field out is read ...
FlushAims ==
    /\ flusher.pc = "took"
    /\ flusher' = [flusher EXCEPT !.pc = "aimed", !.aim = out]
    /\ UNCHANGED <<day, lvars, mvars, handler, life, written>>

\* Mutant: the buffer is cleared after it has been printed.
PrintThenClear ==
    /\ flusher.pc = "aimed"
    /\ PrintTo(flusher.aim, flusher.hand)
    /\ messages' = <<>>
    /\ flusher' = NoFlush
    /\ UNCHANGED <<day, lvars, count, loggedOn, handler, life>>

\* ... and the text is printed.
FlushPrints ==
    /\ flusher.pc = "aimed"
    /\ PrintTo(flusher.aim, flusher.hand)
    /\ flusher' = NoFlush
    /\ UNCHANGED <<day, lvars, mvars, handler, life>>

FlushGoesOn == FlushTakes \/ FlushReturns \/ FlushAims \/ FlushPrints

-----------------------------------------------------------------------------
(* shutdown(), without the lock, after a message of its own.               *)

\* The timer is cancelled; a run that has started goes on, and one may have
\* started that has not got the lock.
Cancel ==
    /\ life = "up" /\ count > 0
    /\ life' = "cancelled"
    /\ flusher' = flusher \/ (flusher.pc = "idle" /\ flusher' = [NoFlush EXCEPT !.pc = "started"])
    /\ UNCHANGED <<day, lvars, mvars, handler, written>>

\* The buffer is printed but not cleared.
ShutdownPrints ==
    /\ life = "cancelled"
    /\ life' = "printed"
    /\ PrintTo(out, messages)
    /\ UNCHANGED <<day, lvars, mvars, handler, flusher>>

ShutdownCloses ==
    /\ life = "printed"
    /\ life' = "closed"
    /\ Close
    /\ UNCHANGED <<day, prevDays, logFileDate, mvars, handler, written>>

ShutdownEnds ==
    /\ life = "closed"
    /\ life' = "off"
    /\ out' = Stderr
    /\ UNCHANGED <<day, prevDays, logFileDate, mvars, handler, flusher, written>>

shutdown == Cancel \/ ShutdownPrints \/ ShutdownCloses \/ ShutdownEnds

LoggerNext ==
    \/ NextDay
    \/ start
    \/ HandleMessage \/ DayChanged \/ HandlerGoesOn
    \/ FlushGoesOn
    \/ shutdown

\* The timer runs, and whoever holds the lock goes on (a mail ends).  Strong
\* for the timer: threads that log may take the lock away again and again.
LoggerSpec ==
    /\ LoggerInit /\ [][LoggerNext]_vars
    /\ WF_vars(HandlerGoesOn)
    /\ SF_vars(FlushGoesOn)

-----------------------------------------------------------------------------

Occurrences(m, s) == {i \in DOMAIN s : s[i] = m}

\* Up to the first midnight the log is complete and in order: what has been
\* printed, what the timer is printing and the buffer are all the messages,
\* although the timer prints without the lock (KLogger, lines 116-124).
CompleteUntilMidnight ==
    (life \in {"up", "cancelled"} /\ day = prevDays) =>
        written[out] \o flusher.hand \o messages = [m \in 1..count |-> m]

\* No message is logged twice, whoever prints the buffer: the timer, or the
\* thread that finds that the day has changed (lines 119-124 and 145-146);
\* only shutdown() prints what it leaves in the buffer (line 223).
LoggedOnce ==
    life \in {"up", "cancelled"} =>
        \A m \in 1..count :
            LET in(s) == Occurrences(m, s) # {} IN
            /\ \A d, e \in File : in(written[d]) /\ in(written[e]) => d = e
            /\ \A d \in File : \A i, j \in Occurrences(m, written[d]) : i = j
            /\ in(messages) => ~in(flusher.hand) /\ \A d \in File : ~in(written[d])
            /\ in(flusher.hand) => \A d \in File : ~in(written[d])

\* "Automatic switchover to next date" (line 36), as far as the code keeps it:
\* a message of a day that the log found to be a new one (line 144) is in no
\* file of an earlier day, for a thread that has the lock, one that prints
\* without, and one that stops the logger.  The day on which start() ends is
\* left out: it is never found to be new, and when midnight fell between the
\* two readings of start() its messages are in the file of the day before.
NeverInEarlierFile ==
    \A d \in Days : \A i \in DOMAIN written[d] :
        LET logged == loggedOn[written[d][i]] IN d >= logged \/ logged <= prevDays

\* Where a message is, whichever thread has it.
Of(text) == {text[i] : i \in DOMAIN text}
Filed == UNION {Of(written[d]) : d \in File}
Pending == (Of(flusher.hand) \cup Of(messages)) \ Filed
Lost == 1..count \ (Filed \cup Pending)

\* Before the server stops, up to the first midnight.
Calm == ~Started \/ (life \in {"up", "cancelled"} /\ day = prevDays)

\* Through all changes of files and the stop of the server, the log keeps the
\* promise of LogBook: what has been printed stays, what is lost never turns
\* up in a later file, and nothing is lost as long as the log is calm.
Book == INSTANCE LogBook WITH
    Messages <- 1..MaxMessages, pending <- Pending, filed <- Filed, lost <- Lost, calm <- Calm
KeepsLogBook == Book!Spec

\* A message does not stay in the buffer while the logger is up: the timer
\* takes it, or the change of the day prints it (lines 233-239).
Flushed ==
    \A m \in 1..MaxMessages :
        (life = "up" /\ Occurrences(m, messages) # {})
            ~> (life # "up" \/ Occurrences(m, messages) = {})

\* "Check if day has changed" (line 143): a stream is closed only when the day
\* it is dated with is over.
ChangesAtMidnight == handler.pc = "closed" => logFileDate < handler.days
=============================================================================
