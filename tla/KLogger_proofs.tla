--------------------------- MODULE KLogger_proofs ---------------------------
(***************************************************************************)
(* Theorems about KLogger, for any number of days and messages.            *)
(***************************************************************************)
EXTENDS KLogger, SequenceTheorems, TLAPS

\* The messages named in the buffer, by the timer and in the files have been
\* logged; a thread on its way to append has room for its message.
TextsOK ==
    /\ LoggerTypeOK
    /\ loggedOn \in Seq(Days) /\ Len(loggedOn) = count
    /\ messages \in Seq(1..count)
    /\ flusher.hand \in Seq(1..count)
    /\ written \in [File -> Seq(1..count)]
    /\ handler.pc \in {"closed", "dated", "append"}
         => count < MaxMessages /\ handler.days \in Days /\ Started

LEMMA TextsInit == LoggerInit => TextsOK
<1> SUFFICES ASSUME LoggerInit
             PROVE  TextsOK
  OBVIOUS
<1> USE LoggerAssumption DEF LoggerAssumption, LoggerInit, NoFlush, Unlocked, File, Days, Stderr
<1>1. /\ <<>> \in Seq(1..MaxMessages) /\ <<>> \in Seq(Days) /\ <<>> \in Seq(1..count)
      /\ Len(<<>>) = 0
  BY EmptySeq
<1>2. loggedOn \in [1..count -> Days]
  OBVIOUS
<1> QED
  BY <1>1, <1>2 DEF TextsOK, LoggerTypeOK, Lives, Started

\* A message that has been logged is one of the possible messages.
LEMMA TextWidens ==
    ASSUME NEW m \in Nat, NEW n \in Nat, m <= n, NEW s \in Seq(1..m)
    PROVE  s \in Seq(1..n)
<1>1. 1..m \subseteq 1..n
  OBVIOUS
<1> QED
  BY <1>1, SeqMonotonic

LEMMA PrintText ==
    ASSUME TextsOK, NEW stream \in File \cup {Closed}, NEW text \in Seq(1..count),
           PrintTo(stream, text)
    PROVE  written' \in [File -> Seq(1..count)]
<1>1. ASSUME NEW d \in File
      PROVE  written[d] \o text \in Seq(1..count)
  <2>1. written[d] \in Seq(1..count)
    BY DEF TextsOK
  <2> QED
    BY <2>1, ConcatProperties
<1>2. CASE stream = Closed
  BY <1>2 DEF PrintTo, TextsOK
<1>3. CASE stream # Closed
  <2>1. written' = [written EXCEPT ![stream] = written[stream] \o text]
    BY <1>3 DEF PrintTo
  <2> QED
    BY <1>1, <1>3, <2>1 DEF TextsOK
<1> QED
  BY <1>2, <1>3

\* out.close() changes nothing but where the timer is about to print.
LEMMA CloseStream ==
    ASSUME TextsOK, Close
    PROVE  /\ out' \in File \cup {Closed} /\ out' \in {Stderr, Closed}
           /\ flusher'.hand = flusher.hand /\ flusher'.pc = flusher.pc
           /\ flusher'.aim \in {flusher.aim, Closed}
           /\ flusher' \in [ pc : {"idle", "started", "took", "aimed"}, hand : Seq(1..MaxMessages),
                             aim : File \cup {Closed, None} ]
BY DEF TextsOK, LoggerTypeOK, Close, File

\* What a step that logs no message has to keep.
LEMMA SameCount ==
    ASSUME TextsOK, UNCHANGED <<count, loggedOn>>,
           day' \in Days, prevDays' \in 0..MaxDays, logFileDate' \in 0..MaxDays,
           out' \in File \cup {Closed},
           messages' \in Seq(1..count),
           handler' \in [pc : {"free", "closed", "dated", "append", "mail"}, days : 0..MaxDays],
           flusher'.hand \in Seq(1..count),
           flusher' \in [ pc : {"idle", "started", "took", "aimed"}, hand : Seq(1..MaxMessages),
                          aim : File \cup {Closed, None} ],
           life' \in Lives,
           written' \in [File -> Seq(1..count)],
           handler'.pc \in {"closed", "dated", "append"}
             => count < MaxMessages /\ handler'.days \in Days /\ Started'
    PROVE  TextsOK'
<1>1. count \in Nat /\ count <= MaxMessages /\ MaxMessages \in Nat
  BY LoggerAssumption DEF LoggerAssumption, TextsOK, LoggerTypeOK
<1>2. \A s \in Seq(1..count) : s \in Seq(1..MaxMessages)
  BY <1>1, TextWidens
<1>3. messages' \in Seq(1..MaxMessages) /\ written' \in [File -> Seq(1..MaxMessages)]
  BY <1>2
<1> QED
  BY <1>3 DEF TextsOK, LoggerTypeOK

LEMMA TextsNext ==
    ASSUME TextsOK, [LoggerNext]_vars
    PROVE  TextsOK'
<1> USE DEF lvars, mvars, Started
<1>0. /\ day \in Days /\ prevDays \in 0..MaxDays /\ logFileDate \in 0..MaxDays
      /\ out \in File \cup {Closed} /\ count \in 0..MaxMessages
      /\ messages \in Seq(1..count) /\ flusher.hand \in Seq(1..count)
      /\ written \in [File -> Seq(1..count)]
      /\ handler \in [pc : {"free", "closed", "dated", "append", "mail"}, days : 0..MaxDays]
      /\ flusher \in [ pc : {"idle", "started", "took", "aimed"}, hand : Seq(1..MaxMessages),
                       aim : File \cup {Closed, None} ]
      /\ life \in Lives
      /\ handler.pc \in {"closed", "dated", "append"}
           => count < MaxMessages /\ handler.days \in Days /\ Started
      /\ Days \subseteq 0..MaxDays /\ Days \subseteq File /\ Stderr \in File
      /\ MaxMessages \in Nat /\ MaxDays \in Nat
  BY LoggerAssumption DEF LoggerAssumption, TextsOK, LoggerTypeOK, Days, File, Stderr
<1>e. <<>> \in Seq(1..count)
  BY EmptySeq
<1>1. CASE NextDay
  BY <1>0, <1>1, SameCount DEF NextDay, Days
<1>2. CASE StartDates
  BY <1>0, <1>2, SameCount DEF StartDates, Lives
<1>2o. CASE StartOpens
  <2>1. out' \in File
    <3>1. logFileDate \in Days \cup {0}
      BY <1>0 DEF Days
    <3> QED
      BY <1>0, <1>2o, <3>1 DEF StartOpens, OpenFile, File, Stderr
  <2> QED
    BY <1>0, <1>2o, <2>1, SameCount DEF StartOpens, Lives
<1>3. CASE HandleMessage
  BY <1>0, <1>3, SameCount DEF HandleMessage, Started
<1>4. CASE DayChanged
  <2>1. written' \in [File -> Seq(1..count)]
    BY <1>0, <1>4, PrintText DEF DayChanged
  <2>2. handler' = [pc |-> "closed", days |-> day] /\ count < MaxMessages /\ Started
    BY <1>4 DEF DayChanged, Started
  <2> QED
    BY <1>0, <1>e, <1>4, <2>1, <2>2, CloseStream, SameCount DEF DayChanged
<1>5. CASE SetDate
  <2>1. /\ handler' = [handler EXCEPT !.pc = "dated"] /\ handler.pc = "closed"
        /\ logFileDate' \in 0..MaxDays /\ out' \in File
        /\ UNCHANGED <<day, prevDays, mvars, flusher, life, written>>
    BY <1>0, <1>5 DEF SetDate, Locked
  <2> QED
    BY <1>0, <2>1, SameCount
<1>M. CASE MailSent
  BY <1>0, <1>M, SameCount DEF MailSent, Unlocked
<1>6. CASE OpenNext
  <2>1. logFileDate \in Days \cup {0} /\ out' \in File
    BY <1>0, <1>6 DEF OpenNext, OpenFile, Days, File, Stderr
  <2> QED
    BY <1>0, <1>6, <2>1, SameCount DEF OpenNext, Locked
<1>7. CASE Append1
  <2>1. /\ count' = count + 1 /\ messages' = Append(messages, count + 1)
        /\ loggedOn' = Append(loggedOn, handler.days)
        /\ handler' \in {Unlocked, [handler EXCEPT !.pc = "mail"]}
        /\ UNCHANGED <<day, lvars, flusher, life, written>>
        /\ handler.days \in Days /\ count < MaxMessages
    BY <1>0, <1>7 DEF Append1, Locked
  <2>2. count' \in 0..MaxMessages /\ count + 1 \in 1..MaxMessages /\ count + 1 \in 1..(count + 1)
    <3>1. count \in 0..MaxMessages /\ MaxMessages \in Nat /\ count' = count + 1 /\ count < MaxMessages
      BY <1>0, <2>1
    <3> QED
      BY <3>1
  <2>3. \A s \in Seq(1..count) : s \in Seq(1..(count + 1)) /\ s \in Seq(1..MaxMessages)
    BY <1>0, <2>2, TextWidens
  <2>4. messages' \in Seq(1..count') /\ messages' \in Seq(1..MaxMessages)
    BY <1>0, <2>1, <2>2, <2>3, AppendProperties
  <2>5. loggedOn' \in Seq(Days) /\ Len(loggedOn') = count'
    BY <2>1, AppendProperties DEF TextsOK
  <2>6. loggedOn' \in [1..count' -> Days]
    BY <2>5, LenProperties
  <2>7. written' \in [File -> Seq(1..count')] /\ flusher'.hand \in Seq(1..count')
    BY <1>0, <2>1, <2>3
  <2>8. /\ handler' \in [pc : {"free", "closed", "dated", "append", "mail"}, days : 0..MaxDays]
        /\ handler'.pc \in {"free", "mail"}
    <3>1. Unlocked \in [pc : {"free", "mail"}, days : 0..MaxDays]
      BY <1>0 DEF Unlocked
    <3>2. [handler EXCEPT !.pc = "mail"] \in [pc : {"free", "mail"}, days : 0..MaxDays]
      BY <1>0
    <3> QED
      BY <2>1, <3>1, <3>2
  <2> QED
    BY <1>0, <2>1, <2>2, <2>3, <2>4, <2>5, <2>6, <2>7, <2>8 DEF TextsOK, LoggerTypeOK
<1>8. CASE FlushTakes
  <2>1. flusher' = [flusher EXCEPT !.pc = "took", !.hand = messages]
    BY <1>8 DEF FlushTakes
  <2>2. messages \in Seq(1..MaxMessages)
    BY DEF TextsOK, LoggerTypeOK
  <2> QED
    BY <1>0, <1>e, <1>8, <2>1, <2>2, SameCount DEF FlushTakes
<1>8r. CASE FlushReturns
  BY <1>0, <1>e, <1>8r, SameCount DEF FlushReturns, NoFlush
<1>9. CASE FlushAims
  BY <1>0, <1>9, SameCount DEF FlushAims
<1>10. CASE FlushPrints
  <2>0. NoFlush \in [ pc : {"idle", "started", "took", "aimed"}, hand : Seq(1..MaxMessages),
                      aim : File \cup {Closed, None} ]
    BY EmptySeq DEF NoFlush
  <2>1. CASE flusher.aim = None
    <3>1. written' = [written EXCEPT ![None] = @ \o flusher.hand]
      BY <1>10, <2>1 DEF FlushPrints, PrintTo, None, Closed
    <3>2. None \notin File
      BY <1>0 DEF None, File, Stderr, Days
    <3>3. written' = written
      BY <1>0, <3>1, <3>2
    <3> QED
      BY <1>0, <1>e, <1>10, <2>0, <3>3, SameCount DEF FlushPrints, NoFlush
  <2>2. CASE flusher.aim # None
    <3>1. written' \in [File -> Seq(1..count)]
      BY <1>0, <1>10, <2>2, PrintText DEF FlushPrints
    <3> QED
      BY <1>0, <1>e, <1>10, <2>0, <3>1, SameCount DEF FlushPrints, NoFlush
  <2> QED
    BY <2>1, <2>2
<1>11. CASE Cancel
  <2>1. /\ life' = "cancelled" /\ flusher'.hand \in Seq(1..count)
        /\ UNCHANGED <<day, lvars, mvars, handler, written>>
    BY <1>0, <1>e, <1>11 DEF Cancel, NoFlush
  <2>2. flusher' \in [ pc : {"idle", "started", "took", "aimed"}, hand : Seq(1..MaxMessages),
                       aim : File \cup {Closed, None} ]
    <3>1. <<>> \in Seq(1..MaxMessages)
      BY EmptySeq
    <3>2. [pc |-> "started", hand |-> <<>>, aim |-> None]
            \in [ pc : {"idle", "started", "took", "aimed"}, hand : Seq(1..MaxMessages),
                  aim : File \cup {Closed, None} ]
      BY <3>1
    <3>3. [NoFlush EXCEPT !.pc = "started"] = [pc |-> "started", hand |-> <<>>, aim |-> None]
      BY DEF NoFlush
    <3> QED
      BY <1>0, <1>11, <3>2, <3>3 DEF Cancel
  <2> QED
    BY <1>0, <2>1, <2>2, SameCount DEF Lives
<1>12. CASE ShutdownPrints
  <2>1. written' \in [File -> Seq(1..count)]
    BY <1>0, <1>12, PrintText DEF ShutdownPrints
  <2> QED
    BY <1>0, <1>12, <2>1, SameCount DEF ShutdownPrints, Lives
<1>13. CASE ShutdownCloses
  BY <1>0, <1>13, CloseStream, SameCount DEF ShutdownCloses, Lives
<1>14. CASE ShutdownEnds
  BY <1>0, <1>14, SameCount DEF ShutdownEnds, Lives
<1>15. CASE UNCHANGED vars
  BY <1>0, <1>15, SameCount DEF vars
<1> QED
  BY <1>1, <1>2, <1>3, <1>4, <1>5, <1>6, <1>7, <1>8, <1>9, <1>10, <1>11, <1>12, <1>13,
     <1>14, <1>15, <1>M, <1>2o, <1>8r
  DEF LoggerNext, start, HandlerGoesOn, FlushGoesOn, shutdown

\* Type correctness of the logger.
THEOREM LoggerTypeCorrect == LoggerSpec => []LoggerTypeOK
<1>1. TextsOK /\ [LoggerNext]_vars => TextsOK'
  BY TextsNext
<1>2. TextsOK => LoggerTypeOK
  BY DEF TextsOK
<1> QED
  BY <1>1, <1>2, TextsInit, PTL DEF LoggerSpec

-----------------------------------------------------------------------------
(* The file of a message.                                                  *)

\* Every message of a text was logged by day d, or on the day start() ended.
By(logged, d) == logged <= d \/ logged <= prevDays
LoggedBy(d, text) == \A i \in DOMAIN text : By(loggedOn[text[i]], d)

\* The date of the open file is behind no message of a later day that has been
\* logged, nor behind the one that is to be appended; it is never ahead of the
\* clock.
PlacedOK ==
    /\ TextsOK
    /\ prevDays <= day /\ logFileDate <= day
    /\ out \in Days => out = logFileDate
    /\ ~Started => out = Stderr
    /\ handler.pc = "closed" => handler.days <= day
    /\ handler.pc \in {"dated", "append"} => By(handler.days, logFileDate)
    /\ \A m \in 1..count : By(loggedOn[m], logFileDate)
    /\ flusher.pc # "aimed" => flusher.aim \notin Days
    /\ flusher.aim \in Days => LoggedBy(flusher.aim, flusher.hand)
    /\ \A d \in Days : LoggedBy(d, written[d])

\* Printing a text keeps the files in their days when the text is.
LEMMA PrintKeepsDays ==
    ASSUME TextsOK, NEW stream, NEW text \in Seq(1..count),
           PrintTo(stream, text), UNCHANGED <<loggedOn, prevDays>>,
           \A d \in Days : LoggedBy(d, written[d]),
           stream \in Days => LoggedBy(stream, text)
    PROVE  \A d \in Days : LoggedBy(d, written[d])'
<1> SUFFICES ASSUME NEW d \in Days
             PROVE  LoggedBy(d, written[d])'
  OBVIOUS
<1>0. /\ d \in File /\ written[d] \in Seq(1..count) /\ d # Closed
      /\ written \in [File -> Seq(1..count)]
  <2>1. d \in File /\ d \in Nat
    BY DEF File, Days
  <2>2. written \in [File -> Seq(1..count)]
    BY DEF TextsOK
  <2> QED
    BY <2>1, <2>2 DEF Closed
<1>1. CASE stream # d \/ stream = Closed
  <2>1. written'[d] = written[d]
    BY <1>0, <1>1 DEF PrintTo
  <2> QED
    BY <2>1 DEF LoggedBy, By
<1>2. CASE stream = d
  <2>1. written'[d] = written[d] \o text
    BY <1>0, <1>2 DEF PrintTo
  <2>2. SUFFICES ASSUME NEW i \in DOMAIN (written[d] \o text)
                 PROVE  By(loggedOn[(written[d] \o text)[i]], d)
    BY <2>1 DEF LoggedBy, By
  <2>3. /\ i \in 1..(Len(written[d]) + Len(text))
        /\ Len(written[d]) \in Nat /\ Len(text) \in Nat
        /\ DOMAIN written[d] = 1..Len(written[d]) /\ DOMAIN text = 1..Len(text)
        /\ (written[d] \o text)[i] = IF i <= Len(written[d]) THEN written[d][i]
                                     ELSE text[i - Len(written[d])]
    BY <1>0, <2>2, ConcatProperties, LenProperties
  <2>4. CASE i <= Len(written[d])
    BY <2>3, <2>4 DEF LoggedBy
  <2>5. CASE i > Len(written[d])
    BY <1>2, <2>3, <2>5 DEF LoggedBy
  <2> QED
    BY <2>3, <2>4, <2>5
<1> QED
  BY <1>1, <1>2

\* A text made of messages logged by a day was logged by that day.
LEMMA BufferLoggedBy ==
    ASSUME TextsOK, NEW d, NEW text \in Seq(1..count),
           \A m \in 1..count : By(loggedOn[m], d)
    PROVE  LoggedBy(d, text)
<1>1. \A i \in DOMAIN text : text[i] \in 1..count
  BY LenProperties, ElementOfSeq
<1> QED
  BY <1>1 DEF LoggedBy

LEMMA PlacedInit == LoggerInit => PlacedOK
<1> SUFFICES ASSUME LoggerInit
             PROVE  PlacedOK
  OBVIOUS
<1>1. TextsOK
  BY TextsInit
<1>2. /\ out \notin Days /\ None \notin Days /\ Days \subseteq File
  BY LoggerAssumption DEF LoggerAssumption, LoggerInit, Days, File, Stderr, None
<1>3. \A d : LoggedBy(d, <<>>)
  BY EmptySeq DEF LoggedBy
<1> QED
  BY <1>1, <1>2, <1>3 DEF PlacedOK, LoggerInit, NoFlush, Unlocked, Started

\* What a step has to keep that prints nothing and logs nothing.
LEMMA SamePlaces ==
    ASSUME PlacedOK, TextsOK', UNCHANGED <<count, loggedOn, written>>,
           prevDays <= prevDays', prevDays' <= day',
           logFileDate <= logFileDate', logFileDate' <= day',
           out' \in Days => out' = logFileDate',
           ~Started' => out' = Stderr,
           handler'.pc = "closed" => handler'.days <= day',
           handler'.pc \in {"dated", "append"}
             => handler'.days <= logFileDate' \/ handler'.days <= prevDays',
           flusher'.pc # "aimed" => flusher'.aim \notin Days,
           flusher'.aim \in Days => LoggedBy(flusher'.aim, flusher'.hand)
    PROVE  PlacedOK'
<1>0. /\ \A m \in 1..count : loggedOn[m] \in Int
      /\ logFileDate \in Int /\ logFileDate' \in Int /\ prevDays \in Int /\ prevDays' \in Int
  BY LoggerAssumption DEF LoggerAssumption, PlacedOK, TextsOK, LoggerTypeOK, Days
<1>1. \A m \in 1..count : loggedOn[m] <= logFileDate' \/ loggedOn[m] <= prevDays'
  BY <1>0 DEF PlacedOK, By
<1>2. ASSUME NEW d, NEW text \in Seq(1..count), LoggedBy(d, text)
      PROVE  \A i \in DOMAIN text : loggedOn[text[i]] <= d \/ loggedOn[text[i]] <= prevDays'
  <2>1. \A i \in DOMAIN text : text[i] \in 1..count
    BY LenProperties, ElementOfSeq
  <2> QED
    BY <1>0, <1>2, <2>1 DEF LoggedBy, By
<1>3. \A d \in Days : LoggedBy(d, written[d])'
  <2>1. \A d \in Days : written[d] \in Seq(1..count)
    BY DEF PlacedOK, TextsOK, File
  <2> QED
    BY <1>2, <2>1 DEF PlacedOK, LoggedBy, By
<1>4. (flusher.aim \in Days => LoggedBy(flusher.aim, flusher.hand))'
  <2>1. flusher'.hand \in Seq(1..count)
    BY DEF TextsOK
  <2> QED
    BY <1>2, <2>1 DEF LoggedBy, By
<1> QED
  BY <1>1, <1>3, <1>4 DEF PlacedOK, By

LEMMA PlacedNext ==
    ASSUME PlacedOK, [LoggerNext]_vars
    PROVE  PlacedOK'
<1> USE DEF lvars, mvars
<1>t. TextsOK /\ TextsOK'
  BY TextsNext DEF PlacedOK
<1>0. /\ day \in Nat /\ prevDays \in Nat /\ logFileDate \in Nat /\ count \in Nat
      /\ handler.days \in Int
      /\ messages \in Seq(1..count) /\ flusher.hand \in Seq(1..count)
      /\ prevDays <= day /\ logFileDate <= day
      /\ out \in Days => out = logFileDate
      /\ handler.pc = "closed" => handler.days <= day
      /\ ~Started => out = Stderr
      /\ handler.pc \in {"dated", "append"} => By(handler.days, logFileDate)
      /\ \A m \in 1..count : By(loggedOn[m], logFileDate)
      /\ flusher.pc # "aimed" => flusher.aim \notin Days
      /\ flusher.aim \in Days => LoggedBy(flusher.aim, flusher.hand)
      /\ \A d \in Days : LoggedBy(d, written[d])
      /\ Stderr \notin Days /\ Closed \notin Days /\ None \notin Days
      /\ handler \in [pc : {"free", "closed", "dated", "append", "mail"}, days : 0..MaxDays]
      /\ flusher \in [ pc : {"idle", "started", "took", "aimed"}, hand : Seq(1..MaxMessages),
                       aim : File \cup {Closed, None} ]
  BY <1>t, LoggerAssumption
  DEF LoggerAssumption, PlacedOK, TextsOK, LoggerTypeOK, Days, Stderr, Closed, None
<1>1. CASE NextDay
  BY <1>0, <1>1, <1>t, SamePlaces DEF NextDay, Started, By
<1>2. CASE StartDates
  BY <1>0, <1>2, <1>t, SamePlaces DEF StartDates, Started, By
<1>2o. CASE StartOpens
  BY <1>0, <1>2o, <1>t, SamePlaces DEF StartOpens, OpenFile, Started, By
<1>3. CASE HandleMessage
  BY <1>0, <1>3, <1>t, SamePlaces DEF HandleMessage, Started
<1>4. CASE DayChanged
  <2>1. out \in Days => LoggedBy(out, messages)
    BY <1>0, <1>t, BufferLoggedBy
  <2>2. \A d \in Days : LoggedBy(d, written[d])'
    BY <1>0, <1>4, <1>t, <2>1, PrintKeepsDays DEF DayChanged
  <2>3. /\ out' \notin Days
        /\ flusher'.aim \in Days => flusher'.aim = flusher.aim
        /\ flusher'.hand = flusher.hand /\ flusher'.pc = flusher.pc
    BY <1>0, <1>4, <1>t, CloseStream DEF DayChanged
  <2>4. UNCHANGED <<loggedOn, count, day, prevDays, logFileDate>>
        /\ handler' = [pc |-> "closed", days |-> day] /\ Started'
    BY <1>4 DEF DayChanged, Started
  <2>5. (flusher.aim \in Days => LoggedBy(flusher.aim, flusher.hand))'
    BY <1>0, <2>3, <2>4 DEF LoggedBy, By
  <2> QED
    BY <1>0, <1>t, <2>2, <2>3, <2>4, <2>5 DEF PlacedOK, By
<1>5. CASE SetDate
  <2>1. /\ handler' = [handler EXCEPT !.pc = "dated"] /\ handler.pc = "closed"
        /\ logFileDate' = day /\ out' = Stderr
        /\ UNCHANGED <<day, prevDays, mvars, flusher, life, written>>
    BY <1>5 DEF SetDate, Locked
  <2> QED
    BY <1>0, <1>t, <2>1, SamePlaces DEF By
<1>6. CASE OpenNext
  <2>1. /\ handler' = [handler EXCEPT !.pc = "append"] /\ handler.pc = "dated"
        /\ out' \in {logFileDate, Stderr}
        /\ UNCHANGED <<day, prevDays, logFileDate, mvars, flusher, life, written>>
    BY <1>6 DEF OpenNext, OpenFile, Locked
  <2>2. Started'
    BY <1>t, <2>1 DEF TextsOK, Started
  <2> QED
    BY <1>0, <1>t, <2>1, <2>2, SamePlaces DEF By
<1>7. CASE Append1
  <2>1. /\ count' = count + 1 /\ loggedOn' = Append(loggedOn, handler.days)
        /\ handler.pc = "append"
        /\ handler' \in {Unlocked, [handler EXCEPT !.pc = "mail"]}
        /\ UNCHANGED <<day, lvars, flusher, life, written>>
    BY <1>7 DEF Append1, Locked
  <2>2. handler'.pc \in {"free", "mail"}
    BY <1>0, <2>1 DEF Unlocked
  <2>3. /\ \A m \in 1..count : loggedOn'[m] = loggedOn[m]
        /\ loggedOn'[count + 1] = handler.days
    <3>1. /\ loggedOn \in Seq(Days) /\ Len(loggedOn) = count /\ handler.days \in Days
      BY <1>t, <2>1 DEF TextsOK
    <3> QED
      BY <2>1, <3>1, AppendProperties
  <2>4. ASSUME NEW m \in 1..count'
        PROVE  By(loggedOn'[m], logFileDate)
    <3>1. m \in 1..count \/ m = count + 1
      BY <1>0, <2>1
    <3>2. By(handler.days, logFileDate)
      BY <1>0, <2>1
    <3> QED
      BY <1>0, <2>3, <3>1, <3>2
  <2>5. ASSUME NEW d, NEW text \in Seq(1..count), LoggedBy(d, text)
        PROVE  \A i \in DOMAIN text : By(loggedOn'[text[i]], d)
    <3>1. \A i \in DOMAIN text : text[i] \in 1..count
      BY LenProperties, ElementOfSeq
    <3> QED
      BY <2>3, <2>5, <3>1 DEF LoggedBy
  <2>6. \A d \in Days : written[d] \in Seq(1..count)
    BY <1>t DEF TextsOK, File
  <2>7. \A d \in Days : LoggedBy(d, written[d])'
    BY <1>0, <2>1, <2>5, <2>6 DEF LoggedBy, By
  <2>8. (flusher.aim \in Days => LoggedBy(flusher.aim, flusher.hand))'
    BY <1>0, <2>1, <2>5 DEF LoggedBy, By
  <2>9. \A m \in 1..count' : By(loggedOn[m], logFileDate)'
    BY <2>1, <2>4 DEF By
  <2> QED
    BY <1>0, <1>t, <2>1, <2>2, <2>7, <2>8, <2>9 DEF PlacedOK, Started
<1>8. CASE FlushTakes
  <2>1. flusher' = [flusher EXCEPT !.pc = "took", !.hand = messages]
    BY <1>8 DEF FlushTakes
  <2>2. flusher.aim \notin Days
    BY <1>0, <1>8 DEF FlushTakes, MayTake
  <2> QED
    BY <1>0, <1>8, <1>t, <2>1, <2>2, SamePlaces DEF FlushTakes, Started, By
<1>8r. CASE FlushReturns
  BY <1>0, <1>8r, <1>t, SamePlaces DEF FlushReturns, NoFlush, Started, By
<1>9. CASE FlushAims
  <2>1. out \in Days => LoggedBy(out, flusher.hand)
    BY <1>0, <1>t, BufferLoggedBy
  <2>2. flusher'.aim = out /\ flusher'.hand = flusher.hand /\ flusher'.pc = "aimed"
    BY <1>0, <1>9 DEF FlushAims
  <2> QED
    BY <1>0, <1>9, <1>t, <2>1, <2>2, SamePlaces DEF FlushAims, Started, By
<1>10. CASE FlushPrints
  <2>1. \A d \in Days : LoggedBy(d, written[d])'
    BY <1>0, <1>10, <1>t, PrintKeepsDays DEF FlushPrints
  <2>2. flusher'.aim \notin Days
    BY <1>0, <1>10 DEF FlushPrints, NoFlush
  <2>3. UNCHANGED <<day, lvars, mvars, handler, life>>
    BY <1>10 DEF FlushPrints
  <2> QED
    BY <1>0, <1>t, <2>1, <2>2, <2>3 DEF PlacedOK, Started, By
<1>11. CASE Cancel
  <2>1. /\ UNCHANGED <<day, lvars, mvars, handler, written>> /\ Started'
        /\ flusher' = flusher \/ (flusher'.aim = None /\ flusher'.pc = "started")
    BY <1>11 DEF Cancel, NoFlush, Started
  <2> QED
    BY <1>0, <1>t, <2>1, SamePlaces DEF By
<1>12. CASE ShutdownPrints
  <2>1. out \in Days => LoggedBy(out, messages)
    BY <1>0, <1>t, BufferLoggedBy
  <2>2. UNCHANGED <<day, lvars, mvars, handler, flusher>> /\ Started'
    BY <1>12 DEF ShutdownPrints, Started
  <2>3. \A d \in Days : LoggedBy(d, written[d])'
    BY <1>0, <1>12, <1>t, <2>1, <2>2, PrintKeepsDays DEF ShutdownPrints
  <2>4. (flusher.aim \in Days => LoggedBy(flusher.aim, flusher.hand))'
    BY <1>0, <2>2 DEF LoggedBy, By
  <2> QED
    BY <1>0, <1>t, <2>2, <2>3, <2>4 DEF PlacedOK, By
<1>13. CASE ShutdownCloses
  <2>1. /\ out' \notin Days
        /\ flusher'.aim \in Days => flusher'.aim = flusher.aim
        /\ flusher'.hand = flusher.hand /\ flusher'.pc = flusher.pc
    BY <1>0, <1>13, <1>t, CloseStream DEF ShutdownCloses
  <2> QED
    BY <1>0, <1>13, <1>t, <2>1, SamePlaces DEF ShutdownCloses, Started, By
<1>M. CASE MailSent
  BY <1>0, <1>M, <1>t, SamePlaces DEF MailSent, Unlocked, Started
<1>14. CASE ShutdownEnds
  BY <1>0, <1>14, <1>t, SamePlaces DEF ShutdownEnds, Started, By
<1>15. CASE UNCHANGED vars
  BY <1>0, <1>15, <1>t, SamePlaces DEF vars, Started, By
<1> QED
  BY <1>1, <1>2, <1>3, <1>4, <1>5, <1>6, <1>7, <1>8, <1>9, <1>10, <1>11, <1>12, <1>13,
     <1>14, <1>15, <1>M, <1>2o, <1>8r
  DEF LoggerNext, start, HandlerGoesOn, FlushGoesOn, shutdown

\* A message of a day that the log found to be new is in no file of an earlier
\* one, for any number of days and messages and in every interleaving of the
\* thread that changes the file, the timer that prints without the lock and the
\* end of the server.
THEOREM FilesKeepDays == LoggerSpec => []NeverInEarlierFile
<1>1. PlacedOK /\ [LoggerNext]_vars => PlacedOK'
  BY PlacedNext
<1>2. PlacedOK => NeverInEarlierFile
  <2> SUFFICES ASSUME PlacedOK, NEW d \in Days, NEW i \in DOMAIN written[d]
               PROVE  \/ d >= loggedOn[written[d][i]]
                      \/ loggedOn[written[d][i]] <= prevDays
    BY DEF NeverInEarlierFile
  <2>1. By(loggedOn[written[d][i]], d)
    BY DEF PlacedOK, LoggedBy
  <2>2. written[d][i] \in 1..count
    BY LenProperties, ElementOfSeq DEF PlacedOK, TextsOK, File
  <2>3. loggedOn[written[d][i]] \in Int /\ d \in Int
    BY <2>2 DEF PlacedOK, TextsOK, LoggerTypeOK, Days
  <2> QED
    BY <2>1, <2>3 DEF By
<1> QED
  BY <1>1, <1>2, PlacedInit, PTL DEF LoggerSpec

-----------------------------------------------------------------------------
(* The log of the first day.                                               *)

FirstDay == life \in {"up", "cancelled"} /\ day = prevDays

\* Until the first midnight nobody changes the stream: what the timer is about
\* to print goes where everything before it went.
FirstDayOK ==
    /\ TextsOK
    /\ ~Started => /\ count = 0 /\ handler = Unlocked /\ messages = <<>>
                   /\ flusher = NoFlush /\ \A d \in File : written[d] = <<>>
    /\ life \notin {"up", "cancelled"} \/ prevDays <= day
    /\ flusher.pc \in {"idle", "started"} => flusher.hand = <<>>
    /\ FirstDay =>
         /\ out \in File
         /\ handler.pc \notin {"closed", "dated"}
         /\ flusher.pc = "aimed" => flusher.aim = out
         /\ written[out] \o flusher.hand \o messages = [m \in 1..count |-> m]

LEMMA FirstDayInit == LoggerInit => FirstDayOK
BY TextsInit DEF LoggerInit, FirstDayOK, FirstDay, NoFlush, Unlocked, Started

\* What has been logged, with one more.
LEMMA CountOn ==
    ASSUME NEW n \in Nat
    PROVE  Append([m \in 1..n |-> m], n + 1) = [m \in 1..(n + 1) |-> m]
<1> DEFINE s == [m \in 1..n |-> m]
           t == [m \in 1..(n + 1) |-> m]
<1>1. s \in Seq(1..(n + 1)) /\ Len(s) = n /\ t \in Seq(1..(n + 1)) /\ Len(t) = n + 1
  OBVIOUS
<1>2. /\ Append(s, n + 1) \in Seq(1..(n + 1)) /\ Len(Append(s, n + 1)) = n + 1
      /\ \A i \in 1..n : Append(s, n + 1)[i] = i
      /\ Append(s, n + 1)[n + 1] = n + 1
  BY <1>1, AppendProperties
<1>3. \A i \in 1..(n + 1) : Append(s, n + 1)[i] = t[i]
  BY <1>2
<1>4. Append(s, n + 1) = t
  BY <1>1, <1>2, <1>3, SeqEqual
<1> QED
  BY <1>4

\* A step that is not on the first day when it ends.
LEMMA NotFirstDay ==
    ASSUME FirstDayOK, TextsOK', ~FirstDay', Started',
           prevDays' <= day' \/ life' \notin {"up", "cancelled"},
           flusher'.pc \in {"idle", "started"} => flusher'.hand = <<>>
    PROVE  FirstDayOK'
BY DEF FirstDayOK

LEMMA FirstDayNext ==
    ASSUME FirstDayOK, [LoggerNext]_vars
    PROVE  FirstDayOK'
<1> USE DEF lvars, mvars, Started
<1>t. TextsOK /\ TextsOK'
  BY TextsNext DEF FirstDayOK
<1>0. /\ day \in Nat /\ prevDays \in Nat /\ count \in Nat
      /\ messages \in Seq(1..count) /\ flusher.hand \in Seq(1..count)
      /\ written \in [File -> Seq(1..count)]
      /\ handler \in [pc : {"free", "closed", "dated", "append", "mail"}, days : 0..MaxDays]
      /\ flusher \in [ pc : {"idle", "started", "took", "aimed"}, hand : Seq(1..MaxMessages),
                       aim : File \cup {Closed, None} ]
      /\ life \in Lives
      /\ Stderr \in File /\ Days \subseteq File /\ \A d \in File : d # Closed
  BY <1>t, LoggerAssumption
  DEF LoggerAssumption, TextsOK, LoggerTypeOK, Days, File, Stderr, Closed
<1>down. ~Started => /\ count = 0 /\ handler = Unlocked /\ messages = <<>>
                     /\ flusher = NoFlush /\ \A d \in File : written[d] = <<>>
  BY DEF FirstDayOK
<1>up. life \in {"up", "cancelled"} => prevDays <= day
  BY DEF FirstDayOK
<1>idle. flusher.pc \in {"idle", "started"} => flusher.hand = <<>>
  BY DEF FirstDayOK
<1>first. FirstDay =>
            /\ out \in File
            /\ handler.pc \notin {"closed", "dated"}
            /\ flusher.pc = "aimed" => flusher.aim = out
            /\ written[out] \o flusher.hand \o messages = [m \in 1..count |-> m]
  BY DEF FirstDayOK
<1>1. CASE NextDay
  <2>1. /\ day' = day + 1
        /\ UNCHANGED <<lvars, mvars, handler, flusher, life, written>>
    BY <1>1 DEF NextDay
  <2>2. ~FirstDay'
    BY <1>0, <1>up, <2>1 DEF FirstDay
  <2> QED
    BY <1>0, <1>down, <1>up, <1>idle, <1>t, <2>1, <2>2 DEF FirstDayOK
<1>2. CASE StartDates
  <2>1. /\ life' = "starting" /\ ~Started /\ ~Started'
        /\ UNCHANGED <<mvars, handler, flusher, written>>
    BY <1>2 DEF StartDates, Started
  <2>2. ~FirstDay' /\ life' \notin {"up", "cancelled"}
    BY <2>1 DEF FirstDay
  <2> QED
    BY <1>down, <1>idle, <1>t, <2>1, <2>2 DEF FirstDayOK
<1>2o. CASE StartOpens
  <2>5. logFileDate \in Days \cup {0}
    BY <1>t DEF TextsOK, LoggerTypeOK, Days
  <2>1. /\ ~Started /\ life' = "up" /\ prevDays' = day /\ out' \in File
        /\ UNCHANGED <<day, mvars, handler, flusher, written>>
    BY <1>2o, <2>5 DEF StartOpens, OpenFile, File, Stderr
  <2>2. written'[out'] = <<>> /\ flusher'.hand = <<>> /\ messages' = <<>> /\ count' = 0
        /\ handler'.pc = "free" /\ flusher'.pc = "idle"
    BY <1>0, <1>down, <2>1 DEF NoFlush, Unlocked
  <2>3. <<>> \o <<>> \o <<>> = [m \in 1..0 |-> m]
    <3>1. <<>> \o <<>> = <<>>
      BY EmptySeq, ConcatEmptySeq
    <3> QED
      BY <3>1
  <2>4. Started'
    BY <2>1 DEF Started
  <2> QED
    BY <1>0, <1>t, <2>1, <2>2, <2>3, <2>4 DEF FirstDayOK
<1>3. CASE HandleMessage
  <2>1. /\ Started /\ handler' = [pc |-> "append", days |-> day]
        /\ UNCHANGED <<day, lvars, mvars, flusher, life, written>>
    BY <1>3 DEF HandleMessage
  <2> QED
    BY <1>up, <1>idle, <1>first, <1>t, <2>1 DEF FirstDayOK, FirstDay
<1>4. CASE DayChanged
  <2>1. /\ Started /\ day > prevDays
        /\ UNCHANGED <<day, prevDays, life>>
    BY <1>4 DEF DayChanged
  <2>2. flusher'.pc = flusher.pc /\ flusher'.hand = flusher.hand
    BY <1>4, <1>t, CloseStream DEF DayChanged
  <2>3. ~FirstDay'
    BY <1>0, <2>1 DEF FirstDay
  <2> QED
    BY <1>0, <1>up, <1>idle, <1>t, <2>1, <2>2, <2>3, NotFirstDay
<1>5. CASE SetDate \/ OpenNext
  <2>1. /\ handler.pc \in {"closed", "dated"}
        /\ UNCHANGED <<day, prevDays, flusher, life>>
    BY <1>5 DEF SetDate, OpenNext, Locked
  <2>0. Started
    BY <1>down, <2>1 DEF Unlocked
  <2>2. ~FirstDay' /\ Started'
    <3>1. ~FirstDay
      BY <1>first, <2>1
    <3> QED
      BY <2>0, <2>1, <3>1 DEF FirstDay
  <2> QED
    BY <1>up, <1>idle, <1>t, <2>1, <2>2, NotFirstDay
<1>7. CASE Append1
  <2>1. /\ handler.pc = "append"
        /\ count' = count + 1 /\ messages' = Append(messages, count + 1)
        /\ handler' \in {Unlocked, [handler EXCEPT !.pc = "mail"]}
        /\ UNCHANGED <<day, lvars, flusher, life, written>>
    BY <1>7 DEF Append1, Locked
  <2>2. Started' /\ handler'.pc \in {"free", "mail"}
    BY <1>0, <1>down, <2>1 DEF Unlocked
  <2>3. ASSUME FirstDay
        PROVE  written[out] \o flusher.hand \o messages' = [m \in 1..count' |-> m]
    <3> DEFINE S == 1..(count + 1)
               a == written[out] \o flusher.hand
    <3>1. written[out] \in Seq(S) /\ flusher.hand \in Seq(S) /\ messages \in Seq(S)
      BY <1>0, <1>first, <2>3, TextWidens
    <3>2. a \in Seq(S) /\ a \o messages \in Seq(S)
      BY <3>1, ConcatProperties
    <3>3. count + 1 \in S /\ <<count + 1>> \in Seq(S)
      BY <1>0
    <3> HIDE DEF S, a
    <3>4. messages' = messages \o <<count + 1>>
      BY <2>1, <3>1, <3>3, AppendIsConcat
    <3>5. a \o messages' = (a \o messages) \o <<count + 1>>
      BY <3>1, <3>2, <3>3, <3>4, ConcatAssociative
    <3>6. (a \o messages) \o <<count + 1>> = Append(a \o messages, count + 1)
      BY <3>2, <3>3, AppendIsConcat
    <3>7. a \o messages = [m \in 1..count |-> m]
      BY <1>first, <2>3 DEF a
    <3> QED
      BY <1>0, <2>1, <3>5, <3>6, <3>7, CountOn DEF a
  <2>4. FirstDay' = FirstDay
    BY <2>1 DEF FirstDay
  <2> QED
    BY <1>up, <1>idle, <1>first, <1>t, <2>1, <2>2, <2>3, <2>4 DEF FirstDayOK
<1>8. CASE FlushTakes
  <2>1. /\ flusher.pc \in {"idle", "started"} /\ messages' = <<>>
        /\ flusher' = [flusher EXCEPT !.pc = "took", !.hand = messages]
        /\ UNCHANGED <<day, lvars, count, loggedOn, handler, life, written>>
    BY <1>8 DEF FlushTakes, MayTake
  <2>2. flusher'.pc = "took" /\ flusher'.hand = messages
    BY <1>0, <2>1
  <2>4. Started
    BY <1>8, <1>down DEF FlushTakes, MayTake, NoFlush
  <2>3. ASSUME FirstDay
        PROVE  written[out] \o messages \o <<>> = [m \in 1..count |-> m]
    <3>1. written[out] \in Seq(1..count) /\ written[out] \o messages \in Seq(1..count)
      BY <1>0, <1>first, <2>3, ConcatProperties
    <3>2. written[out] \o <<>> = written[out]
          /\ (written[out] \o messages) \o <<>> = written[out] \o messages
      BY <3>1, ConcatEmptySeq
    <3> QED
      BY <1>first, <1>idle, <2>1, <2>3, <3>2
  <2> QED
    BY <1>up, <1>first, <1>t, <2>1, <2>2, <2>3, <2>4 DEF FirstDayOK, FirstDay
<1>8r. CASE FlushReturns
  <2>1. /\ flusher.pc = "started" /\ flusher'.pc = "idle" /\ flusher'.hand = <<>>
        /\ UNCHANGED <<day, lvars, mvars, handler, life, written>>
    BY <1>8r DEF FlushReturns, NoFlush
  <2>2. flusher'.hand = flusher.hand /\ Started
    BY <1>idle, <1>down, <2>1 DEF NoFlush
  <2> QED
    BY <1>up, <1>first, <1>t, <2>1, <2>2 DEF FirstDayOK, FirstDay
<1>9. CASE FlushAims
  <2>1. /\ flusher.pc = "took" /\ flusher'.pc = "aimed" /\ flusher'.aim = out
        /\ flusher'.hand = flusher.hand
        /\ UNCHANGED <<day, lvars, mvars, handler, life, written>>
    BY <1>0, <1>9 DEF FlushAims
  <2>2. Started
    BY <1>down, <2>1 DEF NoFlush
  <2>3. FirstDay' = FirstDay
    BY <2>1 DEF FirstDay
  <2>4. FirstDay => written'[out'] \o flusher'.hand \o messages' = [m \in 1..count' |-> m]
    BY <1>first, <2>1
  <2> QED
    BY <1>up, <1>first, <1>t, <2>1, <2>2, <2>3, <2>4 DEF FirstDayOK, FirstDay
<1>10. CASE FlushPrints
  <2>1. /\ flusher.pc = "aimed" /\ flusher'.pc = "idle" /\ flusher'.hand = <<>>
        /\ PrintTo(flusher.aim, flusher.hand)
        /\ UNCHANGED <<day, lvars, mvars, handler, life>>
    BY <1>10 DEF FlushPrints, NoFlush
  <2>2. Started
    BY <1>down, <2>1 DEF NoFlush
  <2>3. ASSUME FirstDay
        PROVE  written'[out] \o <<>> \o messages = [m \in 1..count |-> m]
    <3>1. flusher.aim = out /\ out \in File /\ out # Closed
      BY <1>0, <1>first, <2>1, <2>3
    <3>2. written'[out] = written[out] \o flusher.hand
      BY <1>0, <2>1, <3>1 DEF PrintTo
    <3>3. written'[out] \in Seq(1..count)
      BY <1>0, <3>1, <3>2, ConcatProperties
    <3>4. written'[out] \o <<>> = written'[out]
      BY <3>3, ConcatEmptySeq
    <3> QED
      BY <1>first, <2>3, <3>2, <3>4
  <2> QED
    BY <1>up, <1>first, <1>t, <2>1, <2>2, <2>3 DEF FirstDayOK, FirstDay
<1>11. CASE Cancel
  <2>1. /\ life = "up" /\ life' = "cancelled"
        /\ UNCHANGED <<day, lvars, mvars, handler, written>>
    BY <1>11 DEF Cancel
  <2>2. /\ flusher'.hand = flusher.hand
        /\ flusher' = flusher \/ (flusher'.pc = "started" /\ flusher'.hand = <<>>)
    BY <1>11, <1>idle DEF Cancel, NoFlush
  <2> QED
    BY <1>up, <1>idle, <1>first, <1>t, <2>1, <2>2 DEF FirstDayOK, FirstDay
<1>12. CASE ShutdownPrints \/ ShutdownCloses \/ ShutdownEnds
  <2>1. life' \in {"printed", "closed", "off"}
    BY <1>12 DEF ShutdownPrints, ShutdownCloses, ShutdownEnds
  <2>2. flusher'.pc = flusher.pc /\ flusher'.hand = flusher.hand
    BY <1>12, <1>t, CloseStream DEF ShutdownPrints, ShutdownCloses, ShutdownEnds
  <2>3. Started'
    BY <2>1
  <2> QED
    BY <1>idle, <1>t, <2>1, <2>2, <2>3, NotFirstDay DEF FirstDay
<1>M. CASE MailSent
  <2>1. /\ handler.pc = "mail" /\ handler' = Unlocked
        /\ UNCHANGED <<day, lvars, mvars, flusher, life, written>>
    BY <1>M DEF MailSent, Locked
  <2>2. handler'.pc = "free" /\ Started
    BY <1>down, <2>1 DEF Unlocked
  <2> QED
    BY <1>up, <1>idle, <1>first, <1>t, <2>1, <2>2 DEF FirstDayOK, FirstDay
<1>15. CASE UNCHANGED vars
  BY <1>15, <1>t DEF vars, FirstDayOK, FirstDay
<1> QED
  BY <1>1, <1>2, <1>3, <1>4, <1>5, <1>7, <1>8, <1>9, <1>10, <1>11, <1>12, <1>15, <1>M, <1>2o,
     <1>8r
  DEF LoggerNext, start, HandlerGoesOn, FlushGoesOn, shutdown

\* Up to the first midnight what is printed, what the timer is printing and the
\* buffer are the messages in their order, for any number of messages.
THEOREM CompleteCorrect == LoggerSpec => []CompleteUntilMidnight
<1>1. FirstDayOK /\ [LoggerNext]_vars => FirstDayOK'
  BY FirstDayNext
<1>2. FirstDayOK => CompleteUntilMidnight
  BY DEF FirstDayOK, FirstDay, CompleteUntilMidnight
<1> QED
  BY <1>1, <1>2, FirstDayInit, PTL DEF LoggerSpec

-----------------------------------------------------------------------------
(* No message twice.                                                       *)

Once(text) == \A i, j \in DOMAIN text : text[i] = text[j] => i = j

LEMMA OfEmpty == Of(<<>>) = {} /\ Once(<<>>)
BY EmptySeq DEF Of, Once

LEMMA OfConcat ==
    ASSUME NEW S, NEW s \in Seq(S), NEW t \in Seq(S)
    PROVE  /\ Of(s \o t) = Of(s) \cup Of(t)
           /\ Once(s) /\ Once(t) /\ Of(s) \cap Of(t) = {} => Once(s \o t)
<1> DEFINE n == Len(s)
           k == Len(t)
           st == s \o t
<1>1. /\ n \in Nat /\ DOMAIN s = 1..n /\ k \in Nat /\ DOMAIN t = 1..k
      /\ DOMAIN st = 1..(n + k)
      /\ \A i \in 1..(n + k) : st[i] = IF i <= n THEN s[i] ELSE t[i - n]
  BY LenProperties, ConcatProperties
<1> HIDE DEF n, k, st
<1>2. \A i \in 1..n : i \in DOMAIN st /\ st[i] = s[i]
  BY <1>1
<1>3. \A i \in 1..k : i + n \in DOMAIN st /\ st[i + n] = t[i]
  BY <1>1
<1>4. Of(st) \subseteq Of(s) \cup Of(t)
  BY <1>1 DEF Of
<1>5. Of(s) \subseteq Of(st) /\ Of(t) \subseteq Of(st)
  <2>1. \A i \in DOMAIN s : s[i] \in Of(st)
    BY <1>1, <1>2 DEF Of
  <2>2. ASSUME NEW i \in DOMAIN t
        PROVE  t[i] \in Of(st)
    <3>1. i + n \in DOMAIN st /\ st[i + n] = t[i]
      BY <1>1, <1>3
    <3> QED
      BY <3>1 DEF Of
  <2> QED
    BY <2>1, <2>2 DEF Of
<1>6. ASSUME Once(s), Once(t), Of(s) \cap Of(t) = {},
             NEW i \in DOMAIN st, NEW j \in DOMAIN st, st[i] = st[j]
      PROVE  i = j
  <2>1. i \in 1..(n + k) /\ j \in 1..(n + k)
    BY <1>1
  <2>2. CASE i <= n /\ j <= n
    BY <1>1, <1>6, <2>1, <2>2 DEF Once
  <2>3. CASE i > n /\ j > n
    <3>1. i - n \in DOMAIN t /\ j - n \in DOMAIN t /\ t[i - n] = t[j - n]
      BY <1>1, <1>6, <2>1, <2>3
    <3>2. i - n = j - n
      BY <1>6, <3>1 DEF Once
    <3> QED
      BY <1>1, <2>1, <3>2
  <2>4. CASE i <= n /\ j > n
    <3>1. st[i] \in Of(s) /\ st[j] \in Of(t)
      BY <1>1, <2>1, <2>4 DEF Of
    <3> QED
      BY <1>6, <3>1
  <2>5. CASE i > n /\ j <= n
    <3>1. st[i] \in Of(t) /\ st[j] \in Of(s)
      BY <1>1, <2>1, <2>5 DEF Of
    <3> QED
      BY <1>6, <3>1
  <2> QED
    BY <1>1, <2>1, <2>2, <2>3, <2>4, <2>5
<1> QED
  BY <1>4, <1>5, <1>6 DEF Once, st

LEMMA OfMessages ==
    ASSUME NEW n \in Nat, NEW s \in Seq(1..n)
    PROVE  Of(s) \subseteq 1..n
BY LenProperties, ElementOfSeq DEF Of

FilesApart ==
    /\ \A d \in File : Once(written[d])
    /\ \A d, e \in File : d # e => Of(written[d]) \cap Of(written[e]) = {}

\* Every message is in one place: a file, the hand of the timer or the buffer.
OnePlace ==
    /\ FilesApart
    /\ Once(messages) /\ Once(flusher.hand)
    /\ Of(messages) \cap Of(flusher.hand) = {}
    /\ \A d \in File : Of(written[d]) \cap (Of(messages) \cup Of(flusher.hand)) = {}

OnceOK == FirstDayOK /\ (life \in {"up", "cancelled"} => OnePlace)

\* A text that is printed moves into a file, or is lost.
LEMMA PrintMoves ==
    ASSUME TextsOK, FilesApart, NEW stream, NEW text \in Seq(1..count),
           PrintTo(stream, text), Once(text),
           \A d \in File : Of(written[d]) \cap Of(text) = {}
    PROVE  /\ FilesApart'
           /\ \A d \in File : Of(written'[d]) \subseteq Of(written[d]) \cup Of(text)
<1>0. written \in [File -> Seq(1..count)]
  BY DEF TextsOK
<1>1. CASE stream \notin File \/ stream = Closed
  <2>1. written' = written
    BY <1>0, <1>1 DEF PrintTo
  <2> QED
    BY <2>1 DEF FilesApart
<1>2. CASE stream \in File /\ stream # Closed
  <2>1. written' = [written EXCEPT ![stream] = written[stream] \o text]
    BY <1>2 DEF PrintTo
  <2>2. \A d \in File : d # stream => written'[d] = written[d]
    BY <1>0, <2>1
  <2>3. written'[stream] = written[stream] \o text
    BY <1>0, <1>2, <2>1
  <2>4. /\ Of(written'[stream]) = Of(written[stream]) \cup Of(text)
        /\ Once(written'[stream])
    BY <1>0, <1>2, <2>3, OfConcat DEF FilesApart
  <2>5. \A d \in File : Once(written'[d])
    BY <2>2, <2>4 DEF FilesApart
  <2>6. \A d, e \in File : d # e => Of(written'[d]) \cap Of(written'[e]) = {}
    BY <1>2, <2>2, <2>4 DEF FilesApart
  <2> QED
    BY <2>2, <2>4, <2>5, <2>6 DEF FilesApart
<1> QED
  BY <1>1, <1>2

LEMMA OnceNext ==
    ASSUME OnceOK, [LoggerNext]_vars
    PROVE  OnceOK'
<1> USE DEF lvars, mvars
<1>1. FirstDayOK /\ FirstDayOK' /\ TextsOK
  BY FirstDayNext DEF OnceOK, FirstDayOK
<1>2. SUFFICES ASSUME life' \in {"up", "cancelled"}
               PROVE  OnePlace'
  BY <1>1 DEF OnceOK
<1>0. /\ count \in Nat /\ messages \in Seq(1..count) /\ flusher.hand \in Seq(1..count)
      /\ flusher \in [ pc : {"idle", "started", "took", "aimed"}, hand : Seq(1..MaxMessages),
                       aim : File \cup {Closed, None} ]
  BY <1>1, LoggerAssumption DEF LoggerAssumption, TextsOK, LoggerTypeOK
<1>3. CASE start
  <2>1. messages' = <<>> /\ flusher'.hand = <<>> /\ \A d \in File : written'[d] = <<>>
    BY <1>1, <1>3 DEF start, StartDates, StartOpens, Started, FirstDayOK, NoFlush
  <2> QED
    BY <2>1, OfEmpty DEF OnePlace, FilesApart
<1>4. SUFFICES ASSUME ~start, life \in {"up", "cancelled"}, OnePlace
               PROVE  OnePlace'
  <2>1. ~start => life \in {"up", "cancelled"}
    BY <1>2
    DEF LoggerNext, vars, NextDay, HandleMessage, DayChanged, HandlerGoesOn, SetDate, OpenNext,
        Append1, MailSent, FlushGoesOn, FlushTakes, FlushReturns, FlushAims, FlushPrints,
        shutdown, Cancel, ShutdownPrints, ShutdownCloses, ShutdownEnds
  <2> QED
    BY <1>3, <2>1 DEF OnceOK
<1>5. CASE UNCHANGED <<messages, written>> /\ flusher'.hand = flusher.hand
  BY <1>4, <1>5 DEF OnePlace, FilesApart
<1>6. CASE DayChanged
  <2>1. PrintTo(out, messages) /\ messages' = <<>> /\ flusher'.hand = flusher.hand
    BY <1>1, <1>6, CloseStream DEF DayChanged
  <2>2. /\ FilesApart'
        /\ \A d \in File : Of(written'[d]) \subseteq Of(written[d]) \cup Of(messages)
    BY <1>0, <1>1, <1>4, <2>1, PrintMoves DEF OnePlace
  <2> QED
    BY <1>4, <2>1, <2>2, OfEmpty DEF OnePlace
<1>7. CASE Append1
  <2>1. /\ messages' = Append(messages, count + 1)
        /\ UNCHANGED <<flusher, written>>
    BY <1>7 DEF Append1
  <2>2. messages' = messages \o <<count + 1>>
    <3>1. messages \in Seq(1..(count + 1)) /\ count + 1 \in 1..(count + 1)
      BY <1>0, TextWidens
    <3> QED
      BY <2>1, <3>1, AppendIsConcat
  <2>3. messages \in Seq(Nat) /\ <<count + 1>> \in Seq(Nat)
    <3>1. 1..count \subseteq Nat
      BY <1>0
    <3> QED
      BY <1>0, <3>1, SeqMonotonic
  <2>4. Of(<<count + 1>>) = {count + 1} /\ Once(<<count + 1>>)
    BY DEF Of, Once
  <2>5. count + 1 \notin Of(messages) /\ count + 1 \notin Of(flusher.hand)
    BY <1>0, OfMessages
  <2>6. \A d \in File : count + 1 \notin Of(written[d])
    BY <1>0, <1>1, OfMessages DEF TextsOK
  <2>7. Of(messages') = Of(messages) \cup {count + 1} /\ Once(messages')
    <3>1. Once(messages) /\ Of(messages) \cap Of(<<count + 1>>) = {}
      BY <1>4, <2>4, <2>5 DEF OnePlace
    <3>2. PICK one \in Seq(Nat) : one = <<count + 1>>
      BY <2>3
    <3>3. Of(messages \o one) = Of(messages) \cup Of(one) /\ Once(messages \o one)
      <4>1. Once(one) /\ Of(messages) \cap Of(one) = {}
        BY <2>4, <3>1, <3>2
      <4> HIDE <3>2
      <4> QED
        BY <2>3, <3>1, <4>1, OfConcat
    <3> QED
      BY <2>2, <2>4, <3>2, <3>3
  <2> QED
    BY <1>4, <2>1, <2>5, <2>6, <2>7 DEF OnePlace, FilesApart
<1>8. CASE FlushTakes
  <2>1. /\ flusher'.hand = messages /\ messages' = <<>> /\ flusher.hand = <<>>
        /\ UNCHANGED written
    BY <1>0, <1>1, <1>8 DEF FlushTakes, MayTake, FirstDayOK
  <2> QED
    BY <1>4, <2>1, OfEmpty DEF OnePlace, FilesApart
<1>9. CASE FlushPrints
  <2>1. /\ PrintTo(flusher.aim, flusher.hand)
        /\ flusher'.hand = <<>> /\ UNCHANGED messages
    BY <1>9 DEF FlushPrints, NoFlush
  <2>2. /\ FilesApart'
        /\ \A d \in File : Of(written'[d]) \subseteq Of(written[d]) \cup Of(flusher.hand)
    BY <1>0, <1>1, <1>4, <2>1, PrintMoves DEF OnePlace
  <2> QED
    BY <1>4, <2>1, <2>2, OfEmpty DEF OnePlace
<1>10. CASE FlushAims
  BY <1>0, <1>5, <1>10 DEF FlushAims
<1>11. CASE NextDay \/ HandleMessage \/ SetDate \/ OpenNext \/ MailSent \/ UNCHANGED vars
  BY <1>5, <1>11 DEF NextDay, HandleMessage, SetDate, OpenNext, MailSent, vars
<1>13. CASE Cancel \/ FlushReturns
  <2>1. flusher'.hand = flusher.hand /\ UNCHANGED <<messages, written>>
    BY <1>1, <1>13 DEF Cancel, FlushReturns, FirstDayOK, NoFlush
  <2> QED
    BY <1>5, <2>1
<1>12. CASE ShutdownPrints \/ ShutdownCloses \/ ShutdownEnds
  BY <1>2, <1>12 DEF ShutdownPrints, ShutdownCloses, ShutdownEnds
<1> QED
  BY <1>4, <1>6, <1>7, <1>8, <1>9, <1>10, <1>11, <1>12, <1>13
  DEF LoggerNext, HandlerGoesOn, FlushGoesOn, shutdown

LEMMA OnePlaceLoggedOnce ==
    ASSUME OnePlace
    PROVE  LoggedOnce
<1> SUFFICES ASSUME NEW m \in 1..count
             PROVE  LET in(s) == Occurrences(m, s) # {} IN
                    /\ \A d, e \in File : in(written[d]) /\ in(written[e]) => d = e
                    /\ \A d \in File : \A i, j \in Occurrences(m, written[d]) : i = j
                    /\ in(messages) => ~in(flusher.hand) /\ \A d \in File : ~in(written[d])
                    /\ in(flusher.hand) => \A d \in File : ~in(written[d])
  BY DEF LoggedOnce
<1>1. \A s : Occurrences(m, s) # {} <=> m \in Of(s)
  BY DEF Occurrences, Of
<1>2. \A d \in File : \A i, j \in Occurrences(m, written[d]) : i = j
  BY DEF Occurrences, OnePlace, FilesApart, Once
<1> QED
  BY <1>1, <1>2 DEF OnePlace, FilesApart

\* No message is in two files, twice in one, or in a file and still to be
\* printed, for any number of days and messages.
THEOREM OnceCorrect == LoggerSpec => []LoggedOnce
<1>1. LoggerInit => OnceOK
  BY FirstDayInit DEF LoggerInit, OnceOK
<1>2. OnceOK /\ [LoggerNext]_vars => OnceOK'
  BY OnceNext
<1>3. OnceOK => LoggedOnce
  BY OnePlaceLoggedOnce DEF OnceOK, LoggedOnce
<1> QED
  BY <1>1, <1>2, <1>3, PTL DEF LoggerSpec

-----------------------------------------------------------------------------
(* The refinement of LogBook.                                              *)

Held == Of(flusher.hand) \cup Of(messages)

\* Wherever a message is, it has been logged.
LEMMA BookParts ==
    ASSUME TextsOK
    PROVE  /\ Filed \cup Pending = Filed \cup Held
           /\ Held \subseteq 1..count /\ Filed \subseteq 1..count
           /\ count \in Nat
<1>1. count \in Nat
  BY DEF TextsOK, LoggerTypeOK
<1>2. Of(messages) \subseteq 1..count /\ Of(flusher.hand) \subseteq 1..count
  BY <1>1, OfMessages DEF TextsOK
<1>3. \A d \in File : Of(written[d]) \subseteq 1..count
  BY <1>1, OfMessages DEF TextsOK
<1> QED
  BY <1>1, <1>2, <1>3 DEF Held, Filed, Pending

\* A text that is printed to a file is filed; printed to a closed stream, it
\* is not.
LEMMA PrintFiles ==
    ASSUME TextsOK, NEW stream, NEW text \in Seq(1..count), PrintTo(stream, text)
    PROVE  Filed' = IF stream \in File THEN Filed \cup Of(text) ELSE Filed
<1>0. written \in [File -> Seq(1..count)] /\ Closed \notin File
  BY LoggerAssumption DEF LoggerAssumption, TextsOK, File, Days, Closed, Stderr
<1>1. CASE stream \notin File
  <2>1. written' = written
    BY <1>0, <1>1 DEF PrintTo
  <2> QED
    BY <1>1, <2>1 DEF Filed
<1>2. CASE stream \in File
  <2>1. written' = [written EXCEPT ![stream] = written[stream] \o text]
    BY <1>0, <1>2 DEF PrintTo
  <2>2. \A d \in File : d # stream => Of(written'[d]) = Of(written[d])
    BY <1>0, <2>1
  <2>3. written'[stream] = written[stream] \o text /\ written[stream] \in Seq(1..count)
    BY <1>0, <1>2, <2>1
  <2>4. Of(written'[stream]) = Of(written[stream]) \cup Of(text)
    BY <2>3, OfConcat
  <2> QED
    BY <1>2, <2>2, <2>4 DEF Filed
<1> QED
  BY <1>1, <1>2

\* The log that is no longer calm does not become calm again.
LEMMA CalmEnds ==
    ASSUME FirstDayOK, [LoggerNext]_vars, Calm'
    PROVE  Calm
<1> USE DEF lvars, mvars
<1>0. /\ day \in Nat /\ prevDays \in Nat
      /\ life \in {"up", "cancelled"} => prevDays <= day
  BY LoggerAssumption DEF LoggerAssumption, FirstDayOK, TextsOK, LoggerTypeOK, Days
<1>1. CASE NextDay
  BY <1>0, <1>1 DEF NextDay, Calm, Started
<1>2. CASE start
  BY <1>2 DEF start, StartDates, StartOpens, Started, Calm
<1>3. CASE shutdown
  BY <1>3 DEF shutdown, Cancel, ShutdownPrints, ShutdownCloses, ShutdownEnds, Calm, Started
<1>4. CASE HandleMessage \/ DayChanged \/ HandlerGoesOn \/ FlushGoesOn \/ UNCHANGED vars
  BY <1>4
  DEF HandleMessage, DayChanged, HandlerGoesOn, SetDate, OpenNext, Append1, MailSent,
      FlushGoesOn, FlushTakes, FlushReturns, FlushAims, FlushPrints, vars, Calm, Started
<1> QED
  BY <1>1, <1>2, <1>3, <1>4 DEF LoggerNext

\* A step after which no message is anywhere less files some of them.
LEMMA StepFiles ==
    ASSUME UNCHANGED count, Calm' => Calm,
           Filed \subseteq Filed', Filed' \cup Held' = Filed \cup Held
    PROVE  Book!File
<1> DEFINE S == Filed' \ Filed
<1>1. S \in SUBSET Pending /\ Pending' = Pending \ S /\ Filed' = Filed \cup S
  BY DEF Pending, Held
<1>2. Filed' \cup Pending' = Filed \cup Pending
  BY DEF Pending, Held
<1>3. Lost' = Lost
  BY <1>2 DEF Lost
<1>4. Calm' \in {Calm, FALSE}
  BY DEF Calm, Started
<1> QED
  BY <1>1, <1>3, <1>4 DEF Book!File

\* A step that files nothing and drops some loses them.
LEMMA StepLoses ==
    ASSUME TextsOK, UNCHANGED count, ~Calm, ~Calm',
           Filed' = Filed, Held' \subseteq Held
    PROVE  Book!Lose
<1> DEFINE S == Pending \ Pending'
<1>1. S \in SUBSET Pending /\ Pending' = Pending \ S
  BY DEF Pending, Held
<1>2. S = (Held \ Filed) \ Held'
  BY DEF Pending, Held
<1>3. Lost = 1..count \ (Filed \cup Held) /\ Lost' = 1..count \ (Filed \cup Held')
  BY DEF Lost, Pending, Held
<1>4. Lost' = Lost \cup S
  BY <1>2, <1>3, BookParts
<1>5. Calm' = Calm
  BY DEF Calm, Started
<1> QED
  BY <1>1, <1>4, <1>5 DEF Book!Lose

\* A message that is logged is given to the log.
LEMMA StepGives ==
    ASSUME TextsOK, TextsOK', Append1
    PROVE  Book!Given(count + 1) /\ count + 1 \in 1..MaxMessages
<1> USE DEF lvars, mvars
<1>1. /\ count \in Nat /\ count' = count + 1 /\ count' \in 0..MaxMessages
      /\ messages \in Seq(1..count) /\ messages' = Append(messages, count + 1)
      /\ UNCHANGED <<day, prevDays, life, flusher, written>>
  BY DEF Append1, TextsOK, LoggerTypeOK
<1>2. Of(messages') = Of(messages) \cup {count + 1}
  <2>1. Len(messages) \in Nat /\ DOMAIN messages = 1..Len(messages)
    BY <1>1, LenProperties
  <2>2. messages \in Seq(Nat)
    <3>1. 1..count \subseteq Nat
      BY <1>1
    <3> QED
      BY <1>1, <3>1, SeqMonotonic
  <2>3. /\ Len(messages') = Len(messages) + 1 /\ DOMAIN messages' = 1..(Len(messages) + 1)
        /\ \A i \in 1..Len(messages) : messages'[i] = messages[i]
        /\ messages'[Len(messages) + 1] = count + 1
    <3>1. messages' \in Seq(Nat) /\ count + 1 \in Nat
      BY <1>1, <2>2, AppendProperties
    <3> QED
      BY <1>1, <2>2, <3>1, AppendProperties, LenProperties
  <2> HIDE <1>1
  <2> QED
    BY <2>1, <2>3 DEF Of
<1>3. Filed' = Filed /\ Held' = Held \cup {count + 1}
  BY <1>1, <1>2 DEF Filed, Held
<1>4. count + 1 \notin Filed \cup Held
  BY <1>1, BookParts
<1>5. count + 1 \notin Pending \cup Filed \cup Lost
  BY <1>1, <1>4, BookParts DEF Lost
<1>6. Pending' = Pending \cup {count + 1}
  BY <1>3, <1>4 DEF Pending, Held
<1>7. 1..count' = (1..count) \cup {count + 1}
  BY <1>1
<1>8. Lost' = Lost
  BY <1>3, <1>4, <1>5, <1>6, <1>7 DEF Lost
<1>9. Calm' = Calm
  BY <1>1 DEF Calm, Started
<1> QED
  BY <1>1, <1>3, <1>5, <1>6, <1>8, <1>9 DEF Book!Given

LEMMA BookNext ==
    ASSUME FirstDayOK, [LoggerNext]_vars
    PROVE  [Book!Next]_Book!bookVars
<1> USE DEF lvars, mvars
<1>0. /\ TextsOK /\ TextsOK' /\ (Calm' => Calm)
      /\ messages \in Seq(1..count) /\ flusher.hand \in Seq(1..count)
      /\ flusher \in [ pc : {"idle", "started", "took", "aimed"}, hand : Seq(1..MaxMessages),
                       aim : File \cup {Closed, None} ]
  BY CalmEnds, TextsNext DEF FirstDayOK, TextsOK, LoggerTypeOK
<1>1. CASE UNCHANGED <<count, messages, written>> /\ flusher'.hand = flusher.hand
  <2>1. Filed' = Filed /\ Held' = Held
    BY <1>1 DEF Filed, Held
  <2> QED
    BY <1>0, <1>1, <2>1, StepFiles DEF Book!Next
<1>2. CASE Append1
  BY <1>0, <1>2, StepGives DEF Book!Next
<1>3. CASE DayChanged
  <2>1. /\ PrintTo(out, messages) /\ messages' = <<>> /\ flusher'.hand = flusher.hand
        /\ UNCHANGED count /\ day > prevDays /\ Started
    BY <1>0, <1>3, CloseStream DEF DayChanged
  <2>2. ~Calm
    BY <2>1 DEF Calm, FirstDayOK, TextsOK, LoggerTypeOK, Days
  <2>3. Held' = Of(flusher.hand)
    BY <2>1, OfEmpty DEF Held
  <2>4. Filed' = IF out \in File THEN Filed \cup Of(messages) ELSE Filed
    BY <1>0, <2>1, PrintFiles
  <2>5. CASE out \in File
    BY <1>0, <2>1, <2>3, <2>4, <2>5, StepFiles DEF Held, Book!Next
  <2>6. CASE out \notin File
    BY <1>0, <2>1, <2>2, <2>3, <2>4, <2>6, StepLoses DEF Held, Book!Next
  <2> QED
    BY <2>5, <2>6
<1>4. CASE FlushTakes
  <2>1. /\ flusher'.hand = messages /\ messages' = <<>> /\ flusher.hand = <<>>
        /\ UNCHANGED <<count, written>>
    BY <1>0, <1>4 DEF FlushTakes, MayTake, FirstDayOK
  <2>2. Filed' = Filed /\ Held' = Held
    BY <2>1, OfEmpty DEF Filed, Held
  <2> QED
    BY <1>0, <2>1, <2>2, StepFiles DEF Book!Next
<1>5. CASE FlushPrints
  <2>1. /\ PrintTo(flusher.aim, flusher.hand) /\ flusher.pc = "aimed"
        /\ flusher'.hand = <<>> /\ UNCHANGED <<count, messages>>
    BY <1>5 DEF FlushPrints, NoFlush
  <2>2. Held' = Of(messages)
    BY <2>1, OfEmpty DEF Held
  <2>3. Filed' = IF flusher.aim \in File THEN Filed \cup Of(flusher.hand) ELSE Filed
    BY <1>0, <2>1, PrintFiles
  <2>4. CASE flusher.aim \in File
    BY <1>0, <2>1, <2>2, <2>3, <2>4, StepFiles DEF Held, Book!Next
  <2>5. CASE flusher.aim \notin File
    <3>1. ~FirstDay
      BY <2>1, <2>5 DEF FirstDayOK
    <3>2. Started
      BY <2>1 DEF FirstDayOK, NoFlush
    <3>3. ~Calm
      BY <3>1, <3>2 DEF Calm, FirstDay
    <3> QED
      BY <1>0, <2>1, <2>2, <2>3, <2>5, <3>3, StepLoses DEF Held, Book!Next
  <2> QED
    BY <2>4, <2>5
<1>6. CASE ShutdownPrints
  <2>1. PrintTo(out, messages) /\ UNCHANGED <<count, messages, flusher>>
    BY <1>6 DEF ShutdownPrints
  <2>2. Held' = Held /\ Filed \subseteq Filed' /\ Filed' \subseteq Filed \cup Held
    BY <1>0, <2>1, PrintFiles DEF Held
  <2> QED
    BY <1>0, <2>1, <2>2, StepFiles DEF Book!Next
<1>7. CASE ShutdownCloses \/ FlushAims
  BY <1>0, <1>1, <1>7, CloseStream DEF ShutdownCloses, FlushAims
<1>9. CASE Cancel \/ FlushReturns
  <2>1. flusher'.hand = flusher.hand /\ UNCHANGED <<count, messages, written>>
    BY <1>9 DEF Cancel, FlushReturns, FirstDayOK, NoFlush
  <2> QED
    BY <1>1, <2>1
<1>8. CASE NextDay \/ start \/ HandleMessage \/ SetDate \/ OpenNext \/ MailSent
           \/ ShutdownEnds \/ UNCHANGED vars
  BY <1>1, <1>8
  DEF NextDay, start, StartDates, StartOpens, HandleMessage, SetDate, OpenNext, MailSent,
      ShutdownEnds, vars
<1> QED
  BY <1>2, <1>3, <1>4, <1>5, <1>6, <1>7, <1>8, <1>9
  DEF LoggerNext, HandlerGoesOn, FlushGoesOn, shutdown

\* KLogger implements LogBook: through the timer that prints without the lock,
\* the changes of files and the stop of the server, a message that is printed
\* stays printed, one that is lost stays lost, and up to the first midnight
\* none is.
THEOREM BookKept == LoggerSpec => KeepsLogBook
<1>1. LoggerInit => Book!Init
  <2> SUFFICES ASSUME LoggerInit PROVE Book!Init
    OBVIOUS
  <2>1. messages = <<>> /\ flusher.hand = <<>> /\ count = 0 /\ ~Started
        /\ \A d \in File : written[d] = <<>>
    BY DEF LoggerInit, NoFlush, Started
  <2>2. Held = {} /\ Filed = {}
    BY <2>1, OfEmpty DEF Held, Filed
  <2>3. Pending = {} /\ Lost = {} /\ Calm = TRUE
    BY <2>1, <2>2 DEF Held, Pending, Lost, Calm
  <2> QED
    BY <2>2, <2>3 DEF Book!Init
<1>2. FirstDayOK /\ [LoggerNext]_vars => [Book!Next]_Book!bookVars
  BY BookNext
<1>3. FirstDayOK /\ [LoggerNext]_vars => FirstDayOK'
  BY FirstDayNext
<1> QED
  BY <1>1, <1>2, <1>3, FirstDayInit, PTL DEF LoggerSpec, KeepsLogBook, Book!Spec
=============================================================================
