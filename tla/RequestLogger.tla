---------------------------- MODULE RequestLogger ---------------------------
(***************************************************************************)
(* The log of requests (src/request_logger.go): handlers put lines into a  *)
(* channel that must never make them wait, and one goroutine writes them   *)
(* to a file for each day.                                                 *)
(*                                                                         *)
(* A line is abstracted to the day of its time stamp and its number in the *)
(* order in which the channel was tried.  What it says, and the probe that *)
(* a cache miss may start, are left out.  The mutex is held by the loop    *)
(* from the look at the file to the end of the write; others only count a  *)
(* dropped line under it.                                                  *)
(***************************************************************************)
EXTENDS Naturals, Sequences, FiniteSets

CONSTANTS
  Handlers,    \* goroutines that log
  Capacity,    \* of the channel, 1000 in the code
  MaxCalls,    \* bound of the calls of Log and LogEvent
  MaxDay       \* bound of the calendar

ASSUME LoggerAssumption ==
  /\ IsFiniteSet(Handlers)
  /\ Capacity \in Nat \ {0}
  /\ MaxCalls \in Nat
  /\ MaxDay \in Nat \ {0}

Days == 1..MaxDay
Line == [n : Nat, day : Days]
Closed == 0

VARIABLES
  at,          \* where each handler is: not logging, about to dump the
               \* payload of a miss, to stamp the announcement of the dump
               \* and to send it, to send its line, or to count a line that
               \* found the channel full
  stamp,       \* the days of the lines that each handler has stamped and not
               \* sent, the next to be sent first
  ch,          \* rl.ch
  dropped,     \* rl.dropped
  loop,        \* the loop: in the channel, at the mutex, with the file
  taken,       \* the line the loop has taken, if any, as a sequence
  open,        \* the day of the file that is open, rl.curDay, or Closed
  torn,        \* the days of the files that end in a piece of a line
  today,       \* time.Now(); the clock is taken never to go back
  tried,       \* ghost: how often the channel was tried
  written,     \* ghost: the lines written, over all files: line, file,
               \* and whether the line has a line of the file to itself
  lost,        \* ghost: how many lines the loop could not write
  calls        \* ghost: the calls so far

loggerVars == <<at, stamp, ch, dropped, loop, taken, open, torn, today, tried, written, lost, calls>>
callVars == <<stamp, today, calls>>
loopVars == <<loop, taken, open, torn, written, lost>>

LoggerTypeOK ==
  /\ at \in [Handlers -> {"idle", "dump", "stamp", "event", "eventFull", "send", "sendFull"}]
  /\ stamp \in [Handlers -> Seq(Days)]
  /\ ch \in Seq(Line) /\ Len(ch) <= Capacity
  /\ dropped \in Nat
  /\ loop \in {"channel", "mutex", "file", "write"}
  /\ taken \in Seq(Line) /\ Len(taken) <= 1
  /\ open \in Days \cup {Closed}
  /\ torn \subseteq Days
  /\ today \in Days
  /\ tried \in Nat
  /\ written \in Seq([n : Nat, day : Days, file : Days, alone : BOOLEAN])
  /\ lost \in Nat
  /\ calls \in 0..MaxCalls

LoggerInit ==
  /\ at = [h \in Handlers |-> "idle"]
  /\ stamp = [h \in Handlers |-> <<>>]
  /\ ch = <<>>
  /\ dropped = 0
  /\ loop = "channel"
  /\ taken = <<>>
  /\ open = Closed
  /\ torn = {}
  /\ today = 1
  /\ tried = 0
  /\ written = <<>>
  /\ lost = 0
  /\ calls = 0

MutexFree == loop \in {"channel", "mutex"}
-----------------------------------------------------------------------------
(* Log stamps its line first; a miss that could have been cached dumps its *)
(* payload before the line is sent.  LogEvent has nothing to dump.         *)
Log(h) ==
  /\ at[h] = "idle"
  /\ calls < MaxCalls
  /\ calls' = calls + 1
  /\ stamp' = [stamp EXCEPT ![h] = <<today>>]
  /\ \E next \in {"dump", "send"} : at' = [at EXCEPT ![h] = next]
  /\ UNCHANGED <<ch, dropped, today, tried, loopVars>>

(* dumpPayloadOnMiss: a dump that could be written is announced by a line. *)
DumpPayloadOnMiss(h) ==
  /\ at[h] = "dump"
  /\ \E next \in {"stamp", "send"} : at' = [at EXCEPT ![h] = next]
  /\ UNCHANGED <<ch, dropped, tried, callVars, loopVars>>

(* LogEvent stamps the announcement and then sends it. *)
AnnounceDump(h) ==
  /\ at[h] = "stamp"
  /\ at' = [at EXCEPT ![h] = "event"]
  /\ stamp' = [stamp EXCEPT ![h] = <<today>> \o @]
  /\ UNCHANGED <<ch, dropped, today, tried, calls, loopVars>>

Send(h, full, next) ==
  /\ tried' = tried + 1
  /\ stamp' = [stamp EXCEPT ![h] = Tail(@)]
  /\ \/ /\ Len(ch) < Capacity
        /\ ch' = Append(ch, [n |-> tried', day |-> Head(stamp[h])])
        /\ at' = [at EXCEPT ![h] = next]
     \/ /\ Len(ch) = Capacity
        /\ at' = [at EXCEPT ![h] = full]
        /\ UNCHANGED ch
  /\ UNCHANGED <<dropped, today, calls, loopVars>>

SendEvent(h) == at[h] = "event" /\ Send(h, "eventFull", "send")

SendLine(h) == at[h] = "send" /\ Send(h, "sendFull", "idle")

(* Mutant: a full channel is not counted. *)
NotCounted(h) ==
  /\ at[h] \in {"eventFull", "sendFull"}
  /\ MutexFree
  /\ at' = [at EXCEPT ![h] = IF @ = "eventFull" THEN "send" ELSE "idle"]
  /\ UNCHANGED <<ch, dropped, tried, callVars, loopVars>>

incDropped(h) ==
  /\ at[h] \in {"eventFull", "sendFull"}
  /\ MutexFree
  /\ dropped' = dropped + 1
  /\ at' = [at EXCEPT ![h] = IF @ = "eventFull" THEN "send" ELSE "idle"]
  /\ UNCHANGED <<ch, tried, callVars, loopVars>>
-----------------------------------------------------------------------------
Take ==
  /\ loop = "channel"
  /\ ch # <<>>
  /\ taken' = <<Head(ch)>>
  /\ ch' = Tail(ch)
  /\ loop' = "mutex"
  /\ UNCHANGED <<at, dropped, open, torn, tried, written, lost, callVars>>

Lock ==
  /\ loop = "mutex"
  /\ loop' = "file"
  /\ UNCHANGED <<at, ch, dropped, taken, open, torn, tried, written, lost, callVars>>

(* ensureFileLocked: the file of today is open, or is opened in place of   *)
(* another day's.                                                          *)
ensureFileLocked ==
  /\ loop = "file"
  /\ open' = today
  /\ loop' = "write"
  /\ UNCHANGED <<at, ch, dropped, taken, torn, tried, written, lost, callVars>>

(* Mutant: the error path keeps the mutex, and the loop waits for itself.  *)
OpenFailsLocked ==
  /\ loop = "file"
  /\ open # today
  /\ open' = Closed
  /\ taken' = <<>>
  /\ lost' = lost + 1
  /\ loop' = "stuck"
  /\ UNCHANGED <<at, ch, dropped, torn, tried, written, callVars>>

(* It cannot be opened: the other day's is closed, the line is gone.       *)
OpenFails ==
  /\ loop = "file"
  /\ open # today
  /\ open' = Closed
  /\ taken' = <<>>
  /\ lost' = lost + 1
  /\ loop' = "channel"
  /\ UNCHANGED <<at, ch, dropped, torn, tried, written, callVars>>

(* The write's error is ignored: a line that could not be written, or of   *)
(* which a piece was, is gone, and the next one is written behind the piece.*)
WriteLine ==
  /\ loop = "write"
  /\ \/ /\ written' = Append(written, [n |-> Head(taken).n, day |-> Head(taken).day,
                                       file |-> open, alone |-> open \notin torn])
        /\ torn' = torn \ {open}
        /\ UNCHANGED lost
     \/ /\ lost' = lost + 1
        /\ torn' \in {torn, torn \cup {open}}
        /\ UNCHANGED written
  /\ taken' = <<>>
  /\ loop' = "channel"
  /\ UNCHANGED <<at, ch, dropped, open, tried, callVars>>

Midnight ==
  /\ today < MaxDay
  /\ today' = today + 1
  /\ UNCHANGED <<at, stamp, ch, dropped, tried, calls, loopVars>>

Handler(h) ==
  \/ DumpPayloadOnMiss(h)
  \/ AnnounceDump(h)
  \/ SendEvent(h)
  \/ SendLine(h)

Loop == Take \/ Lock \/ ensureFileLocked \/ OpenFails \/ WriteLine

LoggerNext ==
  \/ \E h \in Handlers : Log(h) \/ Handler(h) \/ incDropped(h)
  \/ Loop
  \/ Midnight

(* Goroutines are scheduled, a write ends, and Go's mutex starves nobody.  *)
Fairness ==
  /\ \A h \in Handlers : WF_loggerVars(Handler(h)) /\ SF_loggerVars(incDropped(h))
  /\ WF_loggerVars(Loop)

LoggerSpec == LoggerInit /\ [][LoggerNext]_loggerVars

LoggerFairSpec == LoggerSpec /\ Fairness
-----------------------------------------------------------------------------
Waiting == Cardinality({h \in Handlers : at[h] \in {"eventFull", "sendFull"}})

(* Every line that was sent is in the channel, with the loop, in a file,   *)
(* counted or about to be counted as dropped, or was lost by a file that   *)
(* failed, which nothing counts.                                           *)
Accounted ==
  tried = Len(ch) + Len(taken) + Len(written) + dropped + Waiting + lost

(* The lines are in the files in the order they were sent, and no line is  *)
(* in the file of a day before its time stamp's; it may be in a later      *)
(* one's, having waited over midnight.                                     *)
InOrder == \A i, j \in DOMAIN written : i < j => /\ written[i].n < written[j].n
                                                 /\ written[i].file <= written[j].file

RightDay == \A i \in DOMAIN written : written[i].day <= written[i].file

(* A write that failed midway spoils one line, the next of its file, and   *)
(* only such a write spoils any.                                           *)
Spoiled == {i \in DOMAIN written : ~written[i].alone}

SpoiledByLoss == Cardinality(Spoiled) + Cardinality(torn) <= lost

LinesKept == Accounted /\ InOrder /\ RightDay /\ SpoiledByLoss

(* A handler that logs goes on, also when the channel is full and it has   *)
(* to wait for the mutex that the loop holds while it opens and writes.    *)
LogReturns == \A h \in Handlers : at[h] # "idle" ~> at[h] = "idle"
=============================================================================
