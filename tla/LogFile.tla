------------------------------- MODULE LogFile -------------------------------
(***************************************************************************)
(* muduo::LogFile: lines are appended to a file that is replaced when it   *)
(* has grown beyond rollSize_ or, looked at every now and then, when a new *)
(* period has begun.  Calls exclude each other (mutex_), so they are       *)
(* modelled one at a time; fwrite(3) may write less than it is given, and  *)
(* the clock may advance at any point of a call.                           *)
(***************************************************************************)
EXTENDS Integers

CONSTANTS rollSize_, flushInterval_, kCheckTimeRoll_, kRollPerSeconds_,
          Lens,       \* the lengths of lines
          MaxTime,    \* bound: of the clock
          MaxBytes    \* bound: of what is written to one file

VARIABLES
    now,                  \* time(NULL)
    count_, startOfPeriod_, lastRoll_, lastFlush_,
    writtenBytes_,        \* of file_, whose name is that of lastRoll_
    pc, n, len,           \* of append(): n of len bytes are written
    (* History.                                                            *)
    size, torn,           \* bytes that reached the file; a line was cut off
    wroteAt,              \* when the last line was appended
    oldest,               \* when the oldest line not flushed was, or None
    late, overdue         \* lines since the file's period ended, and since
                          \* `oldest' was more than flushInterval_ ago

roll == <<startOfPeriod_, lastRoll_, lastFlush_>>
history == <<size, torn, wroteAt, oldest, late, overdue>>
vars == <<now, count_, roll, writtenBytes_, pc, n, len, history>>

None == -1
Times == 0..MaxTime

TypeOK ==
    /\ now \in Times /\ count_ \in 0..(kCheckTimeRoll_ + 1)
    /\ startOfPeriod_ \in Times /\ lastRoll_ \in Times /\ lastFlush_ \in Times
    /\ writtenBytes_ \in Nat /\ pc \in {"idle", "write", "check", "roll"}
    /\ n \in 0..len /\ len \in Lens \cup {0}
    /\ size \in Nat /\ torn \in BOOLEAN /\ wroteAt \in Times
    /\ oldest \in Times \cup {None} /\ late \in Nat /\ overdue \in Nat

Period(t) == (t \div kRollPerSeconds_) * kRollPerSeconds_

(* The constructor has rolled for the first time.                          *)
Init ==
    /\ now \in 1..kRollPerSeconds_ /\ count_ = 0
    /\ startOfPeriod_ = Period(now) /\ lastRoll_ = now /\ lastFlush_ = now
    /\ writtenBytes_ = 0 /\ pc = "idle" /\ n = 0 /\ len = 0
    /\ size = 0 /\ torn = FALSE /\ wroteAt = now /\ oldest = None
    /\ late = 0 /\ overdue = 0

Tick ==
    /\ now < MaxTime /\ now' = now + 1
    /\ UNCHANGED <<count_, roll, writtenBytes_, pc, n, len, history>>

-----------------------------------------------------------------------------
append(k) ==
    /\ pc = "idle" /\ writtenBytes_ + k <= MaxBytes
    /\ pc' = "write" /\ n' = 0 /\ len' = k
    /\ UNCHANGED <<now, count_, roll, writtenBytes_, history>>

(* fwrite_unlocked() takes x bytes.                                        *)
Write(x) ==
    /\ pc = "write" /\ n < len /\ x \in 1..(len - n) /\ n' = n + x
    /\ size' = size + x
    /\ UNCHANGED <<now, count_, roll, writtenBytes_, pc, len, torn, wroteAt, oldest,
                   late, overdue>>

(* All is written, or nothing more can be: counted as if it were.          *)
EndWrite ==
    /\ pc = "write" /\ pc' = "check"
    /\ writtenBytes_' = writtenBytes_ + len /\ wroteAt' = now
    /\ torn' = (torn \/ n < len)
    /\ oldest' = IF oldest = None THEN now ELSE oldest
    /\ late' = IF Period(now) # startOfPeriod_ THEN late + 1 ELSE late
    /\ overdue' = IF oldest # None /\ now - oldest > flushInterval_
                  THEN overdue + 1 ELSE overdue
    /\ UNCHANGED <<now, count_, roll, n, len, size>>

Flushed == oldest' = None /\ overdue' = 0

(* flush(), which leaves lastFlush_ alone.                                 *)
flush ==
    /\ pc = "idle" /\ Flushed
    /\ UNCHANGED <<now, count_, roll, writtenBytes_, pc, n, len, size, torn, wroteAt, late>>

TooLong == writtenBytes_ > rollSize_
CheckDue == count_ > kCheckTimeRoll_

FlushDue == now - lastFlush_ > flushInterval_

(* append_unlocked() after the write: roll, look at the time, or count.    *)
Check ==
    /\ pc = "check"
    /\ \/ /\ TooLong /\ pc' = "roll"
          /\ UNCHANGED <<count_, lastFlush_, oldest, overdue>>
       \/ /\ ~TooLong /\ CheckDue /\ count_' = 0
          /\ \/ /\ Period(now) # startOfPeriod_ /\ pc' = "roll"
                /\ UNCHANGED <<lastFlush_, oldest, overdue>>
             \/ /\ Period(now) = startOfPeriod_ /\ FlushDue /\ pc' = "idle"
                /\ lastFlush_' = now /\ Flushed
             \/ /\ Period(now) = startOfPeriod_ /\ ~FlushDue /\ pc' = "idle"
                /\ UNCHANGED <<lastFlush_, oldest, overdue>>
       \/ /\ ~TooLong /\ ~CheckDue /\ count_' = count_ + 1 /\ pc' = "idle"
          /\ UNCHANGED <<lastFlush_, oldest, overdue>>
    /\ UNCHANGED <<now, startOfPeriod_, lastRoll_, writtenBytes_, n, len, size, torn,
                   wroteAt, late>>

(* rollFile(): a new file, unless one of that name is open already.        *)
rollFile ==
    /\ pc = "roll" /\ pc' = "idle"
    /\ IF now > lastRoll_
       THEN /\ lastRoll_' = now /\ lastFlush_' = now /\ startOfPeriod_' = Period(now)
            /\ writtenBytes_' = 0 /\ Flushed
            /\ size' = 0 /\ torn' = FALSE /\ late' = 0
       ELSE UNCHANGED <<roll, writtenBytes_, oldest, overdue, size, torn, late>>
    /\ UNCHANGED <<now, count_, n, len, wroteAt>>

Next == \/ Tick \/ flush \/ EndWrite \/ Check \/ rollFile
        \/ \E k \in Lens : append(k) \/ Write(k)

Spec == Init /\ [][Next]_vars

-----------------------------------------------------------------------------
(* A file goes on beyond rollSize_ only during the second it was opened    *)
(* in: as soon as the clock has moved the next line gets it replaced.      *)
OversizeInFirstSecond ==
    pc = "idle" /\ writtenBytes_ > rollSize_ => wroteAt = lastRoll_

(* Unless fwrite(3) failed every byte of every line is in the file, once,  *)
(* however the writes were split, and writtenBytes_ knows its size.        *)
SizeKnown == pc = "idle" => (size = writtenBytes_ \/ (torn /\ size < writtenBytes_))

(* When a period ends the file gets at most kCheckTimeRoll_ + 2 more lines.*)
RolledInTime == late <= kCheckTimeRoll_ + 2

(* Once a line has waited longer than flushInterval_ it is flushed with    *)
(* one of the next kCheckTimeRoll_ + 2 lines - but only with them.         *)
FlushedInTime == overdue <= kCheckTimeRoll_ + 2
==============================================================================
