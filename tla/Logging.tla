------------------------------- MODULE Logging -------------------------------
(***************************************************************************)
(* muduo::Logger and muduo::CurrentThread: a record is put together by a   *)
(* thread in a FixedBuffer of its own, from the time and the thread id it  *)
(* has cached, and written out when the Logger is destroyed; a FATAL one   *)
(* ends the program.  The process may fork; the behaviour goes on with the *)
(* child, where only the forking thread exists, under another id.          *)
(***************************************************************************)
EXTENDS Integers, Sequences, FiniteSets, FiniteSetsExt

CONSTANTS Threads,
          Tids,             \* the thread ids of the system
          SIZE,             \* of the FixedBuffer
          kMaxNumericSize,
          HeadLen,          \* what the time, id and level take of it
          Lens,             \* the lengths of what is streamed
          PerSecond,        \* ticks to the second
          MaxTime, MaxRecords, MaxForks  \* bounds

VARIABLES
    now,
    alive, realTid,        \* the threads of the process and their ids
    t_cachedTid, tidString,
    t_lastSecond, t_time,  \* the second that t_time shows
    pc, record,            \* of each thread: its Logger
    out, flushed,          \* the records passed to g_output; how many of
                           \* them g_flush has brought to safety
    state,                 \* "running", "abort" or "assert"
    forks                  \* bound

thread == <<alive, realTid, t_cachedTid, tidString>>
vars == <<now, thread, t_lastSecond, t_time, pc, record, out, flushed, state, forks>>

None == 0
Second(t) == t \div PerSecond
NoRecord == [second |-> None, tid |-> None, len |-> 0, newline |-> FALSE,
             level |-> "INFO", began |-> None]

Init ==
    /\ now = PerSecond /\ alive = Threads
    /\ realTid \in {f \in [Threads -> Tids] : \A s, t \in Threads : f[s] = f[t] => s = t}
    /\ t_cachedTid = [t \in Threads |-> None] /\ tidString = [t \in Threads |-> None]
    /\ t_lastSecond = [t \in Threads |-> None] /\ t_time = [t \in Threads |-> None]
    /\ pc = [t \in Threads |-> "idle"] /\ record = [t \in Threads |-> NoRecord]
    /\ out = <<>> /\ flushed = 0 /\ state = "running" /\ forks = 0

Tick == /\ state = "running" /\ now < MaxTime /\ now' = now + 1
        /\ UNCHANGED <<thread, t_lastSecond, t_time, pc, record, out, flushed, state, forks>>

-----------------------------------------------------------------------------
(* "%5d " prints six characters, or one for each digit and one.            *)
Printed(tid) == IF tid < 100000 THEN 6 ELSE IF tid < 1000000 THEN 7 ELSE 8

(* cacheTid(), unless it is cached.                                        *)
tid(t, cached) ==
    IF cached # None THEN UNCHANGED <<t_cachedTid, tidString, state>>
    ELSE /\ t_cachedTid' = [t_cachedTid EXCEPT ![t] = realTid'[t]]
         /\ tidString' = [tidString EXCEPT ![t] = realTid'[t]]
         /\ state' = IF Printed(realTid'[t]) = 6 THEN "running" ELSE "assert"

afterFork_Bug(t) == tid(t, t_cachedTid[t])
afterFork(t) == tid(t, None)

(* fork(2), up to the return in the child.                                 *)
Fork(t, new) ==
    /\ state = "running" /\ t \in alive /\ pc[t] = "idle"
    /\ forks < MaxForks /\ forks' = forks + 1
    /\ new \in Tids \ {realTid[s] : s \in alive}
    /\ alive' = {t} /\ realTid' = [realTid EXCEPT ![t] = new]
    /\ afterFork(t)
    /\ UNCHANGED <<now, t_lastSecond, t_time, pc, record, out, flushed>>

-----------------------------------------------------------------------------
(* FixedBuffer::append() of n characters to len.                           *)
Fits(len, n) == SIZE - len > n
Append_(len, n) == IF Fits(len, n) THEN len + n ELSE len

(* formatTime() prints the second anew when it has changed.                *)
Stale(t) == Second(now) # t_lastSecond[t]

formatTime(t) ==
    IF Stale(t)
    THEN /\ t_lastSecond' = [t_lastSecond EXCEPT ![t] = Second(now)]
         /\ t_time' = [t_time EXCEPT ![t] = Second(now)]
    ELSE UNCHANGED <<t_lastSecond, t_time>>

(* Logger::Impl::Impl().                                                   *)
Impl(t, level) ==
    /\ state = "running" /\ t \in alive /\ pc[t] = "idle"
    /\ Len(out) + Cardinality({s \in Threads : pc[s] # "idle"}) < MaxRecords
    /\ formatTime(t) /\ UNCHANGED realTid /\ tid(t, t_cachedTid[t])
    /\ record' = [record EXCEPT ![t] = [second |-> t_time'[t], tid |-> tidString'[t],
                     len |-> HeadLen, newline |-> FALSE, level |-> level,
                     began |-> Second(now)]]
    /\ pc' = [pc EXCEPT ![t] = "body"]
    /\ UNCHANGED <<now, alive, out, flushed, forks>>

Stream(t, n) ==
    /\ state = "running" /\ t \in alive /\ pc[t] = "body"
    /\ record' = [record EXCEPT ![t].len = Append_(@, n)]
    /\ UNCHANGED <<now, thread, t_lastSecond, t_time, pc, out, flushed, state, forks>>

NewlineFits(len) == Fits(len, 1)

(* finish(): "-", the file's name of n characters, ":", the line's number  *)
(* of k digits and a newline.                                              *)
finish(t, n, k) ==
    /\ state = "running" /\ t \in alive /\ pc[t] = "body"
    /\ LET named == Append_(Append_(Append_(record[t].len, 1), n), 1)
           numbered == IF SIZE - named > kMaxNumericSize THEN named + k ELSE named
       IN  record' = [record EXCEPT ![t].len = Append_(numbered, 1),
                                    ![t].newline = NewlineFits(numbered)]
    /\ pc' = [pc EXCEPT ![t] = "finished"]
    /\ UNCHANGED <<now, thread, t_lastSecond, t_time, out, flushed, state, forks>>

(* The rest of ~Logger(): g_output() and, for FATAL, g_flush() and abort().*)
Output(t) ==
    /\ state = "running" /\ t \in alive /\ pc[t] = "finished"
    /\ out' = Append(out, [record[t] EXCEPT !.tid = <<@, realTid[t]>>])
    /\ pc' = [pc EXCEPT ![t] = IF record[t].level = "FATAL" THEN "flush" ELSE "idle"]
    /\ record' = [record EXCEPT ![t] = NoRecord]
    /\ UNCHANGED <<now, thread, t_lastSecond, t_time, flushed, state, forks>>

Flush(t) ==
    /\ state = "running" /\ t \in alive /\ pc[t] = "flush"
    /\ flushed' = Len(out) /\ pc' = [pc EXCEPT ![t] = "abort"]
    /\ UNCHANGED <<now, thread, t_lastSecond, t_time, record, out, state, forks>>

Aborting == {"abort"}
Abort(t) ==
    /\ state = "running" /\ t \in alive /\ pc[t] \in Aborting
    /\ state' = "abort"
    /\ UNCHANGED <<now, thread, t_lastSecond, t_time, pc, record, out, flushed, forks>>

Next == \/ Tick
        \/ \E t \in Threads :
              \/ Output(t) \/ Flush(t) \/ Abort(t)
              \/ \E level \in {"INFO", "FATAL"} : Impl(t, level)
              \/ \E n \in Lens : Stream(t, n) \/ \E k \in {1, 2} : finish(t, n, k)
              \/ \E new \in Tids : Fork(t, new)

Spec == Init /\ [][Next]_vars

-----------------------------------------------------------------------------
TypeOK ==
    /\ alive \subseteq Threads /\ state \in {"running", "abort", "assert"}
    /\ pc \in [Threads -> {"idle", "body", "finished", "flush", "abort"}]
    /\ \A t \in Threads : record[t].len < SIZE
    /\ flushed \in 0..Len(out)

(* Every record written names the thread that wrote it and the second it   *)
(* was begun in, after any number of seconds and forks: what is cached by  *)
(* the thread is not stale when it is used.                                *)
RecordsTrue ==
    \A i \in DOMAIN out : out[i].tid[1] = out[i].tid[2] /\ out[i].second = out[i].began

(* A record ends its line, unless it has filled the buffer to the last     *)
(* character: what does not fit before makes room for the newline.         *)
NewlineUnlessFull == \A i \in DOMAIN out : out[i].newline \/ out[i].len = SIZE - 1

(* When the program is aborted, the FATAL record that is the reason has    *)
(* been flushed, whatever other threads write in between.                  *)
FatalFlushed ==
    state = "abort" => \E i \in 1..flushed : out[i].level = "FATAL"
==============================================================================
