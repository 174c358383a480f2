------------------------------ MODULE MCBytes ------------------------------
(***************************************************************************)
(* The classes that gather bytes, each by itself: net::Buffer, LogStream,  *)
(* Logger and LogFile.  A behaviour is one of the subject's, and the state *)
(* of the others does not change.                                          *)
(***************************************************************************)
EXTENDS Buffer, SequencesExt

MCData == BoundedSeq(Byte, 3)

VARIABLES subject,
          text, written, items, streamed,
          time, alive, realTid, t_cachedTid, tidString, t_lastSecond, t_time,
          loggerPc, record, out, flushed, state, forks,
          now, count_, startOfPeriod_, lastRoll_, lastFlush_, writtenBytes_,
          pc, n, len, size, torn, wroteAt, oldest, late, overdue

buffer == <<buf, call, failed>>
logStream == <<text, written, items, streamed>>
logging == <<time, alive, realTid, t_cachedTid, tidString, t_lastSecond, t_time,
             loggerPc, record, out, flushed, state, forks>>
logFile == <<now, count_, startOfPeriod_, lastRoll_, lastFlush_, writtenBytes_,
             pc, n, len, size, torn, wroteAt, oldest, late, overdue>>

(* One number of a whole type, and a few in a buffer that fills up.        *)
Convert == INSTANCE LogStream
           WITH SIZE <- 16, kMaxNumericSize <- 6, Lens <- {2}, Values <- -512..1023,
                Pointers <- 0..700, DoubleLens <- {1, 5}, MaxItems <- 1, data <- text
Room == INSTANCE LogStream
        WITH SIZE <- 13, kMaxNumericSize <- 6, Lens <- {0, 1, 5}, Values <- {-64, 127},
             Pointers <- {0, 16}, DoubleLens <- {1, 5}, MaxItems <- 5, data <- text

ASSUME StaticCheck == Convert!staticCheck /\ Room!staticCheck

Log == INSTANCE Logging
       WITH Threads <- {1, 2}, Tids <- {7, 8, 123456}, SIZE <- 9, kMaxNumericSize <- 3,
            HeadLen <- 2, Lens <- {1, 2}, PerSecond <- 2, MaxTime <- 4,
            MaxRecords <- 2, MaxForks <- 1, now <- time, pc <- loggerPc
File == INSTANCE LogFile
        WITH rollSize_ <- 5, flushInterval_ <- 1, kCheckTimeRoll_ <- 1,
             kRollPerSeconds_ <- 4, Lens <- {1, 2}, MaxTime <- 6, MaxBytes <- 8

MCInit ==
    /\ subject \in {"Buffer", "LogStream, conversions", "LogStream, room",
                    "Logging", "LogFile"}
    /\ Init /\ Room!Init /\ Log!Init /\ File!Init
    /\ subject # "Logging" => realTid = <<7, 8>>
    /\ subject # "LogFile" => now = 1

MCNext ==
    \/ /\ subject = "Buffer" /\ Next
       /\ UNCHANGED <<subject, logStream, logging, logFile>>
    \/ /\ \/ subject = "LogStream, conversions" /\ Convert!Next
          \/ subject = "LogStream, room" /\ Room!Next
       /\ UNCHANGED <<subject, buffer, logging, logFile>>
    \/ /\ subject = "Logging" /\ Log!Next
       /\ UNCHANGED <<subject, buffer, logStream, logFile>>
    \/ /\ subject = "LogFile" /\ File!Next
       /\ UNCHANGED <<subject, buffer, logStream, logging>>

MCSpec == MCInit /\ [][MCNext]_<<subject, buffer, logStream, logging, logFile>>

-----------------------------------------------------------------------------
(* LogStream.cc:29-185, Logging.cc:85-180, LogFile.cc:90-160: what is      *)
(* streamed is there as text and nothing is written behind the buffer;     *)
(* records carry the second and the thread, end with a newline, and a      *)
(* FATAL one is flushed before the program aborts; files are replaced and  *)
(* flushed in time, and their size is what was counted.                    *)
StreamExact ==
    /\ Room!TypeOK /\ Room!TextExact
    /\ IF subject = "LogStream, conversions" THEN Convert!NoOverflow ELSE Room!NoOverflow
RecordsExact ==
    Log!TypeOK /\ Log!RecordsTrue /\ Log!NewlineUnlessFull /\ Log!FatalFlushed
FilesExact ==
    /\ File!TypeOK /\ File!OversizeInFirstSecond /\ File!SizeKnown
    /\ File!RolledInTime /\ File!FlushedInTime
LogsExact == StreamExact /\ RecordsExact /\ FilesExact
=============================================================================
