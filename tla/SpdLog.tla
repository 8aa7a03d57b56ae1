-------------------------------- MODULE SpdLog --------------------------------
(***************************************************************************)
(* What the bridge uses of spdlog: a synchronous logger over a file sink.  *)
(* A line is written to the FILE buffer of the sink; it is on disk when    *)
(* stdio empties the buffer, or when the last reference to the logger goes *)
(* and the sink closes its file.  The flush level of the logger is off.    *)
(*                                                                         *)
(* Of a line only its kind matters: an issue or the progress of main.      *)
(***************************************************************************)
Lines == {"issue", "progress"}
Logs == [open : BOOLEAN, buffer : SUBSET Lines, disk : SUBSET Lines]

NoLog == [open |-> FALSE, buffer |-> {}, disk |-> {}]

\* file_helper::open with truncate: an empty file, named by the time of the start.
Opened == [open |-> TRUE, buffer |-> {}, disk |-> {}]

\* logger::log_ -> sink_it_ -> basic_file_sink::sink_it_ -> file_helper::write
Written(log, line) ==
    IF log.open THEN [log EXCEPT !.buffer = @ \cup {line}] ELSE log

\* The buffer of the FILE is full.
Spilled(log) == [log EXCEPT !.disk = @ \cup log.buffer, !.buffer = {}]

\* The destructor of file_helper closes the file, which empties the buffer.
Closed(log) == [Spilled(log) EXCEPT !.open = FALSE]

\* The process ends without destructors: what is in the buffer is lost.
Lost(log) == [log EXCEPT !.open = FALSE, !.buffer = {}]
==============================================================================
