------------------------------ MODULE LogFile -------------------------------
(***************************************************************************)
(* The handler behind the daemon's internal logger (daemon_log.go): it     *)
(* appends messages to a file, which it opens with the first one, and      *)
(* truncates the file for a message that would exceed the limit.           *)
(*                                                                         *)
(* Any number of goroutines call Handle.  The enabled flag is read first;  *)
(* all the rest happens under the lock and is one step.  A message is its  *)
(* length.  total is counted up to one more than the limit: beyond it all  *)
(* values have the same effect.                                            *)
(***************************************************************************)
EXTENDS Naturals

CONSTANTS
    Writers,        \* goroutines that log
    Lengths,        \* lengths of messages
    Limit,          \* daemonLogHandler.limit
    MaxExisting     \* bound on the length of a file that is there before

ASSUME LogFileAssumption ==
    /\ Lengths \subseteq Nat \ {0}
    /\ Limit \in Nat /\ MaxExisting \in Nat

VARIABLES
    enabled,        \* the handler is enabled
    opened,         \* the handler has a file
    total,          \* the bytes written through the handler
    size,           \* the length of the file
    handling        \* handling[w]: the length of the message w waits to write, or 0

fileVars == <<enabled, opened, total, size, handling>>

LogFileInit ==
    /\ enabled = TRUE /\ opened = FALSE
    /\ total = 0 /\ size \in 0 .. MaxExisting
    /\ handling = [w \in Writers |-> 0]

\* Handle begins: a handler that is disabled by now returns at once.
BeginHandle(w, n) ==
    /\ handling[w] = 0
    /\ handling' = [handling EXCEPT ![w] = IF enabled THEN n ELSE 0]
    /\ UNCHANGED <<enabled, opened, total, size>>

EndHandle(w) == handling' = [handling EXCEPT ![w] = 0]

Counted(n) == IF total + n > Limit THEN Limit + 1 ELSE total + n

\* Write appends some of the n bytes of a message; all of them unless it fails.
Append(w, n, before) ==
    \E k \in 0 .. n :
        /\ size' = before + k
        /\ total' = Counted(k)
        /\ EndHandle(w)

\* The file cannot be opened: the handler disables itself.
OpenFails(w) ==
    /\ handling[w] # 0 /\ enabled /\ ~opened
    /\ enabled' = FALSE
    /\ EndHandle(w)
    /\ UNCHANGED <<opened, total, size>>

\* A defect: the message itself does not count.
ExceedsWithout(n) == total > Limit

\* The message does not fit any more.
Exceeds(n) == total + n > Limit

\* Opened now or before, the file takes the message, after it was emptied if need be.
WriteMessage(w) ==
    LET n == handling[w] IN
    /\ n # 0 /\ (enabled \/ opened)
    /\ opened' = TRUE
    /\ Append(w, n, IF Exceeds(n) THEN 0 ELSE size)
    /\ UNCHANGED enabled

TruncateFails(w) ==
    /\ handling[w] # 0 /\ (enabled \/ opened)
    /\ Exceeds(handling[w])
    /\ opened' = TRUE
    /\ EndHandle(w)
    /\ UNCHANGED <<enabled, total, size>>

\* The handler was disabled since the flag was read, and has no file: os.File refuses
\* both Truncate and Write.
WriteNowhere(w) ==
    /\ handling[w] # 0 /\ ~enabled /\ ~opened
    /\ EndHandle(w)
    /\ UNCHANGED <<enabled, opened, total, size>>

HandleStep(w) == OpenFails(w) \/ WriteMessage(w) \/ TruncateFails(w) \/ WriteNowhere(w)

-----------------------------------------------------------------------------

LogFileTypeOK ==
    /\ enabled \in BOOLEAN /\ opened \in BOOLEAN
    /\ total \in 0 .. Limit + 1
    /\ size \in Nat
    /\ handling \in [Writers -> Lengths \cup {0}]

\* The file outgrows the limit only by what was in it before the handler was made, or
\* holds one message that is longer than the limit, also when several goroutines found
\* it enabled at the same time and some writes fell short (daemon_log.go:67-81).
FileWithinLimit ==
    size <= MaxExisting + Limit \/ \E n \in Lengths : size <= n
=============================================================================
