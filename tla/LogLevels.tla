------------------------------ MODULE LogLevels -----------------------------
(***************************************************************************)
(* The levels of the daemon's two loggers (log/logger.go) and the RPC call *)
(* that changes them: rpc.Client.ChangeLogLevel (pkg/rpc/client.go) and    *)
(* CommandHandler.ChangeLogLevel (daemon_rpc.go), which the server runs in *)
(* a goroutine per call.                                                   *)
(*                                                                         *)
(* A logger points to a level that is never written again: SetLevel makes  *)
(* the logger point to another one.  So the value stands for the pointer,  *)
(* and With, which copies the pointer, copies the value.  Each client      *)
(* makes one call, over a connection that works.                           *)
(***************************************************************************)
EXTENDS Naturals

CONSTANTS
    RPCClients,     \* clients of the RPC server
    Want,           \* Want[c]: the level that client c asks for
    Levels          \* log levels; a logger logs the messages up to its own

ASSUME LogLevelsAssumption ==
    /\ Levels \subseteq Nat \ {0}
    /\ Want \in [RPCClients -> Levels]

\* The loggers the daemon is made with; services log through children of them.
Roots == {"service", "internal"}

VARIABLES
    level,          \* level[r]: the level of root logger r
    childLevel,     \* childLevel[r]: the level of its child, 0 before it is made
    client,         \* client[c]: where ChangeLogLevel of client c is
    ctxDone,        \* ctxDone[c]: the context of the call is done
    doneC,          \* doneC[c]: the content of the call's Done channel
    handler         \* handler[c]: how far the server is with the call

callVars == <<client, ctxDone, doneC>>
levelVars == <<level, childLevel, callVars, handler>>

LogLevelsInit ==
    /\ level \in [Roots -> Levels]
    /\ childLevel = [r \in Roots |-> 0]
    /\ client = [c \in RPCClients |-> "idle"]
    /\ ctxDone = [c \in RPCClients |-> FALSE]
    /\ doneC = [c \in RPCClients |-> "empty"]
    /\ handler = [c \in RPCClients |-> "none"]

\* logger.Log: whether a message of level v is handled.
Logs(current, v) == current >= v

\* logger.With, of both loggers, for the context of a service.
MakeChildren ==
    /\ childLevel = [r \in Roots |-> 0]
    /\ childLevel' = level
    /\ UNCHANGED <<level, callVars, handler>>

-----------------------------------------------------------------------------
(* The server *)

SetLevel(r, v) == level' = [level EXCEPT ![r] = v]

\* sLogger.SetLevel
ChangeServiceLevel(c) ==
    /\ handler[c] = "received"
    /\ SetLevel("service", Want[c])
    /\ handler' = [handler EXCEPT ![c] = "between"]
    /\ UNCHANGED <<childLevel, callVars>>

\* Two defects: the same logger twice; or a lock that the first SetLevel did not release
\* and the second logger, being of the same family, has in common with the first.
ChangeServiceLevelAgain(c) ==
    /\ handler[c] = "between"
    /\ SetLevel("service", Want[c])
    /\ handler' = [handler EXCEPT ![c] = "handled"]
    /\ UNCHANGED <<childLevel, callVars>>
ChangeInternalLevelLocked(c) ==
    /\ handler[c] = "locked"
    /\ UNCHANGED levelVars

\* iLogger.SetLevel
ChangeInternalLevel(c) ==
    /\ handler[c] = "between"
    /\ SetLevel("internal", Want[c])
    /\ handler' = [handler EXCEPT ![c] = "handled"]
    /\ UNCHANGED <<childLevel, callVars>>

\* The reply reaches the client: net/rpc puts the call into its Done channel, and
\* drops it when there is no room.
Reply(c) ==
    /\ handler[c] = "handled"
    /\ handler' = [handler EXCEPT ![c] = "replied"]
    /\ doneC' = [doneC EXCEPT ![c] = IF @ = "empty" THEN "reply" ELSE @]
    /\ UNCHANGED <<level, childLevel, client, ctxDone>>

-----------------------------------------------------------------------------
(* The client *)

\* client.Go
ChangeLogLevel(c) ==
    /\ client[c] = "idle"
    /\ client' = [client EXCEPT ![c] = "calling"]
    /\ handler' = [handler EXCEPT ![c] = "received"]
    /\ UNCHANGED <<level, childLevel, ctxDone, doneC>>

ContextDone(c) ==
    /\ client[c] = "calling" /\ ~ctxDone[c]
    /\ ctxDone' = [ctxDone EXCEPT ![c] = TRUE]
    /\ UNCHANGED <<level, childLevel, client, doneC, handler>>

\* The two cases of the select.
TakeResult(c) ==
    /\ client[c] = "calling" /\ doneC[c] = "reply"
    /\ doneC' = [doneC EXCEPT ![c] = "empty"]
    /\ client' = [client EXCEPT ![c] = "answered"]
    /\ UNCHANGED <<level, childLevel, ctxDone, handler>>

TakeContext(c) ==
    /\ client[c] = "calling" /\ ctxDone[c]
    /\ client' = [client EXCEPT ![c] = "pushing"]
    /\ UNCHANGED <<level, childLevel, ctxDone, doneC, handler>>

\* The send on the call's own Done channel, which has room for one; then the call
\* returns, without an error.
Push(c) ==
    /\ client[c] = "pushing" /\ doneC[c] = "empty"
    /\ doneC' = [doneC EXCEPT ![c] = "pushed"]
    /\ client' = [client EXCEPT ![c] = "gaveUp"]
    /\ UNCHANGED <<level, childLevel, ctxDone, handler>>

ServerStep(c) == ChangeServiceLevel(c) \/ ChangeInternalLevel(c) \/ Reply(c)
ClientStep(c) == TakeResult(c) \/ TakeContext(c) \/ Push(c)

-----------------------------------------------------------------------------

LogLevelsTypeOK ==
    /\ level \in [Roots -> Levels]
    /\ childLevel \in [Roots -> Levels \cup {0}]
    /\ client \in [RPCClients -> {"idle", "calling", "answered", "pushing", "gaveUp"}]
    /\ ctxDone \in [RPCClients -> BOOLEAN]
    /\ doneC \in [RPCClients -> {"empty", "reply", "pushed"}]
    /\ handler \in [RPCClients -> {"none", "received", "between", "handled", "replied"}]

\* A client that got its answer finds each logger at the level it asked for, or at that
\* of another call which has come as far (daemon_rpc.go:68-72, pkg/rpc/client.go:62).
AnsweredMeansChanged ==
    \A c \in RPCClients :
        client[c] = "answered" =>
            \A r \in Roots : \E d \in RPCClients :
                level[r] = Want[d] /\ handler[d] \notin {"none", "received"}

\* A call returns, but for one case: its reply arrived and the context was done, and
\* the send meets a full channel (pkg/rpc/client.go:57-62).
CallEnds ==
    \A c \in RPCClients :
        client[c] = "calling" ~>
            \/ client[c] \in {"answered", "gaveUp"}
            \/ client[c] = "pushing" /\ doneC[c] = "reply"

-----------------------------------------------------------------------------
(* What comments of the code say, and the code does not do *)

\* "since all child loggers will share the same level, we need to pass a pointer to the
\* level" (log/logger.go:17)
ChildrenShareLevel == \A r \in Roots : childLevel[r] \in {0, level[r]}
=============================================================================
