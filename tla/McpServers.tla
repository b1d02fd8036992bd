----------------------------- MODULE McpServers -----------------------------
(***************************************************************************)
(* MCP tool servers: calls that share one server over a pipe of lines, with *)
(* timeouts, cancelled calls, broken answers and restarts (holmes-tools:    *)
(* mcp/mod.rs, mcp/transport.rs, mcp/protocol.rs).                          *)
(*                                                                         *)
(* Every tools/call carries the id 3, so the id cannot tell the answers of  *)
(* two calls apart: what keeps them apart is that a transport with an answer*)
(* outstanding is never used again.  The server answers a request at most   *)
(* once, in order, at any time or never.  An HTTP server pairs answers with *)
(* requests by itself and has no state here.                               *)
(***************************************************************************)
EXTENDS Naturals, Sequences

CONSTANTS
    McpCalls,       \* calls of tools of the server, each made once
    MaxLaunches     \* bound: processes started

ASSUME McpAssumption == MaxLaunches \in Nat

VARIABLES
    pipe,       \* the transport in use: alive, and its process
    mcall,      \* where each call is
    answer,     \* what each call returned
    launches

mcpVars == <<pipe, mcall, answer, launches>>

\* A process: the requests it has not answered and the lines not read yet.
NewPipe == [alive |-> TRUE, todo |-> <<>>, lines |-> <<>>]
DeadPipe == [alive |-> FALSE, todo |-> <<>>, lines |-> <<>>]

\* The provider has connected to the server at startup.
McpInit ==
    /\ pipe = NewPipe
    /\ mcall = [c \in McpCalls |-> "new"]
    /\ answer = [c \in McpCalls |-> "none"]
    /\ launches = 1

\* JsonRpcRequest: initialize is 1, tools/list 2, every tools/call 3.
RequestId(step) == CASE step = "initialize" -> 1 [] step = "tools_list" -> 2 [] step = "call" -> 3

InCall(c) == mcall[c] \in {"initialize", "tools_list", "call"}

\* The provider's mutex: one call at a time.
LockFree == \A c \in McpCalls : ~InCall(c)

Line(id, for, ok) == [id |-> id, for |-> for, ok |-> ok]

\* StdioTransport::send writes the request; a write to a process that is gone
\* fails at the read.
Sends(p, c, step) == [p EXCEPT !.todo = Append(@, Line(RequestId(step), c, TRUE))]

\* execute: a transport that was terminated is replaced, and shakes hands first.
StartCall(c) ==
    /\ mcall[c] = "new" /\ LockFree
    /\ IF pipe.alive
       THEN /\ pipe' = Sends(pipe, c, "call")
            /\ mcall' = [mcall EXCEPT ![c] = "call"]
            /\ UNCHANGED launches
       ELSE /\ launches < MaxLaunches /\ launches' = launches + 1
            /\ pipe' = Sends(NewPipe, c, "initialize")
            /\ mcall' = [mcall EXCEPT ![c] = "initialize"]
    /\ UNCHANGED answer

\* The process cannot be started: the call fails and the old transport stays.
RestartFails(c) ==
    /\ mcall[c] = "new" /\ LockFree /\ ~pipe.alive
    /\ mcall' = [mcall EXCEPT ![c] = "done"]
    /\ UNCHANGED <<pipe, answer, launches>>

\* What is sent after each answer.
NextStep(step) == CASE step = "initialize" -> "tools_list" [] step = "tools_list" -> "call"

\* The line read answers this request: on with the handshake, or done.  Nobody
\* looks whether initialize succeeded; an error answer to a call keeps the pipe.
ReadAnswer(c) ==
    /\ InCall(c) /\ pipe.lines # <<>>
    /\ LET line == Head(pipe.lines)
           rest == [pipe EXCEPT !.lines = Tail(@)]
           step == mcall[c]
       IN /\ line.id = RequestId(step)
          /\ step = "tools_list" => line.ok
          /\ IF step = "call"
             THEN /\ pipe' = rest
                  /\ answer' = [answer EXCEPT ![c] = line.for]
                  /\ mcall' = [mcall EXCEPT ![c] = "done"]
             ELSE /\ pipe' = Sends(rest, c, NextStep(step))
                  /\ mcall' = [mcall EXCEPT ![c] = NextStep(step)]
                  /\ UNCHANGED answer
    /\ UNCHANGED launches

\* Fault: a call that stops leaves the transport as it is.
LeftRunning == pipe

\* AbortGuard: the process group is killed and the transport never used again;
\* one that was being connected is dropped, and the old one stays terminated.
Terminated == DeadPipe

CallFails(c) ==
    /\ pipe' = Terminated
    /\ mcall' = [mcall EXCEPT ![c] = "done"]
    /\ UNCHANGED <<answer, launches>>

\* A line that is no answer or answers something else, the end of the output, or
\* a tool list that lists nothing.
ReadBroken(c) ==
    /\ InCall(c) /\ pipe.lines # <<>>
    /\ \/ Head(pipe.lines).id # RequestId(mcall[c])
       \/ mcall[c] = "tools_list" /\ ~Head(pipe.lines).ok
    /\ CallFails(c)

\* The deadline of the request, or the call is dropped with its turn.
CallStops(c) == InCall(c) /\ CallFails(c)

-----------------------------------------------------------------------------
(* The server.                                                             *)

\* It answers; the id 0 is a line that cannot be parsed, or the end of its output.
ServerWrites ==
    /\ pipe.todo # <<>>
    /\ LET asked == Head(pipe.todo)
       IN \E id \in {0, asked.id}, ok \in BOOLEAN :
            pipe' = [pipe EXCEPT !.todo = Tail(@),
                                 !.lines = Append(@, Line(id, asked.for, ok))]
    /\ UNCHANGED <<mcall, answer, launches>>

McpNext ==
    \/ \E c \in McpCalls :
         \/ StartCall(c) \/ RestartFails(c)
         \/ ReadAnswer(c) \/ ReadBroken(c) \/ CallStops(c)
    \/ ServerWrites

McpSpec == McpInit /\ [][McpNext]_mcpVars

-----------------------------------------------------------------------------
\* A call that succeeds returns the server's answer to that call, though calls
\* before it timed out, were cancelled or broke off with their answers still to
\* come (AbortGuard and the restart in McpToolProvider::execute).
AnswerIsToThisCall == \A c \in McpCalls : answer[c] \in {"none", c}
=============================================================================
