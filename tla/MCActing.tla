------------------------------ MODULE MCActing ------------------------------
(***************************************************************************)
(* The acting side of a session for TLC: the operator's prompt, the         *)
(* approval cards, the calls of tools and of MCP servers.  Each behaviour is *)
(* of one of these parts; the others stay as they begin.                    *)
(***************************************************************************)
EXTENDS OperatorShell, ApprovalCards, ToolCalls, McpServers

CONSTANTS a1, a2

VARIABLE part

\* Two programs, one with a subcommand, alone and in compound commands; a tool
\* that is no command.
AllCalls ==
  {[tool |-> "execute_command", segs |-> s] :
     s \in {<<>>, << <<"ls">> >>, << <<"git", "log">> >>,
            << <<"ls">>, <<"git", "log">> >>, << <<"git", "push">>, <<"ls">> >>}}
  \cup {[tool |-> "write_file", segs |-> <<>>]}

Case(mode, approver, crew, shapes) ==
  [mode |-> mode, approver |-> approver, hooks |-> approver, crew |-> crew, batches |-> shapes,
   known |-> crew # {a1}]

\* One agent, in every mode, with a batch of each shape: sequential and
\* parallel, blocked and run; and two agents at work on a file
\* that both have read.
AllScenarios ==
  {Case(m, m = "ask", {a1}, {<<"write">>, <<"read", "safe">>, <<"spawn", "read">>,
                             <<"spawn", "ghost">>, <<"fetch", "fetch">>,
                             <<"command">>, <<"click">>}) :
     m \in {"plan", "read_only", "ask", "default"}}
  \cup {Case("ask", FALSE, {a1}, {<<"write">>, <<"spawn", "read">>})}
  \cup {Case("default", FALSE, {a1, a2}, {<<"write">>, <<"safe">>})}

\* The parts that do not act begin in one state.
ActingInit ==
  /\ ShellInit /\ CardsInit /\ TCInit /\ McpInit
  /\ part \in {"prompt", "cards", "tools", "mcp"}
  /\ part # "prompt" => ui = "inline" /\ perms.mode = "ask"
  /\ part # "tools" => settings = CHOOSE s \in Scenarios : TRUE

ActingNext ==
  \/ part = "prompt" /\ ShellNext /\ UNCHANGED <<part, cardVars, tcVars, mcpVars>>
  \/ part = "cards" /\ CardsNext /\ UNCHANGED <<part, shellVars, tcVars, mcpVars>>
  \/ part = "tools" /\ TCNext /\ UNCHANGED <<part, shellVars, cardVars, mcpVars>>
  \/ part = "mcp" /\ McpNext /\ UNCHANGED <<part, shellVars, cardVars, tcVars>>

ActingSpec == ActingInit /\ [][ActingNext]_<<part, shellVars, cardVars, tcVars, mcpVars>>
=============================================================================
