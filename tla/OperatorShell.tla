--------------------------- MODULE OperatorShell ----------------------------
(***************************************************************************)
(* What becomes of what the operator types: the prompt of the REPL, of the *)
(* inline interface and of the full-screen one (holmes-cli: chat.rs,       *)
(* inline_ui.rs, tui.rs), the queues between the prompt and the turn, the  *)
(* switch to another session, and plan mode.                               *)
(*                                                                         *)
(* A line is a number, given in the order of typing.  A turn is seen from  *)
(* its queues: notes are recorded, the line is recorded, and at every      *)
(* iteration boundary the steering queue is taken and recorded; what the   *)
(* turn does in between is TurnLoop's.                                     *)
(***************************************************************************)
EXTENDS Naturals, Sequences, FiniteSets, SequencesExt

CONSTANTS
    Interfaces,  \* of "repl", "inline" and "tui"
    MaxLines,    \* bound: lines typed
    MaxFaults    \* bound: store or file writes that fail

ASSUME ShellAssumption ==
    /\ Interfaces \subseteq {"repl", "inline", "tui"}
    /\ MaxLines \in Nat /\ MaxFaults \in Nat

VARIABLES
    ui,       \* the interface of this process
    at,       \* where it is
    input,    \* <<>>, or the line a turn is to be run for
    queue,    \* the queues a line can wait in, by name
    told,     \* lines on record in the session, in order
    left,     \* lines given up: at a switch, or with an error shown
    lines,    \* lines typed so far
    card,     \* an approval card owns the keyboard
    cancel,   \* the interrupt flag of ChatContext
    drain,    \* tui: the queued lines have been swapped out
    perms,    \* [mode, disk, prev]: permission mode, config.yaml's, plan_prev_mode
    faults

shellVars == <<ui, at, input, queue, told, left, lines, card, cancel, drain, perms, faults>>

Modes == {"default", "ask", "read_only"}

Queues == {"notes", "pending", "steering", "typed", "queued", "batch"}
Empty == [q \in Queues |-> <<>>]

\* apply_steering_notes, the turn, and the interface's own steps behind it.
InTurn == {"notes", "begun", "boundary", "draining", "thinking"}

ShellInit ==
    /\ ui \in Interfaces
    /\ at = "idle" /\ input = <<>> /\ queue = Empty
    /\ told = <<>> /\ left = {} /\ lines = 0
    /\ card = FALSE /\ cancel = FALSE
    /\ drain = FALSE
    /\ perms \in {[mode |-> m, disk |-> m, prev |-> "none"] : m \in {"default", "ask"}}
    /\ faults = 0

Typed == lines + 1
CanType == lines < MaxLines
Types == CanType /\ lines' = Typed
Put(q, s) == [queue EXCEPT ![q] = s]
Pushed(q, l) == Put(q, Append(queue[q], l))
Waiting(qs) == UNION {ToSet(queue[q]) : q \in qs}

StoreFails == faults < MaxFaults /\ faults' = faults + 1

\* After a command the REPL reads on; the inline interface runs what is queued.
AfterCommand == IF ui = "inline" THEN "next" ELSE "idle"

-----------------------------------------------------------------------------
(* The prompt.                                                             *)

Prompt == at = "idle"

\* A turn for the line just typed.
Runs == Types /\ input' = <<Typed>> /\ at' = "notes"

\* The REPL's loop, the inline interface's submit (which also starts the turn
\* behind /goal), and the full-screen one's.
Submits(u) ==
    /\ ui = u /\ Prompt /\ Runs
    /\ UNCHANGED <<ui, queue, told, left, card, cancel, drain, perms, faults>>

ReplSubmit == Submits("repl")
InlineSubmit == Submits("inline")
TuiSubmit == Submits("tui")

\* /queue and /steer.
QueueTurn ==
    /\ Prompt /\ ui # "tui" /\ Types
    /\ queue' = Pushed("queued", Typed)
    /\ at' = AfterCommand
    /\ UNCHANGED <<ui, input, told, left, card, cancel, drain, perms, faults>>

Steer ==
    /\ Prompt /\ ui # "tui" /\ Types
    /\ queue' = Pushed("notes", Typed)
    /\ at' = AfterCommand
    /\ UNCHANGED <<ui, input, told, left, card, cancel, drain, perms, faults>>

\* switch_to: what waits for the session left behind goes.  A handler whose
\* session cannot be made or loaded reports it and stays.
SwitchTo(u) ==
    /\ Prompt /\ ui \in u
    /\ \/ /\ left' = left \cup Waiting({"notes", "steering", "queued"})
          /\ queue' = [queue EXCEPT !["notes"] = <<>>, !["steering"] = <<>>, !["queued"] = <<>>]
          /\ UNCHANGED faults
       \/ StoreFails /\ UNCHANGED <<left, queue>>
    /\ at' = AfterCommand
    /\ UNCHANGED <<ui, input, told, lines, card, cancel, drain, perms>>

NewSession == SwitchTo({"repl", "inline"})
ResumeSession == SwitchTo({"repl", "inline"})
ForkSession == SwitchTo({"repl", "inline"})
TuiSwitch == SwitchTo({"tui"})

\* /rollback: rebuild_runtime_from_events clears the same queues.
Rollback == SwitchTo({"repl", "inline"})

\* /quit, and the next start: only the store and config.yaml remain.
Restart ==
    /\ Prompt
    /\ left' = left \cup Waiting(Queues) /\ queue' = Empty
    /\ perms' = [perms EXCEPT !.mode = perms.disk, !.prev = "none"]
    /\ UNCHANGED <<ui, at, input, told, lines, card, cancel, drain, faults>>

-----------------------------------------------------------------------------
(* Permissions and plan mode.                                              *)

\* save_config writes the whole configuration, the mode of /plan included.
Saved(p) ==
    \/ perms' = [p EXCEPT !.disk = p.mode] /\ UNCHANGED faults
    \/ perms' = p /\ StoreFails

\* /permissions mode and reset.
SetMode ==
    /\ Prompt /\ ui # "tui"
    /\ \E m \in Modes \ {perms.mode} : Saved([perms EXCEPT !.mode = m])
    /\ at' = AfterCommand
    /\ UNCHANGED <<ui, input, queue, told, left, lines, card, cancel, drain>>

\* /permissions allow, deny, remove and auto-read-only, and /guards.
SetOther ==
    /\ Prompt /\ ui # "tui" /\ perms.disk # perms.mode
    /\ Saved(perms)
    /\ at' = AfterCommand
    /\ UNCHANGED <<ui, input, queue, told, left, lines, card, cancel, drain>>

\* The overlays of the full-screen interface: one that cannot save ends it.
TuiSetMode ==
    /\ Prompt /\ ui = "tui"
    /\ \E m \in Modes \ {perms.mode} : perms' = [perms EXCEPT !.mode = m, !.disk = m]
    /\ UNCHANGED <<ui, at, input, queue, told, left, lines, card, cancel, drain, faults>>

\* cmd_plan.
Plan ==
    /\ Prompt /\ ui = "inline"
    /\ perms' = [perms EXCEPT !.prev = IF @ = "none" THEN perms.mode ELSE @, !.mode = "read_only"]
    /\ \/ Runs
       \/ at' = AfterCommand /\ UNCHANGED <<input, lines>>
    /\ UNCHANGED <<ui, queue, told, left, card, cancel, drain, faults>>

\* cmd_approve and cmd_reject.
Approve ==
    /\ Prompt /\ ui = "inline" /\ perms.prev # "none"
    /\ perms' = [perms EXCEPT !.mode = perms.prev, !.prev = "none"]
    /\ Runs
    /\ UNCHANGED <<ui, queue, told, left, card, cancel, drain, faults>>

Reject ==
    /\ Prompt /\ ui = "inline" /\ perms.prev # "none"
    /\ Runs
    /\ UNCHANGED <<ui, queue, told, left, card, cancel, drain, perms, faults>>

-----------------------------------------------------------------------------
(* A turn, seen from its queues.                                           *)

\* An error that leaves run_runtime_input_with_sink before the turn: the
\* steering queue stays as it is.
NoteFails ==
    /\ at = "notes" /\ queue["notes"] # <<>> /\ StoreFails
    /\ left' = left \cup ToSet(queue["notes"]) \cup ToSet(input)
    /\ queue' = Put("notes", <<>>) /\ input' = <<>>
    /\ at' = IF ui = "tui" THEN "stopping" ELSE "next"
    /\ UNCHANGED <<ui, told, lines, card, cancel, drain, perms>>

ApplyNote ==
    /\ at = "notes" /\ queue["notes"] # <<>>
    /\ told' = Append(told, Head(queue["notes"]))
    /\ queue' = Put("notes", Tail(queue["notes"]))
    /\ UNCHANGED <<ui, at, input, left, lines, card, cancel, drain, perms, faults>>

BeginTurn ==
    /\ at = "notes" /\ queue["notes"] = <<>>
    /\ cancel' = FALSE /\ at' = "begun"
    /\ UNCHANGED <<ui, input, queue, told, left, lines, card, drain, perms, faults>>

RecordInput ==
    /\ at = "begun"
    /\ told' = told \o input /\ input' = <<>> /\ at' = "boundary"
    /\ UNCHANGED <<ui, queue, left, lines, card, cancel, drain, perms, faults>>

\* Fault: the queue is read and cleared only when the turn ends.
ReadSteering ==
    /\ at = "boundary" /\ ~cancel
    /\ queue' = Put("pending", queue["steering"])
    /\ at' = "draining"
    /\ UNCHANGED <<ui, input, told, left, lines, card, cancel, drain, perms, faults>>

\* drain_steering takes the queue, then records line after line.
TakeSteering ==
    /\ at = "boundary" /\ ~cancel
    /\ queue' = [queue EXCEPT !["pending"] = queue["steering"], !["steering"] = <<>>]
    /\ at' = "draining"
    /\ UNCHANGED <<ui, input, told, left, lines, card, cancel, drain, perms, faults>>

RecordPending ==
    /\ at = "draining" /\ queue["pending"] # <<>>
    /\ told' = Append(told, Head(queue["pending"]))
    /\ queue' = Put("pending", Tail(queue["pending"]))
    /\ UNCHANGED <<ui, at, input, left, lines, card, cancel, drain, perms, faults>>

Think ==
    /\ at = "draining" /\ queue["pending"] = <<>>
    /\ at' = "thinking"
    /\ UNCHANGED <<ui, input, queue, told, left, lines, card, cancel, drain, perms, faults>>

NextIteration ==
    /\ at = "thinking" /\ ~card
    /\ at' = "boundary"
    /\ UNCHANGED <<ui, input, queue, told, left, lines, card, cancel, drain, perms, faults>>

\* transfer_steering_leftovers.
Leftovers == [queue EXCEPT !["queued"] = @ \o queue["steering"], !["steering"] = <<>>]

\* The turn returns, by an answer, an interrupt or an error; an error leaves
\* the line, or what was taken and not yet recorded, behind.  A card still
\* open is denied (deny_unanswered).
Ends ==
    /\ queue' = [Leftovers EXCEPT !["pending"] = <<>>]
    /\ input' = <<>> /\ card' = FALSE
    /\ at' = IF ui = "tui" THEN "stopping" ELSE "next"
    /\ UNCHANGED <<ui, told, lines, drain, perms>>

TurnEnds ==
    /\ \/ at = "thinking" /\ ~card /\ UNCHANGED cancel
       \/ at = "boundary" /\ cancel /\ cancel' = FALSE
    /\ Ends
    /\ UNCHANGED <<left, faults>>

TurnFails ==
    /\ at \in {"begun", "draining", "thinking"} /\ StoreFails
    /\ left' = left \cup ToSet(input) \cup ToSet(queue["pending"])
    /\ Ends
    /\ UNCHANGED cancel

-----------------------------------------------------------------------------
(* The keyboard during a turn.                                             *)

\* dispatch_busy_key of the inline interface; the watcher of the other.
TypeAhead ==
    /\ ui = "inline" /\ at \in InTurn /\ ~card /\ Types
    /\ queue' = Pushed("steering", Typed)
    /\ UNCHANGED <<ui, at, input, told, left, card, cancel, drain, perms, faults>>

WatcherTypes ==
    /\ ui = "tui" /\ at \in InTurn \cup {"stopping"} /\ Types
    /\ queue' = Pushed("typed", Typed)
    /\ UNCHANGED <<ui, at, input, told, left, card, cancel, drain, perms, faults>>

PressEsc ==
    /\ ~card /\ ~cancel
    /\ \/ ui = "inline" /\ at \in InTurn
       \/ ui = "tui" /\ at \in InTurn \cup {"stopping"}
    /\ cancel' = TRUE
    /\ UNCHANGED <<ui, at, input, queue, told, left, lines, card, drain, perms, faults>>

\* In ask mode a call asks; the card owns every key until it is answered or
\* the request times out, and a rejection may carry a line for the model.
OpenCard ==
    /\ at = "thinking" /\ ui = "inline" /\ perms.mode = "ask" /\ ~card
    /\ card' = TRUE
    /\ UNCHANGED <<ui, at, input, queue, told, left, lines, cancel, drain, perms, faults>>

AnswerCard ==
    /\ card /\ card' = FALSE
    /\ \/ UNCHANGED <<queue, lines>>
       \/ Types /\ queue' = Pushed("steering", Typed)
    /\ UNCHANGED <<ui, at, input, told, left, cancel, drain, perms, faults>>

-----------------------------------------------------------------------------
(* Behind a turn.                                                          *)

\* The watcher has stopped: its lines are queued (tui.rs, run_turn).
StopWatcher ==
    /\ at = "stopping"
    /\ queue' = [queue EXCEPT !["queued"] = @ \o queue["typed"], !["typed"] = <<>>]
    /\ at' = "next"
    /\ UNCHANGED <<ui, input, told, left, lines, card, cancel, drain, perms, faults>>

\* The submit loop, and drain_queued_turns of the REPL.
RunQueued ==
    /\ at = "next" /\ ui # "tui" /\ queue["queued"] # <<>>
    /\ input' = <<Head(queue["queued"])>>
    /\ queue' = Put("queued", Tail(queue["queued"]))
    /\ at' = "notes"
    /\ UNCHANGED <<ui, told, left, lines, card, cancel, drain, perms, faults>>

BackToPrompt ==
    /\ at = "next" /\ ui # "tui" /\ queue["queued"] = <<>>
    /\ at' = "idle"
    /\ UNCHANGED <<ui, input, queue, told, left, lines, card, cancel, drain, perms, faults>>

\* drain_queued_turns of the full-screen interface swaps the queue out once:
\* what is typed during one of its turns waits for the next line submitted.
Swap ==
    /\ at = "next" /\ ui = "tui" /\ ~drain
    /\ queue' = [queue EXCEPT !["batch"] = queue["queued"], !["queued"] = <<>>]
    /\ drain' = TRUE
    /\ UNCHANGED <<ui, at, input, told, left, lines, card, cancel, perms, faults>>

RunBatch ==
    /\ at = "next" /\ drain /\ queue["batch"] # <<>>
    /\ input' = <<Head(queue["batch"])>>
    /\ queue' = Put("batch", Tail(queue["batch"]))
    /\ at' = "notes"
    /\ UNCHANGED <<ui, told, left, lines, card, cancel, drain, perms, faults>>

BatchDone ==
    /\ at = "next" /\ drain /\ queue["batch"] = <<>>
    /\ at' = "idle" /\ drain' = FALSE
    /\ UNCHANGED <<ui, input, queue, told, left, lines, card, cancel, perms, faults>>

-----------------------------------------------------------------------------
ShellNext ==
    \/ ReplSubmit \/ InlineSubmit \/ TuiSubmit \/ QueueTurn \/ Steer
    \/ NewSession \/ ResumeSession \/ ForkSession \/ Rollback \/ TuiSwitch \/ Restart
    \/ SetMode \/ SetOther \/ TuiSetMode \/ Plan \/ Approve \/ Reject
    \/ NoteFails \/ ApplyNote \/ BeginTurn \/ RecordInput
    \/ TakeSteering \/ RecordPending \/ Think \/ NextIteration \/ TurnEnds \/ TurnFails
    \/ TypeAhead \/ WatcherTypes \/ PressEsc \/ OpenCard \/ AnswerCard
    \/ StopWatcher \/ RunQueued \/ BackToPrompt \/ Swap \/ RunBatch \/ BatchDone

ShellSpec == ShellInit /\ [][ShellNext]_shellVars

-----------------------------------------------------------------------------
(* Properties.                                                             *)

\* Where lines are kept: for the turn, on record, and in the queues.
Kept ==
    [p \in Queues \cup {"input", "told"} |->
       CASE p = "input" -> input [] p = "told" -> told [] p \in Queues -> queue[p]]

\* Of the lines 1..n each is either in gone or at one position of one of the
\* sequences s, and nothing else is.
Once(s, gone, n) ==
    /\ gone \subseteq 1..n
    /\ \A p \in DOMAIN s : \A i \in DOMAIN s[p] : s[p][i] \in (1..n) \ gone
    /\ \A l \in (1..n) \ gone : \E p \in DOMAIN s : \E i \in DOMAIN s[p] : s[p][i] = l
    /\ \A p, q \in DOMAIN s : \A i \in DOMAIN s[p], j \in DOMAIN s[q] :
         s[p][i] = s[q][j] => p = q /\ i = j

\* Every line the operator has typed is in exactly one place, on record once
\* or in one queue, unless it was given up at a switch or with an error: no
\* interleaving of typing, boundaries, interrupts, cards and queued turns
\* loses one or runs it twice.
EveryLineOnce == Once(Kept, left, lines)

=============================================================================
