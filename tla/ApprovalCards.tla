---------------------------- MODULE ApprovalCards ---------------------------
(***************************************************************************)
(* Who says yes to a tool call in ask mode: the approver the runtime waits *)
(* on, its caches of what is always allowed, the cards the inline          *)
(* interface shows and the keys that answer them (holmes-cli:              *)
(* ui/permission.rs, ui/cmdsplit.rs, inline_ui.rs).  ToolCalls sees the    *)
(* same as one step, Approves or Denies.                                   *)
(*                                                                         *)
(* A command is the sequence of the segments split_command makes of it, a  *)
(* segment the sequence of its words; a call of another tool, and one      *)
(* whose arguments hold no command, has no segments.                       *)
(***************************************************************************)
EXTENDS Naturals, Sequences, FiniteSets, SequencesExt

CONSTANTS
    ToolCallsAsked,  \* [tool, segs]: the calls the model may make
    MaxAsked         \* bound: calls made

ASSUME CardsAssumption ==
    /\ MaxAsked \in Nat
    /\ \A c \in ToolCallsAsked : c.segs \in Seq(Seq(STRING))

VARIABLES
    asked,    \* the calls so far: the call and what became of it
    waiting,  \* 0, or the call whose answer the runtime awaits
    channel,  \* requests on their way to the interface
    cards,    \* calls with a card, the first of them on the screen
    always,   \* [tools, prefixes]: always_tools and always_cmd_prefixes
    consents  \* what the operator has agreed to, to judge by

cardVars == <<asked, waiting, channel, cards, always, consents>>

Verdicts == {"waiting", "allowed", "denied"}

CardsInit ==
    /\ asked = <<>> /\ waiting = 0 /\ channel = <<>> /\ cards = <<>>
    /\ always = [tools |-> {}, prefixes |-> {}]
    /\ consents = {}

\* prefix_matches, on words.
Covers(prefix, seg) == IsPrefix(prefix, seg)

Authorized(seg) == \E prefix \in always.prefixes : Covers(prefix, seg)

\* Fault: a compound command passes on the strength of one of its segments.
SkipsOnAny(c) ==
    \/ c.tool \in always.tools
    \/ \E n \in DOMAIN c.segs : Authorized(c.segs[n])

\* The call runs without a card (request_approval, command_gate).
Skips(c) ==
    \/ c.tool \in always.tools
    \/ c.segs # <<>> /\ \A n \in DOMAIN c.segs : Authorized(c.segs[n])

Asked(c, verdict, card) ==
    Append(asked, [call |-> c, verdict |-> verdict, yes |-> FALSE,
                   marks |-> [n \in DOMAIN c.segs |-> card /\ Authorized(c.segs[n])]])

\* The runtime reaches the approval gate with a call.
RequestApproval(c) ==
    /\ waiting = 0 /\ Len(asked) < MaxAsked
    /\ \/ Skips(c) /\ asked' = Asked(c, "allowed", FALSE) /\ UNCHANGED <<waiting, channel>>
       \/ /\ ~Skips(c)
          /\ asked' = Asked(c, "waiting", TRUE)
          /\ waiting' = Len(asked')
          /\ channel' = Append(channel, Len(asked'))
    /\ UNCHANGED <<cards, always, consents>>

\* The interface takes the request; it waits behind a card that is open.
ShowCard ==
    /\ channel # <<>>
    /\ cards' = Append(cards, Head(channel)) /\ channel' = Tail(channel)
    /\ UNCHANGED <<asked, waiting, always, consents>>

\* The segment an "always" is about: the first that was not yet authorized
\* when the card was made (scope_text_of).
Unmarked(a) == {n \in DOMAIN a.call.segs : ~a.marks[n]}
ScopeOf(a) ==
    LET first == {n \in Unmarked(a) : \A k \in Unmarked(a) : n <= k}
    IN a.call.segs[IF first = {} THEN Len(a.call.segs) ELSE CHOOSE n \in first : TRUE]

Verdict(n, v) == [asked EXCEPT ![n].verdict = v, ![n].yes = (v = "allowed")]

\* record, by the approver that received the answer.
Grants(n, new) == IF waiting = n THEN always' = new ELSE UNCHANGED always

\* Keys that answer the card on the screen: once, always under some scope, or
\* no.  An answer to a request that has timed out reaches nobody.
Answers(n, v) ==
    /\ cards' = Tail(cards)
    /\ IF waiting = n THEN waiting' = 0 /\ asked' = Verdict(n, v)
       ELSE UNCHANGED <<waiting, asked>>
    /\ UNCHANGED channel

AllowOnce ==
    /\ cards # <<>> /\ Answers(Head(cards), "allowed")
    /\ UNCHANGED <<always, consents>>

RejectCard ==
    /\ cards # <<>> /\ Answers(Head(cards), "denied")
    /\ UNCHANGED <<always, consents>>

AllowAlways ==
    /\ cards # <<>>
    /\ LET n == Head(cards)
           c == asked[n].call
       IN /\ Answers(n, "allowed")
          /\ IF c.segs = <<>>
             THEN /\ Grants(n, [always EXCEPT !.tools = @ \cup {c.tool}])
                  /\ consents' = consents \cup (IF waiting = n THEN {[tool |-> c.tool, scope |-> <<>>]} ELSE {})
             ELSE \E w \in 1..Len(ScopeOf(asked[n])) :
                    LET scope == SubSeq(ScopeOf(asked[n]), 1, w)
                    IN /\ Grants(n, [always EXCEPT !.prefixes = @ \cup {scope}])
                       /\ consents' = consents \cup
                            (IF waiting = n THEN {[tool |-> c.tool, scope |-> scope]} ELSE {})

\* APPROVAL_TIMEOUT: the call is denied; its card stays where it is.
TimeOut ==
    /\ waiting # 0
    /\ asked' = Verdict(waiting, "denied") /\ waiting' = 0
    /\ UNCHANGED <<channel, cards, always, consents>>

\* The turn is over: cards and requests that are left are denied unread.
DenyUnanswered ==
    /\ waiting = 0 /\ (cards # <<>> \/ channel # <<>>)
    /\ cards' = <<>> /\ channel' = <<>>
    /\ UNCHANGED <<asked, waiting, always, consents>>

CardsNext ==
    \/ \E c \in ToolCallsAsked : RequestApproval(c)
    \/ ShowCard \/ AllowOnce \/ AllowAlways \/ RejectCard \/ TimeOut \/ DenyUnanswered

CardsSpec == CardsInit /\ [][CardsNext]_cardVars

-----------------------------------------------------------------------------
\* A call runs only on the operator's word: a yes to this very call while it
\* was waiting, or for each of its segments an "always" he gave before, on a
\* card whose call was waiting, to words the segment begins with.  Neither a
\* card answered too late nor a part of a compound command grants anything.
OnlyConsentedRuns ==
    \A n \in DOMAIN asked :
        LET a == asked[n] IN
        a.verdict = "allowed" /\ ~a.yes =>
            \/ [tool |-> a.call.tool, scope |-> <<>>] \in consents
            \/ /\ a.call.segs # <<>>
               /\ \A k \in DOMAIN a.call.segs :
                    \E c \in consents : c.scope # <<>> /\ Covers(c.scope, a.call.segs[k])
=============================================================================
