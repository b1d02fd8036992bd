----------------------------- MODULE MCMemories -----------------------------
(***************************************************************************)
(* An instance of Memories for TLC in which processes do nothing but store  *)
(* what they are told and recall it.                                        *)
(***************************************************************************)
EXTENDS Memories, TLC

CONSTANTS m1, m2

StorersAlike == Permutations(MemProcs)

StoringNext == \E p \in MemProcs :
    \/ \E text \in Texts, success \in BOOLEAN : Remember(p, "target", text, success)
    \/ LinkRead(p) \/ LinkOther(p) \/ LinkSelf(p)
    \/ RecallLexical(p) \/ RecallRest(p) \/ Inject(p)

StoringSpec == MemInit /\ [][StoringNext]_memVars
=============================================================================
