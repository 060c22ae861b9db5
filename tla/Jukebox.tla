------------------------------- MODULE Jukebox -------------------------------
(***************************************************************************)
(* What a guild's queue promises to its listeners, whatever is done to it: *)
(* a track enters the queue at most once, one track is current as long as  *)
(* any is waiting, the current track is replaced only when it leaves, and  *)
(* a track that left never returns.                                        *)
(***************************************************************************)
CONSTANT Track
VARIABLE life   \* where each track is in its life

Stage == {"new", "waiting", "current", "gone"}
TypeOK == life \in [Track -> Stage]

In(stage) == {t \in Track : life[t] = stage}
Active == In("waiting") \cup In("current")

Init == life = [t \in Track |-> "new"]

\* A new track starts at once if nothing is active, or it waits.
Add(t) ==
  /\ life[t] = "new"
  /\ life' = [life EXCEPT ![t] = IF Active = {} THEN "current" ELSE "waiting"]

\* The tracks of S leave.  If the current one is among them and others
\* wait, one of those becomes current.
Drop(S) ==
  LET left == In("waiting") \ S
      successor(c) == [t \in Track |-> CASE t \in S -> "gone"
                                         [] t = c   -> "current"
                                         [] OTHER   -> life[t]]
  IN /\ S \subseteq Active
     /\ \/ /\ In("current") \subseteq S
           /\ \E c \in left : life' = successor(c)
        \/ /\ In("current") \cap S = {} \/ left = {}
           /\ life' = [t \in Track |-> IF t \in S THEN "gone" ELSE life[t]]

Next ==
  \/ \E t \in Track : Add(t)
  \/ \E S \in SUBSET Track : Drop(S)

Spec == Init /\ [][Next]_life
=============================================================================
