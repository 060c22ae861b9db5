---------------------------- MODULE PlayJournal ----------------------------
(***************************************************************************)
(* What the play log promises: entries are offered one after the other,    *)
(* and the log keeps some of them, each at most once, as they were offered *)
(* and in the order in which they were offered.  An entry may be lost, but *)
(* none is invented, changed, repeated or overtaken by a later one.        *)
(***************************************************************************)
EXTENDS Naturals, Sequences

CONSTANTS
    Entries,    \* what can be offered
    MaxOffered  \* bound: entries offered

VARIABLES
    offered,    \* the entries offered so far
    written,    \* the entries of the log
    upTo        \* how many of the offered entries have been written or passed over

JInit == offered = <<>> /\ written = <<>> /\ upTo = 0

Offer ==
    /\ Len(offered) < MaxOffered
    /\ \E e \in Entries : offered' = Append(offered, e)
    /\ UNCHANGED <<written, upTo>>

\* An entry is written; those before it that have not been are passed over for good.
Write ==
    /\ upTo' \in (upTo + 1)..Len(offered)
    /\ written' = Append(written, offered[upTo'])
    /\ UNCHANGED offered

JNext == Offer \/ Write

JSpec == JInit /\ [][JNext]_<<offered, written, upTo>>
=============================================================================
