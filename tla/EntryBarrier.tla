----------------------------- MODULE EntryBarrier -----------------------------
(***************************************************************************)
(* What an entry into the market promises, whatever the venue, the recovery *)
(* and a crash do meanwhile.  One action at a time raises the barrier, while *)
(* no trade is open and once in its life; it is sent at most once, and       *)
(* exposure grows only by what it sent; and the barrier comes down only over *)
(* exposure that is guarded by an open trade and the stop it names.  From    *)
(* then on exposure only shrinks and stays guarded.  The close of a trade    *)
(* may let a small part of it go, which nobody guards.                       *)
(***************************************************************************)
EXTENDS Naturals

CONSTANTS
    Decisions,    \* the logical entry actions
    None,         \* no action
    Part          \* a close may let go one lot in so many

VARIABLES
    barrier,   \* the action that keeps all others out
    raised,    \* the actions that ever raised it
    sent,      \* how often each action was sent
    held,      \* the lots held
    owned,     \* the lots of the open trade
    loose,     \* the lots held that a close let go
    bare       \* the lots held that nothing guards: all or none

BarrierInit ==
    /\ barrier = None
    /\ raised = {}
    /\ sent = [d \in Decisions |-> 0]
    /\ held = 0 /\ owned = 0 /\ loose = 0
    /\ bare = 0

Raise(d) ==
    /\ barrier = None /\ owned = 0 /\ held <= loose
    /\ d \notin raised
    /\ barrier' = d
    /\ raised' = raised \cup {d}
    /\ UNCHANGED <<sent, held, owned, loose, bare>>

Send ==
    /\ barrier # None
    /\ sent[barrier] = 0
    /\ sent' = [sent EXCEPT ![barrier] = 1]
    /\ UNCHANGED <<barrier, raised, held, owned, loose, bare>>

Fill ==
    /\ barrier # None
    /\ sent[barrier] = 1
    /\ held' = held + 1
    /\ bare' \in {0, held'}
    /\ UNCHANGED <<barrier, raised, sent, owned, loose>>

\* What the actions on an exposure that does not grow have in common: behind the
\* barrier it may be bare, otherwise never.
Kept ==
    /\ bare' \in {0, held'}
    /\ barrier = None => bare' = 0
    /\ UNCHANGED <<barrier, raised, sent>>

\* Exposure shrinks, or its trade or its stop changes.
Move ==
    /\ held' \in 0..held
    /\ loose' \in 0..loose
    /\ owned' \in Nat
    /\ Kept

\* A trade is closed, the tolerated part of it still held.
LetGo ==
    /\ \E left \in 0..owned : left * Part <= owned /\ loose' \in 0..(loose + left)
    /\ owned' = 0
    /\ held' = held
    /\ Kept

Lower ==
    /\ barrier # None
    /\ bare = 0
    /\ barrier' = None
    /\ UNCHANGED <<raised, sent, held, owned, loose, bare>>

BarrierNext ==
    Move \/ LetGo \/ Fill \/ Send \/ Lower \/ \E d \in Decisions : Raise(d)

BarrierSpec ==
    BarrierInit /\ [][BarrierNext]_<<barrier, raised, sent, held, owned, loose, bare>>
=============================================================================
