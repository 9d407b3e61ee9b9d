---------------------------- MODULE MCSweepLease ----------------------------
(* Instances of SweepLease for TLC: a search with few processes, and a led      *)
(* schedule of six.                                                            *)
EXTENDS SweepLease, TLC

MCSymmetry == Permutations(Procs)

VARIABLE at   \* the part of the schedule that is being run, 0 in a search

SearchInit == Init /\ at = 0

SearchNext == Next /\ UNCHANGED at

SearchSpec == SearchInit /\ [][SearchNext]_<<vars, at>>
-----------------------------------------------------------------------------
(* A schedule led to the step that counts: an entry is looked at in quarantine, *)
(* and unlinked there by its name.  The search of a race of six processes over  *)
(* system calls is too deep for TLC; the steps are those of SweepLease, and     *)
(* only who takes the next one is given.                                        *)

CONSTANTS
    dead,    \* died with its acquisition half done: both names are published
    first,   \* clears the dead one's recovery entry and publishes its own
    second,  \* is about to unlink the dead one's entry, and unlinks the first's
    third,   \* puts the first's entry there, instead of the dead one's
    fourth,  \* finds no recovery entry, acquires the lease and holds it
    fifth    \* does the same once the first has moved the fourth's lock away

Until(p, op, name) == [who |-> p, op |-> op, name |-> name]
Die(p)   == Until(p, "die", None)
Hold(p)  == Until(p, "hold", None)

Schedule ==
    << Until(dead, "assert", Recovering), Die(dead),
       Until(first, "quarantine", Recovering),
       Until(second, "quarantine", Recovering),
       Until(third, "quarantine", Recovering),
       Until(first, "inspect", Recovering),
       Until(second, "unlink", Recovering),
       Until(first, "quarantine", Lock),
       Until(third, "inspect", Recovering),
       Until(second, "quarantine", Recovery(dead)),
       Hold(fourth),
       Until(first, "inspect", Lock),
       Hold(fifth) >>

Reached(s) ==
    \/ s.op = "die" /\ phase[s.who] = "dead"
    \/ s.op = "hold" /\ phase[s.who] = "holding"
    \/ Now(s.who, s.op) /\ Head(todo[s.who]).name = s.name

RaceInit == Init /\ at = 1

RaceNext ==
    /\ at \in DOMAIN Schedule
    /\ LET s == Schedule[at] IN
       IF Reached(s) THEN at' = at + 1 /\ UNCHANGED vars
       ELSE /\ at' = at
            /\ IF s.op = "die" THEN Crash(s.who) ELSE Run(s.who)

RaceSpec == RaceInit /\ [][RaceNext]_<<vars, at>>
=============================================================================
