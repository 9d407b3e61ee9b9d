----------------------------- MODULE SweepLease -----------------------------
(***************************************************************************)
(* The lease of a sweep on its output root: processes that contend for it  *)
(* through hard links in one directory, crash at any point, and clear away *)
(* what a dead process left.                                               *)
(*                                                                         *)
(* A process runs a program: a sequence of steps, each one system call on  *)
(* the directory, so that every interleaving of system calls and every     *)
(* crash between two of them is covered.  Helpers of the code are pieces   *)
(* of program.  An owner file is written before anybody can need it, so    *)
(* Create is one step; a name also stands for its quarantined form.        *)
(***************************************************************************)
EXTENDS Naturals, Sequences, FiniteSetsExt

CONSTANTS
    Procs,       \* of one host; each acquires at most once
    MaxCrashes,  \* bound on the processes that die before they are through
    None

Roles == {"owner", "recovery", "retire"}
Files == Procs \X Roles
Lock        == <<None, "lock">>            \* the two published names
Recovering  == <<None, "recovery">>
Names == {Lock, Recovering} \cup Files    \* a file's candidate name is itself

ASSUME LeaseAssumption == MaxCrashes \in Nat /\ None \notin Files

VARIABLES
    dir,      \* name |-> the file it is linked to
    bin,      \* name |-> the file at name.remove
    phase,    \* what a process is doing
    todo,     \* the rest of its program
    published, \* the names replacementPublished, recoveryPublished stand for
    alone,    \* history: no other process lived since it began
    slipped,  \* history: a removal unlinked another file than it had looked at
    stuck,    \* history: what a removal had caught could not be put back
    crashes   \* processes that died, up to MaxCrashes

vars == <<dir, bin, phase, todo, published, alone, slipped, stuck, crashes>>

Alive(p) == phase[p] \notin {"new", "over", "dead"}

Owner(p)    == <<p, "owner">>
Recovery(p) == <<p, "recovery">>
Retire(p)   == <<p, "retire">>

Links(f) == Cardinality({n \in Names : dir[n] = f})
                + Cardinality({n \in Names : bin[n] = f})

\* isStaleOwner.
Stale(f) == ~Alive(f[1])

\* One of the two reads of readPublishedOwner: the file is here, under two names.
Reads(f, name) == dir[name] = f /\ Links(f) = 2
-----------------------------------------------------------------------------
(* Programs *)

Step(op, name, file) == [op |-> op, name |-> name, file |-> file, links |-> 2,
                         seen |-> FALSE]

\* removeEntry: quarantine the name, look at what was caught, unlink it.
Remove(name, f, links) ==
    << Step("quarantine", name, f), [Step("inspect", name, f) EXCEPT !.links = links],
       Step("unlink", name, f) >>

\* reclaimPublishedPath.
Reclaim(name, f) ==
    << Step("assert", name, f) >> \o Remove(name, f, 2) \o Remove(f, f, 1)

\* publishCandidate.
Publish(f, name) == << Step("link", name, f), Step("confirm", name, f) >>

Unguarded(p) ==
    << Step("create", Owner(p), Owner(p)), Step("clear", Lock, None) >>
    \o Publish(Owner(p), Lock) \o << Step("assert", Lock, Owner(p)) >>

Acquisition(p) ==
    << Step("clear", Recovering, None),
       Step("create", Owner(p), Owner(p)),
       Step("create", Recovery(p), Recovery(p)) >>
    \o Publish(Recovery(p), Recovering)
    \o << Step("scan", None, None), Step("clear", Lock, None) >>
    \o Publish(Owner(p), Lock)
    \o Reclaim(Recovering, Recovery(p))
    \o << Step("retired", Recovering, None), Step("assert", Lock, Owner(p)) >>

\* release().
Retirement(p) ==
    << Step("clear", Recovering, None),
       Step("create", Retire(p), Retire(p)) >>
    \o Publish(Retire(p), Recovering)
    \o Reclaim(Lock, Owner(p))
    \o Reclaim(Recovering, Retire(p))

\* The catch blocks of acquireSweepLease: what was published is reclaimed, and
\* the candidates are removed whatever comes of that.
Undo(p) ==
    (IF Lock \in published[p] THEN Reclaim(Lock, Owner(p)) ELSE <<>>)
        \o (IF Recovering \in published[p] THEN Reclaim(Recovering, Recovery(p))
            ELSE <<>>)
        \o << Step("next", None, None) >> \o Remove(Owner(p), Owner(p), 1)
        \o << Step("next", None, None) >> \o Remove(Recovery(p), Recovery(p), 1)
-----------------------------------------------------------------------------
Init ==
    /\ dir = [n \in Names |-> None]
    /\ bin = [n \in Names |-> None]
    /\ phase = [p \in Procs |-> "new"]
    /\ todo = [p \in Procs |-> <<>>]
    /\ published = [p \in Procs |-> {}]
    /\ alone = [p \in Procs |-> FALSE]
    /\ slipped = FALSE
    /\ stuck = FALSE
    /\ crashes = 0

Begin(p) ==
    /\ phase[p] = "new"
    /\ phase' = [phase EXCEPT ![p] = "acquiring"]
    /\ todo' = [todo EXCEPT ![p] = Acquisition(p)]
    /\ alone' = [q \in Procs |-> IF q = p THEN \A o \in Procs : ~Alive(o)
                                 ELSE alone[q] /\ ~Alive(q)]
    /\ UNCHANGED <<dir, bin, published, slipped, stuck, crashes>>

Now(p, op) == todo[p] # <<>> /\ Head(todo[p]).op = op

\* The step is over, and these come before the rest.
Continue(p, more) == todo' = [todo EXCEPT ![p] = more \o Tail(@)]

Proceed(p) == Continue(p, <<>>) /\ UNCHANGED phase

\* A step throws: a failed acquisition is undone, a failed undo goes on with
\* the next candidate, a failed release is over.
NextCandidate(s) ==
    LET marks == {i \in DOMAIN s : s[i].op = "next"} IN
    IF marks = {} THEN <<>> ELSE SubSeq(s, Min(marks), Len(s))

Throw(p) ==
    IF phase[p] = "acquiring"
    THEN /\ phase' = [phase EXCEPT ![p] = "undoing"]
         /\ todo' = [todo EXCEPT ![p] = Undo(p)]
    ELSE /\ todo' = [todo EXCEPT ![p] = NextCandidate(@)]
         /\ UNCHANGED phase

Reading == UNCHANGED <<dir, bin, published, alone, slipped, stuck, crashes>>
Linking == UNCHANGED <<published, alone, slipped, stuck, crashes>>

\* open with O_EXCL, write, sync.
Create(p) ==
    LET s == Head(todo[p]) IN
    /\ Now(p, "create")
    /\ dir' = [dir EXCEPT ![s.name] = s.file]
    /\ Proceed(p)
    /\ UNCHANGED bin /\ Linking

\* publishCandidate: link(2) fails if the name is taken.
Link(p) ==
    LET s == Head(todo[p]) IN
    /\ Now(p, "link")
    /\ IF dir[s.name] = None
       THEN dir' = [dir EXCEPT ![s.name] = s.file] /\ Proceed(p)
       ELSE UNCHANGED dir /\ Throw(p)
    /\ UNCHANGED bin /\ Linking

\* readPublishedOwner reads the published name, then the candidate's.
FirstRead(p) ==
    todo' = [todo EXCEPT ![p] = << [Head(@) EXCEPT !.seen = TRUE] >> \o Tail(@)]

\* What is not as just published is reclaimed, and publishCandidate throws.
Confirm(p) ==
    LET s == Head(todo[p])
        name == IF s.seen THEN s.file ELSE s.name IN
    /\ Now(p, "confirm")
    /\ IF ~Reads(s.file, name)
       THEN Continue(p, Reclaim(s.name, s.file) \o << Step("throw", None, None) >>)
       ELSE IF s.seen THEN Continue(p, <<>>) ELSE FirstRead(p)
    /\ published' = IF s.seen /\ Reads(s.file, name)
                    THEN [published EXCEPT ![p] = @ \cup {s.name}]
                    ELSE published
    /\ UNCHANGED <<dir, bin, phase, alone, slipped, stuck, crashes>>

AssertPublished(p) ==
    LET s == Head(todo[p])
        name == IF s.seen THEN s.file ELSE s.name IN
    /\ Now(p, "assert")
    /\ IF ~Reads(s.file, name) THEN Throw(p)
       ELSE IF s.seen THEN Proceed(p)
       ELSE FirstRead(p) /\ UNCHANGED phase
    /\ Reading

Retired(p) ==
    /\ Now(p, "retired")
    /\ published' = [published EXCEPT ![p] = @ \ {Head(todo[p]).name}]
    /\ Proceed(p)
    /\ UNCHANGED <<dir, bin, alone, slipped, stuck, crashes>>

ThrowStep(p) == Now(p, "throw") /\ Throw(p) /\ Reading
NextStep(p)  == Now(p, "next") /\ Proceed(p) /\ Reading

\* clearStaleRecovery, and the same for the lock in acquireSweepLease: nothing
\* to clear, or a readable owner that is dead and is reclaimed, or a conflict.
Clear(p) ==
    LET s == Head(todo[p]) IN
    /\ Now(p, "clear")
    /\ IF dir[s.name] = None THEN Proceed(p)
       ELSE Continue(p, << Step("judge", s.name, None) >>) /\ UNCHANGED phase
    /\ Reading

Judge(p) ==
    LET s == Head(todo[p])
        f == dir[s.name] IN
    /\ Now(p, "judge")
    /\ IF s.seen
       THEN IF Reads(s.file, s.file) /\ Stale(s.file)
            THEN Continue(p, Reclaim(s.name, s.file)) /\ UNCHANGED phase
            ELSE Throw(p)
       ELSE IF f # None /\ Links(f) = 2
            THEN /\ Continue(p, << [s EXCEPT !.file = f, !.seen = TRUE] >>)
                 /\ UNCHANGED phase
            ELSE Throw(p)
    /\ Reading

\* reclaimStaleLeaseDebris: what the published names do not protect is examined
\* one by one, in no order.  The two names and the directory are read at once.
ProtectedOwn(p) == {Owner(p)}

Protected(p) ==
    {Owner(p)} \cup {f \in Files : /\ f \in {dir[Lock], dir[Recovering]}
                                   /\ Reads(f, f)}

Scan(p) ==
    LET entries == {f \in Files : f \in {dir[f], bin[f]}} \ Protected(p) IN
    /\ Now(p, "scan")
    /\ Continue(p, << [Step("debris", None, None) EXCEPT !.file = entries] >>)
    /\ UNCHANGED phase /\ Reading

\* A quarantined candidate does not bear the name its owner gave it.
Debris(p) ==
    LET s == Head(todo[p])
        rest(f) == [s EXCEPT !.file = @ \ {f}] IN
    /\ Now(p, "debris")
    /\ \/ s.file = {} /\ Proceed(p)
       \/ \E f \in s.file :
             IF dir[f] = f /\ Stale(f)
             THEN Continue(p, Remove(f, f, Links(f)) \o << rest(f) >>) /\ UNCHANGED phase
             ELSE IF bin[f] = f /\ Stale(f) THEN Throw(p)
             ELSE Continue(p, << rest(f) >>) /\ UNCHANGED phase
    /\ Reading

\* renameDirectoryEntryNoReplace; that it fails is ignored.
Quarantine(p) ==
    LET name == Head(todo[p]).name IN
    /\ Now(p, "quarantine")
    /\ IF dir[name] # None /\ bin[name] = None
       THEN /\ bin' = [bin EXCEPT ![name] = dir[name]]
            /\ dir' = [dir EXCEPT ![name] = None]
       ELSE UNCHANGED <<dir, bin>>
    /\ Proceed(p) /\ Linking

\* What was caught must be the file expected, with the links expected; what is
\* not goes back.
Inspect(p) ==
    LET s == Head(todo[p])
        caught == bin[s.name] IN
    /\ Now(p, "inspect")
    /\ IF caught = None THEN Throw(p)
       ELSE IF caught = s.file /\ Links(caught) = s.links THEN Proceed(p)
       ELSE /\ Continue(p, << Step("putback", s.name, None), Step("throw", None, None) >>)
            /\ UNCHANGED phase
    /\ Reading

PutBack(p) ==
    LET name == Head(todo[p]).name IN
    /\ Now(p, "putback")
    /\ IF bin[name] # None /\ dir[name] = None
       THEN /\ dir' = [dir EXCEPT ![name] = bin[name]]
            /\ bin' = [bin EXCEPT ![name] = None]
       ELSE UNCHANGED <<dir, bin>>
    /\ stuck' = (stuck \/ (bin[name] # None /\ dir[name] # None))
    /\ Proceed(p)
    /\ UNCHANGED <<published, alone, slipped, crashes>>

\* By its name, whatever bears it now.
Unlink(p) ==
    LET s == Head(todo[p])
        caught == bin[s.name] IN
    /\ Now(p, "unlink")
    /\ bin' = [bin EXCEPT ![s.name] = None]
    /\ slipped' = (slipped \/ caught \notin {None, s.file})
    /\ IF caught # None THEN Proceed(p) ELSE Throw(p)
    /\ UNCHANGED <<dir, published, alone, stuck, crashes>>

Acquired(p) ==
    /\ phase[p] = "acquiring" /\ todo[p] = <<>>
    /\ phase' = [phase EXCEPT ![p] = "holding"]
    /\ UNCHANGED todo /\ Reading

Release(p) ==
    /\ phase[p] = "holding"
    /\ phase' = [phase EXCEPT ![p] = "releasing"]
    /\ todo' = [todo EXCEPT ![p] = Retirement(p)]
    /\ Reading

\* The process exits: its acquisition failed, or its release came to an end.
Exit(p) ==
    /\ phase[p] \in {"undoing", "releasing"} /\ todo[p] = <<>>
    /\ phase' = [phase EXCEPT ![p] = "over"]
    /\ UNCHANGED todo /\ Reading

Crash(p) ==
    /\ Alive(p)
    /\ crashes < MaxCrashes
    /\ crashes' = crashes + 1
    /\ phase' = [phase EXCEPT ![p] = "dead"]
    /\ todo' = [todo EXCEPT ![p] = <<>>]
    /\ UNCHANGED <<dir, bin, published, alone, slipped, stuck>>

Run(p) ==
    \/ Begin(p) \/ Acquired(p) \/ Release(p) \/ Exit(p)
    \/ Create(p) \/ Link(p) \/ Confirm(p) \/ AssertPublished(p)
    \/ Retired(p) \/ ThrowStep(p) \/ NextStep(p)
    \/ Clear(p) \/ Judge(p) \/ Scan(p) \/ Debris(p)
    \/ Quarantine(p) \/ Inspect(p) \/ PutBack(p) \/ Unlink(p)

Next == \E p \in Procs : Run(p) \/ Crash(p)

Spec == Init /\ [][Next]_vars
-----------------------------------------------------------------------------
Holders == {p \in Procs : phase[p] = "holding"}

\* One run at a time works in an output root, whoever died and whoever clears
\* up after the dead: the second is to be told that the sweep "is already
\* running in this output root".  The code does not keep this (RaceSpec
\* of MCSweepLease).
OneHolder == Cardinality(Holders) <= 1

\* As long as no removal unlinks a file that came in the place of the one it
\* had looked at, one process holds the lease, and its lock and its candidate
\* stay in place, which is what bindPlan asserts and what release needs.
SlipBreaksLease ==
    ~slipped => /\ OneHolder
                /\ \A p \in Holders : Reads(Owner(p), Lock) /\ Reads(Owner(p), Owner(p))

\* A process that meets no other is refused only if an entry stayed in quarantine:
\* that of a process that died between the quarantine and the removal, or one that
\* was caught unasked and found its name taken when it was to go back, for which
\* nobody has to die.  Whatever else the others left is cleared away.
LoneConflictHasCause ==
    \A p \in Procs : phase[p] = "undoing" /\ alone[p] =>
        /\ crashes > 0 \/ stuck
        /\ \E n \in Names : bin[n] # None
=============================================================================
