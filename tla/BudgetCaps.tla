----------------------------- MODULE BudgetCaps ------------------------------
(***************************************************************************)
(* How the caps of a shared budget get into the database, and how the      *)
(* processes agree on them (nanobot/kernel/budget_shared.py).  The first   *)
(* object constructed for a budget stores its caps, a later one with other *)
(* caps is refused unless it resets them.  A constructor that cannot get   *)
(* the write lock only looks at the stored caps, and leaves the write to   *)
(* the first admission of its object.                                      *)
(***************************************************************************)
EXTENDS Naturals

CONSTANTS
    Procs,   \* one SharedCapBudget object each, all for one budget_id
    Caps,    \* the (limit_usd, limit_tokens, per_tag, allow_unpriced) tuples
    None,    \* no caps stored
    ReadsFail,  \* reads of a locked database may fail too (it is not in WAL mode)
    MaxConstructions  \* bound: constructions of a behaviour

ASSUME CapsAssumption ==
    /\ None \notin Caps
    /\ ReadsFail \in BOOLEAN
    /\ MaxConstructions \in Nat

VARIABLES
    stored,        \* the row of budget_caps
    object,        \* object[p]: the object of process p
    constructions  \* how many objects were constructed

vars == <<stored, object, constructions>>

\* state "deferred": constructed while the database was locked, _caps_pending set.
\* reset: its reset_caps.  superseded (history): the caps were reset by another object
\* since it was constructed.
NoObject ==
    [state |-> "none", caps |-> None, reset |-> FALSE,
     checked |-> FALSE, superseded |-> FALSE]

NewObject(state, caps, reset) ==
    [NoObject EXCEPT !.state = state, !.caps = caps, !.reset = reset,
                     !.checked = (state = "ready")]

Init ==
    /\ stored = None
    /\ object = [p \in Procs |-> NoObject]
    /\ constructions = 0

\* The objects after p stored caps: if that was a reset, the others' are superseded.
Supersede(objects, p, caps) ==
    [q \in Procs |-> IF q # p /\ objects[p].reset /\ stored \notin {None, caps}
                     THEN [objects[q] EXCEPT !.superseded = TRUE] ELSE objects[q]]

\* The caps may be stored: there are none yet, they are the same, or they are reset.
Compatible(caps, reset) == stored = None \/ reset \/ stored = caps

Constructing(p) ==
    /\ object[p].state = "none"
    /\ constructions < MaxConstructions
    /\ constructions' = constructions + 1

\* __init__ with the write lock: _store_caps compares and stores in one transaction.
Construct(p, caps, reset) ==
    /\ Constructing(p)
    /\ Compatible(caps, reset)
    /\ stored' = caps
    /\ object' = Supersede([object EXCEPT ![p] = NewObject("ready", caps, reset)],
                           p, caps)

\* ... and other caps are stored: ValueError, there is no object.
ConstructRefused(p, caps, reset) ==
    /\ Constructing(p)
    /\ ~Compatible(caps, reset)
    /\ UNCHANGED <<stored, object>>

\* __init__ while another connection holds the write lock: _check_caps_readonly
\* raises as above, and passes if it cannot read either; the caps stay pending.
ConstructLocked(p, caps, reset) ==
    /\ Constructing(p)
    /\ ReadsFail \/ Compatible(caps, reset)
    /\ object' = [object EXCEPT ![p] = NewObject("deferred", caps, reset)]
    /\ UNCHANGED stored

\* Mutant of WritesPending: ON CONFLICT DO UPDATE for every object.
WritesPendingAlways(obj) == obj.state = "deferred"

\* _write_pending_caps: ON CONFLICT DO UPDATE for a reset, else DO NOTHING.
WritesPending(obj) == obj.state = "deferred" /\ (obj.reset \/ stored = None)

\* An admission that commits writes the pending caps; then the stored caps apply.
Admit(p) ==
    /\ object[p].state # "none"
    /\ LET caps == object[p].caps
           admitted == [object EXCEPT ![p].state = "ready"]
       IN  IF WritesPending(object[p])
           THEN stored' = caps /\ object' = Supersede(admitted, p, caps)
           ELSE stored' = stored /\ object' = admitted
    /\ UNCHANGED constructions

\* The object, or its process, goes away.
Discard(p) ==
    /\ object[p].state # "none"
    /\ object' = [object EXCEPT ![p] = NoObject]
    /\ UNCHANGED <<stored, constructions>>

Next ==
    \E p \in Procs :
        \/ \E caps \in Caps, reset \in BOOLEAN :
              \/ Construct(p, caps, reset)
              \/ ConstructRefused(p, caps, reset)
              \/ ConstructLocked(p, caps, reset)
        \/ Admit(p)
        \/ Discard(p)

Spec == Init /\ [][Next]_vars

-----------------------------------------------------------------------------
\* An object that compared its caps under the write lock in __init__ runs under the
\* caps it was constructed with, until another object resets them: an admission that
\* writes pending caps later never replaces them unless it was asked to reset.  And no
\* object is past its pending caps while the database has none, which would admit calls
\* without a limit.
CheckedObjectsAgree ==
    \A p \in Procs :
        object[p].state = "ready" =>
            /\ stored # None
            /\ object[p].checked /\ ~object[p].superseded => object[p].caps = stored

=============================================================================
