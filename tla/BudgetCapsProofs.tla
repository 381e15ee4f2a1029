--------------------------- MODULE BudgetCapsProofs ---------------------------
(***************************************************************************)
(* The agreement on the caps of a shared budget, for any number of objects *)
(* and any caps.  Agreement alone is not inductive: a deferred object is   *)
(* never a checked one, and has caps to store, or its first admission      *)
(* could replace the caps of the others without having looked at them.     *)
(***************************************************************************)
EXTENDS BudgetCaps, TLAPS

\* The types of the budget objects.
Objects ==
    [state : {"none", "deferred", "ready"}, caps : Caps \cup {None},
     reset : BOOLEAN, checked : BOOLEAN, superseded : BOOLEAN]

\* An object is checked only if it left __init__ ready, and every object has caps.
ObjectsConsistent ==
    \A p \in Procs :
        /\ object[p].checked => object[p].state = "ready"
        /\ object[p].state # "none" => object[p].caps \in Caps

\* The inductive invariant.
IInv ==
    /\ stored \in Caps \cup {None}
    /\ object \in [Procs -> Objects]
    /\ ObjectsConsistent
    /\ CheckedObjectsAgree

-----------------------------------------------------------------------------
\* A new object of __init__ is an object, and knows its caps.
LEMMA NewObjectType ==
    ASSUME NEW caps \in Caps, NEW reset \in BOOLEAN, NEW state \in {"deferred", "ready"}
    PROVE  /\ NewObject(state, caps, reset) \in Objects
           /\ NewObject(state, caps, reset).state = state
           /\ NewObject(state, caps, reset).caps = caps
           /\ NewObject(state, caps, reset).reset = reset
           /\ NewObject(state, caps, reset).checked = (state = "ready")
BY DEF NewObject, NoObject, Objects

\* Supersede touches nothing but the superseded mark of the other objects, and
\* sets it whenever a reset replaces caps that were stored.
LEMMA SupersedeEffect ==
    ASSUME NEW objects \in [Procs -> Objects], NEW p \in Procs, NEW caps \in Caps
    PROVE  /\ Supersede(objects, p, caps) \in [Procs -> Objects]
           /\ Supersede(objects, p, caps)[p] = objects[p]
           /\ \A q \in Procs :
                 /\ Supersede(objects, p, caps)[q].state = objects[q].state
                 /\ Supersede(objects, p, caps)[q].caps = objects[q].caps
                 /\ Supersede(objects, p, caps)[q].checked = objects[q].checked
                 /\ objects[q].superseded => Supersede(objects, p, caps)[q].superseded
                 /\ q # p /\ objects[p].reset /\ stored \notin {None, caps}
                      => Supersede(objects, p, caps)[q].superseded
BY DEF Supersede, Objects

-----------------------------------------------------------------------------
\* No object, no caps.
LEMMA InitIInv == Init => IInv
BY DEF Init, IInv, NoObject, Objects, ObjectsConsistent, CheckedObjectsAgree

\* Whoever stores caps, compatible with the stored ones or as a reset, leaves every
\* other checked object in agreement or superseded.
LEMMA StorePreservesOthers ==
    ASSUME IInv, NEW p \in Procs, NEW caps \in Caps,
           NEW objects \in [Procs -> Objects],
           \A q \in Procs : q # p => objects[q] = object[q],
           stored = None \/ objects[p].reset \/ stored = caps,
           stored' = caps, object' = Supersede(objects, p, caps)
    PROVE  \A q \in Procs : q # p =>
              /\ object'[q].checked => object'[q].state = "ready"
              /\ object'[q].state # "none" => object'[q].caps \in Caps
              /\ object'[q].state = "ready" =>
                    (object'[q].checked /\ ~object'[q].superseded
                       => object'[q].caps = stored')
<1> SUFFICES ASSUME NEW q \in Procs, q # p
             PROVE  /\ object'[q].checked => object'[q].state = "ready"
                    /\ object'[q].state # "none" => object'[q].caps \in Caps
                    /\ object'[q].state = "ready" =>
                          (object'[q].checked /\ ~object'[q].superseded
                             => object'[q].caps = stored')
    OBVIOUS
<1>1. /\ object'[q].state = object[q].state /\ object'[q].caps = object[q].caps
      /\ object'[q].checked = object[q].checked
      /\ object[q].superseded => object'[q].superseded
      /\ objects[p].reset /\ stored \notin {None, caps} => object'[q].superseded
    BY SupersedeEffect
<1>2. /\ object[q].checked => object[q].state = "ready"
      /\ object[q].state # "none" => object[q].caps \in Caps
    BY DEF IInv, ObjectsConsistent
<1>3. object[q].state = "ready" =>
            /\ stored # None
            /\ object[q].checked /\ ~object[q].superseded => object[q].caps = stored
    BY DEF IInv, CheckedObjectsAgree
<1> QED
    BY <1>1, <1>2, <1>3

\* __init__ with the write lock.
LEMMA ConstructIInv ==
    ASSUME IInv, NEW p \in Procs, NEW caps \in Caps, NEW reset \in BOOLEAN,
           Construct(p, caps, reset)
    PROVE  IInv'
<1> DEFINE new == NewObject("ready", caps, reset)
           objects == [object EXCEPT ![p] = new]
<1>1. /\ new \in Objects /\ new.state = "ready" /\ new.caps = caps
      /\ new.reset = reset /\ new.checked
    BY NewObjectType
<1> HIDE DEF new
<1>2. /\ objects \in [Procs -> Objects] /\ objects[p] = new
      /\ \A q \in Procs : q # p => objects[q] = object[q]
    BY <1>1 DEF IInv
<1>3. /\ stored' = caps /\ object' = Supersede(objects, p, caps)
      /\ stored = None \/ reset \/ stored = caps
    BY DEF Construct, Compatible, new
<1> HIDE DEF objects
<1>4. object' \in [Procs -> Objects] /\ object'[p] = new
    BY <1>2, <1>3, SupersedeEffect
<1>5. \A q \in Procs : q # p =>
              /\ object'[q].checked => object'[q].state = "ready"
              /\ object'[q].state # "none" => object'[q].caps \in Caps
              /\ object'[q].state = "ready" =>
                    (object'[q].checked /\ ~object'[q].superseded
                       => object'[q].caps = stored')
    BY <1>1, <1>2, <1>3, StorePreservesOthers
<1>6. caps # None
    BY CapsAssumption
<1>7. ObjectsConsistent'
    BY <1>1, <1>4, <1>5 DEF ObjectsConsistent
<1>8. CheckedObjectsAgree'
    BY <1>1, <1>3, <1>4, <1>5, <1>6 DEF CheckedObjectsAgree
<1> QED
    BY <1>3, <1>4, <1>7, <1>8 DEF IInv

\* __init__ that must leave its caps pending.
LEMMA ConstructLockedIInv ==
    ASSUME IInv, NEW p \in Procs, NEW caps \in Caps, NEW reset \in BOOLEAN,
           ConstructLocked(p, caps, reset)
    PROVE  IInv'
<1> DEFINE new == NewObject("deferred", caps, reset)
<1>1. /\ new \in Objects /\ new.state = "deferred" /\ new.caps = caps /\ ~new.checked
    BY NewObjectType
<1>2. object' = [object EXCEPT ![p] = new] /\ stored' = stored
    BY DEF ConstructLocked
<1> HIDE DEF new
<1> QED
    BY <1>1, <1>2 DEF IInv, ObjectsConsistent, CheckedObjectsAgree

\* An admission, which writes pending caps.
LEMMA AdmitIInv ==
    ASSUME IInv, NEW p \in Procs, Admit(p)
    PROVE  IInv'
<1> DEFINE caps == object[p].caps
           admitted == [object EXCEPT ![p].state = "ready"]
<1>1. /\ object[p].state # "none" /\ caps \in Caps /\ caps # None
      /\ object[p].checked => object[p].state = "ready"
    BY CapsAssumption DEF Admit, IInv, ObjectsConsistent
<1>2. /\ admitted \in [Procs -> Objects] /\ admitted[p].state = "ready"
      /\ admitted[p].caps = caps /\ admitted[p].reset = object[p].reset
      /\ admitted[p].checked = object[p].checked
      /\ admitted[p].superseded = object[p].superseded
      /\ \A q \in Procs : q # p => admitted[q] = object[q]
    BY DEF IInv, Objects
<1>3. CASE WritesPending(object[p])
  <2>1. /\ stored' = caps /\ object' = Supersede(admitted, p, caps)
        /\ stored = None \/ admitted[p].reset \/ stored = caps
        /\ ~admitted[p].checked
      BY <1>1, <1>2, <1>3 DEF Admit, WritesPending
  <2> HIDE DEF admitted, caps
  <2>2. object' \in [Procs -> Objects] /\ object'[p] = admitted[p]
      BY <1>1, <1>2, <2>1, SupersedeEffect
  <2>3. \A q \in Procs : q # p =>
              /\ object'[q].checked => object'[q].state = "ready"
              /\ object'[q].state # "none" => object'[q].caps \in Caps
              /\ object'[q].state = "ready" =>
                    (object'[q].checked /\ ~object'[q].superseded
                       => object'[q].caps = stored')
      BY <1>1, <1>2, <2>1, StorePreservesOthers
  <2>4. ObjectsConsistent'
      BY <1>1, <1>2, <2>2, <2>3 DEF ObjectsConsistent
  <2>5. CheckedObjectsAgree'
      BY <1>1, <2>1, <2>2, <2>3 DEF CheckedObjectsAgree
  <2> QED
      BY <1>1, <2>1, <2>2, <2>4, <2>5 DEF IInv
<1>4. CASE ~WritesPending(object[p])
  <2>1. stored' = stored /\ object' = admitted
      BY <1>4 DEF Admit
  <2>2. object[p].state = "ready" \/ stored # None
      BY <1>1, <1>4 DEF WritesPending, IInv, Objects
  <2> HIDE DEF admitted, caps
  <2>3. ObjectsConsistent'
      BY <1>1, <1>2, <2>1 DEF IInv, ObjectsConsistent
  <2>4. CheckedObjectsAgree'
      BY <1>1, <1>2, <2>1, <2>2 DEF IInv, CheckedObjectsAgree, caps
  <2> QED
      BY <1>2, <2>1, <2>3, <2>4 DEF IInv
<1> QED
    BY <1>3, <1>4

\* Every step keeps the inductive invariant.
LEMMA NextIInv == IInv /\ [Next]_vars => IInv'
<1> SUFFICES ASSUME IInv, [Next]_vars PROVE IInv'
    OBVIOUS
<1>1. ASSUME NEW p \in Procs, NEW caps \in Caps, NEW reset \in BOOLEAN,
             ConstructRefused(p, caps, reset)
      PROVE  IInv'
    BY <1>1 DEF ConstructRefused, IInv, ObjectsConsistent, CheckedObjectsAgree
<1>2. ASSUME NEW p \in Procs, Discard(p) PROVE IInv'
    BY <1>2 DEF Discard, NoObject, Objects, IInv, ObjectsConsistent, CheckedObjectsAgree
<1>3. CASE UNCHANGED vars
    BY <1>3 DEF vars, IInv, ObjectsConsistent, CheckedObjectsAgree
<1> QED
    BY <1>1, <1>2, <1>3, ConstructIInv, ConstructLockedIInv, AdmitIInv DEF Next

\* Under every interleaving of constructors, with or without the write lock, first
\* admissions of deferred objects and resets, an object of _store_caps runs under the
\* caps it was constructed with until they are reset, and none runs without caps.
THEOREM CapsAgreed == Spec => []CheckedObjectsAgree
<1>1. IInv => CheckedObjectsAgree
    BY DEF IInv
<1> QED
    BY <1>1, InitIInv, NextIInv, PTL DEF Spec
=============================================================================
