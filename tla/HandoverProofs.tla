--------------------------- MODULE HandoverProofs ---------------------------
(***************************************************************************)
(* What one side hands over, the other gets whole, once and in order: the  *)
(* elements of a FixedRing, the values of a generator, the outcome of a    *)
(* lazy coroutine and the object left in a producer context.               *)
(*                                                                         *)
(* A lazy result has one owner: LazyInv says which, by where the caller    *)
(* and the coroutine are. For the storage, StoreInv says which contexts    *)
(* own what they hold, and for the loop over a generator GenInv says how   *)
(* far it can be behind the body.                                          *)
(*                                                                         *)
(* A FixedRing between one producer and one consumer implements a bounded  *)
(* FIFO queue, for every capacity, every set of values and every number of *)
(* insertions. head - tail stays between 0 and Capacity, which is not      *)
(* inductive alone: the thread that is between two of its accesses relies  *)
(* on the other one only ever making room (the producer) or elements (the  *)
(* consumer) since it looked. ProducerInv and ConsumerInv say so. That a   *)
(* cell is not written while it is still to be read then rests on          *)
(* arithmetic alone: indices less than Capacity apart name different cells.*)
(***************************************************************************)
EXTENDS RingSpsc, Coroutines, TLAPS

-----------------------------------------------------------------------------
(* The storage of an outcome.                                                *)

(* The storage: a member that must be destroyed by hand belongs to a living  *)
(* context, whose status names it, and to no other; its outcome was built    *)
(* and has not ended.                                                        *)
Cells == {None} \cup
         [member : {"object", "moved", "exception", "pointer"}, of : Stored]

StoreTypes ==
  /\ kind \in {"value", "void", "reference"}
  /\ alive \subseteq Contexts /\ built \subseteq Stored
  /\ contextStatus \in [Contexts -> {"Idle", "Value", "Exception"}]
  /\ storage \in [Contexts -> Cells]
  /\ ended \in [Stored -> {0, 1}]

Owns(c) == storage[c].member \in Owning

Named(c) ==
  /\ contextStatus[c] = "Exception" => storage[c].member = "exception"
  /\ contextStatus[c] = "Idle" => ~ Owns(c)
  /\ contextStatus[c] = "Value" /\ kind = "value" => storage[c].member \in {"object", "moved"}
  /\ contextStatus[c] = "Value" /\ kind = "void" => storage[c].member = "none"
  /\ contextStatus[c] = "Value" /\ kind = "reference" => storage[c].member = "pointer"
  /\ kind = "void" => storage[c].member \in {"none", "exception"}

Unended(c) == Owns(c) => /\ c \in alive /\ storage[c].of \in built
                         /\ ended[storage[c].of] = 0

Apart(c, d) == Owns(c) /\ Owns(d) /\ storage[c].of = storage[d].of => c = d

StoreInv ==
  /\ StoreTypes
  /\ \A c \in alive : Named(c)
  /\ \A c \in Contexts : Unended(c)
  /\ \A c, d \in Contexts : Apart(c, d)
  /\ \A o \in Stored \ built : ended[o] = 0

(* Which members own and what a cell can hold.                               *)
LEMMA CellFacts ==
  /\ \A x \in Cells : x.member = "none" <=> x = None
  /\ \A x \in Cells : x # None => x.of \in Stored
  /\ \A m \in {"object", "moved", "exception", "pointer"} : \A o \in Stored :
       /\ Member(m, o) \in Cells
       /\ Member(m, o).member = m /\ Member(m, o).of = o
  /\ None \in Cells /\ None.member = "none"
<1>1. None.member = "none"
  BY DEF None
<1>2. \A x \in Cells \ {None} :
        x.member \in {"object", "moved", "exception", "pointer"} /\ x.of \in Stored
  BY DEF Cells
<1>3. \A m \in {"object", "moved", "exception", "pointer"} : \A o \in Stored :
        /\ Member(m, o) \in Cells
        /\ Member(m, o).member = m /\ Member(m, o).of = o
  BY DEF Member, Cells
<1>4. None \in Cells
  BY DEF Cells
<1>5. \A x \in Cells : x.member = "none" <=> x = None
  BY <1>1, <1>2
<1> QED
  BY <1>1, <1>2, <1>3, <1>4, <1>5

(* The contexts begin Idle, with nothing in them.                            *)
LEMMA StoreInitial == StoreInit => StoreInv
<1> SUFFICES ASSUME StoreInit PROVE StoreInv
  OBVIOUS
<1>1. StoreTypes
  BY CellFacts DEF StoreInit, StoreTypes
<1>2. \A c \in Contexts : storage[c].member = "none" /\ contextStatus[c] = "Idle"
  BY CellFacts DEF StoreInit
<1>3. \A c \in Contexts : ~ Owns(c)
  BY <1>2 DEF Owns, Owning
<1>4. \A c \in alive : Named(c)
  BY <1>1, <1>2, <1>3 DEF Named, StoreTypes
<1>5. \A o \in Stored : ended[o] = 0
  BY DEF StoreInit
<1> QED
  BY <1>1, <1>3, <1>4, <1>5, Zenon DEF StoreInv, Unended, Apart

(* Building an outcome that was not built before makes its context the only  *)
(* owner; a pointer or nothing at all has no owner.                          *)
LEMMA BuildInv ==
  ASSUME StoreInv, NEW c \in alive, NEW o \in Stored \ built, NEW x \in Cells,
         NEW s \in {"Value", "Exception"},
         contextStatus[c] = "Idle",
         storage' = [storage EXCEPT ![c] = x],
         contextStatus' = [contextStatus EXCEPT ![c] = s],
         built' = built \union {o}, UNCHANGED <<kind, alive, ended>>,
         x.member \in Owning => x.of = o,
         s = "Exception" => x.member = "exception",
         s = "Value" /\ kind = "value" => x.member \in {"object", "moved"},
         s = "Value" /\ kind = "void" => x.member = "none",
         s = "Value" /\ kind = "reference" => x.member = "pointer"
  PROVE  StoreInv'
<1>0. StoreTypes /\ c \in Contexts /\ o \in Stored
  BY DEF StoreInv, StoreTypes
<1>1. StoreTypes'
  BY <1>0 DEF StoreTypes
<1>2. /\ storage'[c] = x /\ contextStatus'[c] = s
      /\ \A d \in Contexts \ {c} : storage'[d] = storage[d] /\ contextStatus'[d] = contextStatus[d]
  BY <1>0 DEF StoreTypes
<1>3. \A d \in Contexts \ {c} : (Owns(d)' <=> Owns(d)) /\ (Named(d) => Named(d)')
  BY <1>2 DEF Owns, Named
<1>4. Named(c)'
  BY <1>2, <1>0 DEF Named, Owns, Owning
<1>5. \A d \in alive' : Named(d)'
  BY <1>3, <1>4, <1>0 DEF StoreInv, StoreTypes
<1>6. Owns(c)' => storage'[c].of = o
  BY <1>2 DEF Owns
<1>7. ended[o] = 0
  BY DEF StoreInv
<1>8. \A d \in Contexts \ {c} : Owns(d) => storage[d].of \in built
  BY DEF StoreInv, Unended
<1>9. Unended(c)'
  BY <1>6, <1>7, <1>0 DEF Unended
<1>10. \A d \in Contexts \ {c} : Unended(d)'
  BY <1>2, <1>3 DEF StoreInv, Unended
<1>11. \A d, e \in Contexts : Apart(d, e)'
  <2> SUFFICES ASSUME NEW d \in Contexts, NEW e \in Contexts PROVE Apart(d, e)'
    OBVIOUS
  <2>1. CASE d = c \/ e = c
    BY <2>1, <1>2, <1>3, <1>6, <1>8 DEF Apart
  <2>2. CASE d # c /\ e # c
    BY <2>2, <1>2, <1>3 DEF Apart, StoreInv
  <2> QED
    BY <2>1, <2>2
<1>12. \A p \in Stored \ built' : ended'[p] = 0
  BY DEF StoreInv
<1> QED
  BY <1>1, <1>5, <1>9, <1>10, <1>11, <1>12, Zenon DEF StoreInv

(* get() moves from the object and leaves it constructed.                    *)
LEMMA GetInv ==
  ASSUME StoreInv, NEW c \in Contexts, get(c)
  PROVE  StoreInv'
<1>0. StoreTypes /\ Named(c) /\ c \in alive /\ storage[c] \in Cells
  BY DEF StoreInv, StoreTypes, get
<1>1. storage[c].member \in {"object", "moved"} /\ storage[c] # None
  BY <1>0, CellFacts DEF Named, get
<1>2. storage[c] \in [member : {"object", "moved", "exception", "pointer"}, of : Stored]
  BY <1>0, <1>1 DEF Cells
<1>3. /\ storage' \in [Contexts -> Cells]
      /\ storage'[c].member = "moved" /\ storage'[c].of = storage[c].of
      /\ \A d \in Contexts \ {c} : storage'[d] = storage[d]
  <2>1. storage' = [storage EXCEPT ![c] = [storage[c] EXCEPT !.member = "moved"]]
    BY DEF get
  <2>2. PICK x : x = [storage[c] EXCEPT !.member = "moved"]
    BY Zenon
  <2>3. /\ x \in [member : {"object", "moved", "exception", "pointer"}, of : Stored]
        /\ x.member = "moved" /\ x.of = storage[c].of
    BY <1>2, <2>2
  <2>4. x \in Cells
    BY <2>3 DEF Cells
  <2>5. storage' = [storage EXCEPT ![c] = x]
    BY <2>1, <2>2
  <2>6. storage \in [Contexts -> Cells]
    BY <1>0 DEF StoreTypes
  <2> QED
    BY <2>3, <2>4, <2>5, <2>6
<1>4. UNCHANGED <<kind, alive, contextStatus, built, ended>>
  BY DEF get
<1>5. StoreTypes'
  BY <1>0, <1>3, <1>4 DEF StoreTypes
<1>6. \A d \in Contexts : (Owns(d)' <=> Owns(d)) /\ storage'[d].of = storage[d].of
  BY <1>1, <1>3 DEF Owns, Owning
<1>7. Named(c)'
  BY <1>3, <1>4 DEF Named, get
<1>8. \A d \in Contexts \ {c} : Named(d) => Named(d)'
  BY <1>3, <1>4 DEF Named, Owns
<1>9. \A d \in alive' : Named(d)'
  BY <1>7, <1>8, <1>4, <1>0 DEF StoreInv, StoreTypes
<1>10. \A d \in Contexts : Unended(d)'
  BY <1>4, <1>6 DEF StoreInv, Unended
<1>11. \A d, e \in Contexts : Apart(d, e)'
  BY <1>6 DEF StoreInv, Apart
<1> QED
  BY <1>4, <1>5, <1>9, <1>10, <1>11, Zenon DEF StoreInv

(* operator= moves an owner from one context to another, or copies what owns *)
(* nothing: the target was Idle, so it owned nothing.                        *)
LEMMA AssignInv ==
  ASSUME StoreInv, NEW c \in Contexts, NEW r \in Contexts, Assign(c, r)
  PROVE  StoreInv'
<1>0. /\ StoreTypes /\ Named(c) /\ Named(r) /\ c \in alive /\ r \in alive /\ c # r
      /\ contextStatus[c] = "Idle" /\ ~ Owns(c) /\ kind \in {"void", "reference"}
  BY DEF StoreInv, StoreTypes, Named, Assign
<1>1. UNCHANGED <<kind, alive, built, ended>>
  BY DEF Assign
<1>2. /\ contextStatus' = [contextStatus EXCEPT ![c] = contextStatus[r], ![r] = "Idle"]
      /\ contextStatus' \in [Contexts -> {"Idle", "Value", "Exception"}]
      /\ contextStatus'[c] = contextStatus[r] /\ contextStatus'[r] = "Idle"
      /\ \A d \in Contexts \ {c, r} : contextStatus'[d] = contextStatus[d]
  BY <1>0 DEF StoreTypes, Assign, Assigned
<1>3. storage \in [Contexts -> Cells] /\ contextStatus[r] \in {"Idle", "Value", "Exception"}
  BY <1>0 DEF StoreTypes
<1>4. CASE contextStatus[r] = "Exception"
  <2>1. storage' = [storage EXCEPT ![c] = storage[r], ![r] = None]
    BY <1>0, <1>4 DEF Assign, AssignedVoid, AssignedReference
  <2>2. /\ storage' \in [Contexts -> Cells]
        /\ storage'[c] = storage[r] /\ storage'[r] = None
        /\ \A d \in Contexts \ {c, r} : storage'[d] = storage[d]
    BY <2>1, <1>3, <1>0, CellFacts
  <2>3. StoreTypes'
    BY <1>0, <1>1, <1>2, <2>2, Zenon DEF StoreTypes
  <2>4. /\ storage[r].member = "exception" /\ storage'[c].member = "exception"
        /\ storage'[r].member = "none"
    BY <1>0, <1>4, <2>2, CellFacts DEF Named
  <2>5. Owns(r) /\ Owns(c)' /\ ~ Owns(r)'
    BY <2>4 DEF Owns, Owning
  <2>6. \A d \in Contexts \ {c, r} : (Owns(d)' <=> Owns(d)) /\ (Named(d) => Named(d)')
    BY <1>1, <1>2, <2>2 DEF Owns, Named
  <2>7. Named(c)' /\ Named(r)'
    BY <1>2, <1>4, <2>4, <2>5 DEF Named
  <2>8. \A d \in alive' : Named(d)'
    BY <2>6, <2>7, <1>1, <1>0 DEF StoreInv, StoreTypes
  <2>9. Unended(c)' /\ Unended(r)'
    BY <1>0, <1>1, <2>2, <2>5 DEF StoreInv, Unended
  <2>10. \A d \in Contexts \ {c, r} : Unended(d)'
    BY <1>1, <2>2, <2>6 DEF StoreInv, Unended
  <2>11. \A d, e \in Contexts : Apart(d, e)'
    <3> SUFFICES ASSUME NEW d \in Contexts, NEW e \in Contexts, d # e,
                        Owns(d)', Owns(e)'
                 PROVE  storage'[d].of # storage'[e].of
      BY DEF Apart
    <3>1. d # r /\ e # r
      BY <2>5
    <3>2. CASE d = c
      BY <3>1, <3>2, <2>2, <2>5, <2>6 DEF StoreInv, Apart
    <3>3. CASE e = c
      BY <3>1, <3>3, <2>2, <2>5, <2>6 DEF StoreInv, Apart
    <3>4. CASE d # c /\ e # c
      BY <3>1, <3>4, <2>2, <2>6 DEF StoreInv, Apart
    <3> QED
      BY <3>2, <3>3, <3>4
  <2> QED
    BY <1>1, <2>3, <2>8, <2>9, <2>10, <2>11, Zenon DEF StoreInv
<1>5. CASE contextStatus[r] # "Exception"
  <2>1. ~ Owns(r)
    BY <1>0, <1>3, <1>5 DEF Named, Owns, Owning
  <2>2. /\ storage' \in [Contexts -> Cells]
        /\ \A d \in Contexts \ {c} : storage'[d] = storage[d]
        /\ storage'[c] \in {storage[c], storage[r]}
        /\ kind = "reference" /\ contextStatus[r] = "Value" => storage'[c] = storage[r]
        /\ kind = "void" => storage'[c] = storage[c]
    BY <1>0, <1>3, <1>5 DEF Assign, AssignedVoid, AssignedReference
  <2>3. StoreTypes'
    BY <1>0, <1>1, <1>2, <2>2, Zenon DEF StoreTypes
  <2>4. ~ Owns(c)' /\ ~ Owns(r)'
    BY <1>0, <2>1, <2>2 DEF Owns
  <2>5. \A d \in Contexts \ {c, r} : (Owns(d)' <=> Owns(d)) /\ (Named(d) => Named(d)')
    BY <1>1, <1>2, <2>2 DEF Owns, Named
  <2>6. Named(r)'
    BY <1>0, <1>1, <1>2, <2>2, <2>4 DEF Named
  <2>7. Named(c)'
    <3>1. CASE contextStatus[r] = "Idle"
      BY <3>1, <1>0, <1>1, <1>2, <2>2, <2>4 DEF Named
    <3>2. CASE contextStatus[r] = "Value" /\ kind = "reference"
      BY <3>2, <1>0, <1>1, <1>2, <2>2 DEF Named
    <3>3. CASE contextStatus[r] = "Value" /\ kind = "void"
      <4>1. storage[c].member = "none"
        BY <3>3, <1>0 DEF Named, Owns, Owning
      <4> QED
        BY <4>1, <3>3, <1>1, <1>2, <2>2, <2>4 DEF Named
    <3> QED
      BY <3>1, <3>2, <3>3, <1>0, <1>3, <1>5
  <2>8. \A d \in alive' : Named(d)'
    BY <2>5, <2>6, <2>7, <1>1, <1>0 DEF StoreInv, StoreTypes
  <2>9. \A d \in Contexts : Owns(d)' => Owns(d) /\ storage'[d] = storage[d]
    BY <2>2, <2>4, <2>5
  <2>10. \A d \in Contexts : Unended(d)'
    BY <1>1, <2>9 DEF StoreInv, Unended
  <2>11. \A d, e \in Contexts : Apart(d, e)'
    BY <2>9 DEF StoreInv, Apart
  <2> QED
    BY <1>1, <2>3, <2>8, <2>10, <2>11, Zenon DEF StoreInv
<1> QED
  BY <1>4, <1>5

(* The destructor ends what its context owns, whose outcome then has no      *)
(* owner; a context that owns nothing ends nothing.                          *)
LEMMA DestroyInv ==
  ASSUME StoreInv, NEW c \in Contexts, DestroyContext(c)
  PROVE  StoreInv'
<1>0. StoreTypes /\ Named(c) /\ Unended(c) /\ c \in alive
  BY DEF StoreInv, DestroyContext
<1>1. alive' = alive \ {c} /\ UNCHANGED <<kind, contextStatus, built>>
  BY DEF DestroyContext
<1>2. storage \in [Contexts -> Cells] /\ storage[c] \in Cells /\ ended \in [Stored -> {0, 1}]
      /\ contextStatus[c] \in {"Idle", "Value", "Exception"}
      /\ kind \in {"value", "void", "reference"}
  BY <1>0 DEF StoreTypes
<1>3. Destroys(c) /\ storage[c] # None <=> Owns(c)
  <2>1. storage[c] = None => storage[c].member = "none"
    BY CellFacts
  <2>2. CASE kind = "value"
    BY <2>1, <2>2, <1>0, <1>2, CellFacts
    DEF Named, Owns, Owning, Destroys, DestroysValue
  <2>3. CASE kind = "void"
    BY <2>1, <2>3, <1>0, <1>2, CellFacts
    DEF Named, Owns, Owning, Destroys, DestroysVoid
  <2>4. CASE kind = "reference"
    BY <2>1, <2>4, <1>0, <1>2, CellFacts
    DEF Named, Owns, Owning, Destroys, DestroysReference
  <2> QED
    BY <2>2, <2>3, <2>4, <1>2
<1>4. /\ storage' \in [Contexts -> Cells]
      /\ \A d \in Contexts \ {c} : storage'[d] = storage[d]
  BY <1>2, CellFacts DEF DestroyContext
<1>5. ~ Owns(c)'
  <2>1. CASE Destroys(c)
    <3>1. storage'[c] = None
      BY <2>1, <1>2 DEF DestroyContext
    <3> QED
      BY <3>1, CellFacts DEF Owns, Owning
  <2>2. CASE ~ Destroys(c)
    <3>1. storage'[c] = storage[c]
      BY <2>2 DEF DestroyContext
    <3> QED
      BY <3>1, <2>2, <1>3 DEF Owns
  <2> QED
    BY <2>1, <2>2
<1>6. \A d \in Contexts \ {c} : (Owns(d)' <=> Owns(d)) /\ (Named(d) => Named(d)')
  BY <1>1, <1>4 DEF Owns, Named
<1>7. \A d \in alive' : Named(d)'
  BY <1>1, <1>6, <1>0 DEF StoreInv, StoreTypes
<1>8. \A o \in Stored : ended'[o] = IF Owns(c) /\ storage[c].of = o
                                    THEN ended[o] + 1 ELSE ended[o]
  BY <1>3 DEF DestroyContext
<1>9. Owns(c) => storage[c].of \in built /\ ended[storage[c].of] = 0
  BY <1>0 DEF Unended
<1>10. ended' \in [Stored -> {0, 1}]
  <2>1. ended' = [o \in Stored |-> ended'[o]]
    BY DEF DestroyContext
  <2>2. \A o \in Stored : ended'[o] \in {0, 1}
    BY <1>2, <1>8, <1>9
  <2> QED
    BY <2>1, <2>2, Zenon
<1>11. StoreTypes'
  BY <1>0, <1>1, <1>4, <1>10 DEF StoreTypes
<1>12. \A d \in Contexts : Unended(d)'
  <2> SUFFICES ASSUME NEW d \in Contexts, Owns(d)'
               PROVE  d \in alive' /\ storage'[d].of \in built' /\ ended'[storage'[d].of] = 0
    BY DEF Unended
  <2>1. d # c /\ Owns(d) /\ storage'[d] = storage[d]
    BY <1>4, <1>5, <1>6
  <2>2. d \in alive /\ storage[d].of \in built /\ ended[storage[d].of] = 0
    BY <2>1 DEF StoreInv, Unended
  <2>3. ~ (Owns(c) /\ storage[c].of = storage[d].of)
    BY <2>1 DEF StoreInv, Apart
  <2>4. storage[d].of \in Stored
    BY <2>2, <1>0 DEF StoreTypes
  <2> QED
    BY <2>1, <2>2, <2>3, <2>4, <1>1, <1>8
<1>13. \A d, e \in Contexts : Apart(d, e)'
  BY <1>4, <1>5, <1>6 DEF StoreInv, Apart
<1>14. \A o \in Stored \ built' : ended'[o] = 0
  BY <1>1, <1>8, <1>9 DEF StoreInv
<1> QED
  BY <1>7, <1>11, <1>12, <1>13, <1>14, Zenon DEF StoreInv

(* Whatever order contexts are built, read, assigned and destroyed in, the   *)
(* status of a living one names its constructed member, and what was         *)
(* constructed is destroyed at most once, by its only owner                  *)
(* (ProducerContext).                                                        *)
THEOREM StorageSafety ==
  StoreSpec => [](StatusNamesMember /\ OwnedOnce)
<1>1. StoreInv /\ [StoreNext]_storeVars => StoreInv'
  <2> SUFFICES ASSUME StoreInv, [StoreNext]_storeVars PROVE StoreInv'
    OBVIOUS
  <2>0. StoreTypes
    BY DEF StoreInv
  <2>1. ASSUME NEW c \in Contexts, NEW o \in Stored, build_result(c, o)
        PROVE  StoreInv'
    <3>1. PICK x : x = ValueMember(o)
      BY Zenon
    <3>2. /\ x \in Cells /\ (x.member \in Owning => x.of = o)
          /\ (kind = "value" => x.member = "object")
          /\ (kind = "void" => x.member = "none")
          /\ (kind = "reference" => x.member = "pointer")
      BY <3>1, <2>0, CellFacts DEF ValueMember, StoreTypes, Owning
    <3> QED
      BY <2>1, <3>1, <3>2, BuildInv, Zenon DEF build_result
  <2>2. ASSUME NEW c \in Contexts, NEW o \in Stored, build_exception(c, o)
        PROVE  StoreInv'
    <3>1. PICK x : x = Member("exception", o)
      BY Zenon
    <3>2. x \in Cells /\ x.of = o /\ x.member = "exception"
      BY <3>1, CellFacts
    <3> QED
      BY <2>2, <3>1, <3>2, BuildInv, Zenon DEF build_exception
  <2>3. CASE UNCHANGED storeVars
    BY <2>3 DEF storeVars, StoreInv, StoreTypes, Owns, Named, Unended, Apart
  <2> QED
    BY <2>1, <2>2, <2>3, GetInv, AssignInv, DestroyInv DEF StoreNext
<1>2. StoreInv => StatusNamesMember
  <2> SUFFICES ASSUME StoreInv, NEW c \in alive
               PROVE  CASE contextStatus[c] = "Exception" -> storage[c].member = "exception"
                        [] contextStatus[c] = "Idle" -> storage[c].member \notin Owning
                        [] contextStatus[c] = "Value" ->
                             CASE kind = "value" -> storage[c].member \in {"object", "moved"}
                               [] kind = "void" -> storage[c].member = "none"
                               [] kind = "reference" -> storage[c].member = "pointer"
    BY Zenon DEF StatusNamesMember
  <2>1. /\ Named(c) /\ contextStatus[c] \in {"Idle", "Value", "Exception"}
        /\ kind \in {"value", "void", "reference"}
    BY DEF StoreInv, StoreTypes
  <2> QED
    BY <2>1, Zenon DEF Named, Owns
<1>3. StoreInv => OwnedOnce
  <2> SUFFICES ASSUME StoreInv, NEW o \in Stored, NEW owners,
                      owners = {c \in Contexts : storage[c].member \in Owning
                                                 /\ storage[c].of = o}
               PROVE  /\ ended[o] <= IF owners = {} THEN 1 ELSE 0
                      /\ \A c, d \in owners : c = d
                      /\ owners \subseteq alive
    BY Zenon DEF OwnedOnce
  <2>1. \A c \in owners : c \in Contexts /\ Owns(c) /\ storage[c].of = o
    BY DEF Owns
  <2>2. ended[o] \in {0, 1}
    BY DEF StoreInv, StoreTypes
  <2>3. \A c \in owners : c \in alive /\ ended[o] = 0
    BY <2>1 DEF StoreInv, Unended
  <2>4. \A c, d \in owners : c = d
    BY <2>1 DEF StoreInv, Apart
  <2> QED
    BY <2>2, <2>3, <2>4
<1> QED
  BY StoreInitial, <1>1, <1>2, <1>3, PTL DEF StoreSpec

-----------------------------------------------------------------------------
(* The lazy result.                                                          *)

(* The owner of a lazy frame, by where the caller and the coroutine are.     *)
Owner ==
  /\ held \in [Holders -> BOOLEAN]
  /\ \A g, h \in Holders : held[g] /\ held[h] => g = h
  /\ destroys = IF \E h \in Holders : held[h] THEN 0 ELSE 1
  /\ frame = "freed" <=> destroys = 1

CallerTable ==
  /\ frame \in {"start", "body", "input", "hop", "final", "freed"}
  /\ callerPc \in {"idle", "check", "suspended", "resumed", "end"}
  /\ frame \in {"body", "input", "hop"} <=> callerPc = "suspended"
  /\ callerPc = "suspended" => caller
  /\ callerPc \in {"check", "suspended", "resumed"} <=> held["awaitable"]
  /\ callerPc = "resumed" => frame = "final"

InputTable ==
  /\ next \in 1..(Inputs + 1) /\ done \subseteq 1..Inputs
  /\ \A k \in 1..Inputs : k < next => k \in done
  /\ frame = "hop" => next = Inputs + 1
  /\ frame = "input" => next <= Inputs
  /\ frame = "final" => outcome # "Idle"
  /\ frame \in {"start", "body", "input", "hop"} => outcome = "Idle"
  /\ outcome # "Idle" => next = Inputs + 1

LazyInv == Owner /\ CallerTable /\ InputTable

(* A lazy frame begins in the hands of its LazyResult, not yet started.      *)
LEMMA LazyInitial == LazyInit => LazyInv
<1> SUFFICES ASSUME LazyInit PROVE LazyInv
  OBVIOUS
<1>0. /\ held \in [Holders -> BOOLEAN]
      /\ \A h \in Holders : held[h] <=> h = "result"
  BY Zenon DEF LazyInit
<1>1. Owner
  <2>1. \E h \in Holders : held[h]
    BY <1>0 DEF Holders
  <2>2. \A g, h \in Holders : held[g] /\ held[h] => g = h
    BY <1>0
  <2> QED
    BY <1>0, <2>1, <2>2 DEF LazyInit, Owner
<1>2. CallerTable
  <2>1. ~ held["awaitable"]
    BY <1>0 DEF Holders
  <2> QED
    BY <2>1 DEF LazyInit, CallerTable
<1>3. InputTable
  BY FramesAssumption DEF LazyInit, InputTable
<1> QED
  BY <1>1, <1>2, <1>3 DEF LazyInv

(* Moving a handle, dropping one and resuming destroy what they overwrite:   *)
(* there is one owner before and one, or a destroyed frame, after.           *)
LEMMA OwnerStep == LazyInv /\ [LazyNext]_lazyVars => Owner'
<1> SUFFICES ASSUME LazyInv, [LazyNext]_lazyVars PROVE Owner'
  OBVIOUS
<1> USE DEF Holders, MovedHandle, Destroyed
<1>0. Owner /\ CallerTable
  BY DEF LazyInv
<1>1. ASSUME NEW a \in {"result", "other"}, NEW b \in {"result", "other"},
             MoveResult(a, b)
      PROVE  Owner'
  BY <1>0, <1>1 DEF Owner, CallerTable, MoveResult
<1>2. ASSUME NEW a \in {"result", "other"}, DropResult(a) PROVE Owner'
  BY <1>0, <1>2 DEF Owner, CallerTable, DropResult
<1>3. ASSUME NEW a \in {"result", "other"}, NEW o, AwaitResult(a, o)
      PROVE  Owner'
  BY <1>0, <1>3, Zenon DEF Owner, CallerTable, AwaitResult
<1>4. CASE Resume
  <2>1. held["awaitable"] /\ ~ held["result"] /\ ~ held["other"] /\ destroys = 0
    BY <1>0, <1>4 DEF Owner, CallerTable, Resume
  <2>2. frame # "freed"
    BY <1>0, <2>1 DEF Owner
  <2>3. CASE callerOp = "resolve"
    <3>1. held' = [held EXCEPT !["result"] = TRUE, !["awaitable"] = FALSE]
      BY <1>4, <2>1, <2>3 DEF Resume
    <3>2. /\ held' \in [Holders -> BOOLEAN]
          /\ held'["result"] /\ ~ held'["awaitable"] /\ ~ held'["other"]
      BY <3>1, <2>1, <1>0, Zenon DEF Owner
    <3> QED
      BY <1>4, <2>1, <2>2, <2>3, <3>2 DEF Owner, Resume
  <2>4. CASE callerOp # "resolve"
    <3>1. /\ held' = [held EXCEPT !["awaitable"] = FALSE]
          /\ destroys' = 1 /\ frame' = "freed"
      BY <1>4, <2>1, <2>4 DEF Resume
    <3>2. /\ held' \in [Holders -> BOOLEAN]
          /\ ~ held'["result"] /\ ~ held'["awaitable"] /\ ~ held'["other"]
      BY <3>1, <2>1, <1>0 DEF Owner
    <3> QED
      BY <3>1, <3>2 DEF Owner
  <2> QED
    BY <2>3, <2>4
<1>5. ASSUME UNCHANGED <<held, destroys>>,
             frame' = "freed" <=> frame = "freed"
      PROVE  Owner'
  BY <1>0, <1>5 DEF Owner
<1>6. CASE Await
  BY <1>0, <1>5, <1>6 DEF Owner, CallerTable, Await
<1>7. CASE Step
  BY <1>5, <1>7 DEF Step
<1>8. CASE Hop
  BY <1>5, <1>8 DEF Hop
<1>9. CASE Shutdown
  BY <1>5, <1>9 DEF Shutdown
<1>10. ASSUME NEW k, Complete(k) PROVE Owner'
  BY <1>5, <1>10 DEF Complete
<1>11. ASSUME NEW a, AwaitEmpty(a) PROVE Owner'
  BY <1>5, <1>11 DEF AwaitEmpty
<1>12. CASE UNCHANGED lazyVars
  BY <1>5, <1>12 DEF lazyVars
<1> QED
  BY <1>1, <1>2, <1>3, <1>4, <1>6, <1>7, <1>8, <1>9, <1>10, <1>11, <1>12
  DEF LazyNext

(* The coroutine runs only between the caller's suspension and its           *)
(* resumption, with the handle in the awaitable.                             *)
LEMMA CallerStep == LazyInv /\ [LazyNext]_lazyVars => CallerTable'
<1> SUFFICES ASSUME LazyInv, [LazyNext]_lazyVars PROVE CallerTable'
  OBVIOUS
<1> USE DEF Holders, MovedHandle, Destroyed
<1>0. Owner /\ CallerTable
  BY DEF LazyInv
<1>1. ASSUME NEW a \in {"result", "other"}, NEW b \in {"result", "other"},
             MoveResult(a, b)
      PROVE  CallerTable'
  BY <1>0, <1>1 DEF Owner, CallerTable, MoveResult
<1>2. ASSUME NEW a \in {"result", "other"}, DropResult(a) PROVE CallerTable'
  BY <1>0, <1>2 DEF Owner, CallerTable, DropResult
<1>3. ASSUME NEW a \in {"result", "other"}, NEW o, AwaitResult(a, o)
      PROVE  CallerTable'
  BY <1>0, <1>3 DEF Owner, CallerTable, AwaitResult
<1>4. CASE Resume
  BY <1>0, <1>4, Zenon DEF Owner, CallerTable, Resume
<1>6. CASE Await
  BY <1>0, <1>6 DEF Owner, CallerTable, Await
<1>7. CASE Step
  BY <1>0, <1>7 DEF CallerTable, Step
<1>8. CASE Hop
  BY <1>0, <1>8 DEF CallerTable, Hop
<1>9. CASE Shutdown
  BY <1>0, <1>9 DEF CallerTable, Shutdown
<1>10. ASSUME NEW k, Complete(k) PROVE CallerTable'
  BY <1>0, <1>10 DEF CallerTable, Complete
<1>11. ASSUME NEW a, AwaitEmpty(a) PROVE CallerTable'
  BY <1>0, <1>11 DEF CallerTable, AwaitEmpty
<1>12. CASE UNCHANGED lazyVars
  BY <1>0, <1>12 DEF CallerTable, lazyVars
<1> QED
  BY <1>1, <1>2, <1>3, <1>4, <1>6, <1>7, <1>8, <1>9, <1>10, <1>11, <1>12
  DEF LazyNext

(* when_all's loop passes an input only when it is done.                     *)
LEMMA InputStep == LazyInv /\ [LazyNext]_lazyVars => InputTable'
<1> SUFFICES ASSUME LazyInv, [LazyNext]_lazyVars PROVE InputTable'
  OBVIOUS
<1> USE FramesAssumption
<1>0. InputTable /\ CallerTable /\ Owner
  BY DEF LazyInv
<1>1. ASSUME UNCHANGED <<next, done, outcome>>,
             frame' \in {frame, "freed"}
      PROVE  InputTable'
  BY <1>0, <1>1 DEF InputTable
<1>2. ASSUME NEW a, NEW b, MoveResult(a, b) PROVE InputTable'
  BY <1>1, <1>2 DEF MoveResult, Destroyed
<1>3. ASSUME NEW a, DropResult(a) PROVE InputTable'
  BY <1>1, <1>3 DEF DropResult, Destroyed
<1>4. ASSUME NEW a, NEW o, AwaitResult(a, o) PROVE InputTable'
  BY <1>1, <1>4 DEF AwaitResult
<1>5. CASE Resume
  BY <1>1, <1>5 DEF Resume, Destroyed
<1>6. CASE Await
  <2>1. held["awaitable"]
    BY <1>0, <1>6 DEF CallerTable, Await
  <2>2. destroys = 0
    BY <1>0, <2>1 DEF Owner, Holders
  <2>3. frame \in {"start", "final"}
    BY <1>0, <1>6, <2>2 DEF Owner, CallerTable, Await
  <2> QED
    BY <1>0, <1>6, <2>3 DEF InputTable, Await
<1>7. CASE Step
  BY <1>0, <1>7 DEF InputTable, Step, Ready
<1>8. CASE Hop
  BY <1>0, <1>8 DEF InputTable, Hop
<1>9. ASSUME NEW k \in 1..Inputs, Complete(k) PROVE InputTable'
  BY <1>0, <1>9 DEF InputTable, Complete
<1>10. CASE Shutdown
  BY <1>1, <1>10 DEF Shutdown
<1>11. ASSUME NEW a, AwaitEmpty(a) PROVE InputTable'
  BY <1>1, <1>11 DEF AwaitEmpty
<1>12. CASE UNCHANGED lazyVars
  BY <1>1, <1>12 DEF lazyVars
<1> QED
  BY <1>2, <1>3, <1>4, <1>5, <1>6, <1>7, <1>8, <1>9, <1>10, <1>11, <1>12
  DEF LazyNext

(* Whatever its holders and when_all's inputs do, a lazy frame has one owner *)
(* until it is destroyed, once, and its outcome waits for every input        *)
(* (LazyResult, LazyAwaitable, when_all_impl).                               *)
THEOREM LazySafety == LazySpec => [](FrameOwned /\ AllDone)
<1>1. LazyInv /\ [LazyNext]_lazyVars => LazyInv'
  BY OwnerStep, CallerStep, InputStep DEF LazyInv
<1>2. LazyInv => FrameOwned
  <2> SUFFICES ASSUME LazyInv PROVE FrameOwned
    OBVIOUS
  <2> QED
    BY DEF LazyInv, Owner, CallerTable, InputTable, FrameOwned
<1>3. LazyInv => AllDone
  <2> SUFFICES ASSUME LazyInv, outcome # "Idle" PROVE done = 1..Inputs
    BY DEF AllDone
  <2>1. \A k \in 1..Inputs : k \in done
    BY FramesAssumption DEF LazyInv, InputTable
  <2> QED
    BY <2>1, Zenon DEF LazyInv, InputTable
<1> QED
  BY LazyInitial, <1>1, <1>2, <1>3, PTL DEF LazySpec

-----------------------------------------------------------------------------
(* The generator.                                                            *)

(* How far the loop over a generator has come, by where its body is.         *)
GenInv ==
  /\ yielded \in Nat /\ exception \in BOOLEAN /\ iter \in BOOLEAN
  /\ body \in {"start", "yield", "done", "freed"}
  /\ ending \in {"none", "end", "thrown"}
  /\ loopSeen \in Seq(Nat) /\ \A k \in 1..Len(loopSeen) : loopSeen[k] = k
  /\ Len(loopSeen) = yielded \/ Len(loopSeen) + 1 = yielded
  /\ body \in {"start", "done"} => Len(loopSeen) = yielded
  /\ body = "yield" => value = yielded
  /\ body = "freed" => ~ iter
  /\ body \in {"start", "yield"} => ~ exception
  /\ ending # "none" => Len(loopSeen) = yielded /\ body \in {"done", "freed"}
  /\ ending # "none" => (ending = "thrown" <=> exception)
  /\ body = "done" /\ exception => ending = "thrown"

(* Resuming the body keeps it, when the loop has read all that was yielded:  *)
(* what the body throws is rethrown in the same step.                        *)
LEMMA ResumedInv ==
  ASSUME GenInv, Resumed, loopSeen' = loopSeen, ending = "none",
         body \in {"start", "yield"}, Len(loopSeen) = yielded
  PROVE  GenInv'
<1>0. Len(loopSeen) \in Nat /\ ~ exception
  BY DEF GenInv
<1>1. CASE /\ yielded' = yielded + 1 /\ value' = yielded + 1 /\ body' = "yield"
           /\ UNCHANGED <<exception, ending>> /\ iter' = TRUE
  BY <1>0, <1>1 DEF GenInv
<1>2. CASE /\ body' = "done" /\ exception' \in BOOLEAN /\ ThrowIfException
           /\ iter' = (iter \/ ~ exception') /\ UNCHANGED <<yielded, value>>
  <2>1. /\ ending' \in {"none", "thrown"} /\ (ending' = "thrown" <=> exception')
        /\ iter' \in BOOLEAN /\ exception' \in BOOLEAN
    BY <1>2 DEF ThrowIfException
  <2>2. body' = "done" /\ yielded' = yielded
    BY <1>2
  <2>3. /\ loopSeen' \in Seq(Nat) /\ \A k \in 1..Len(loopSeen') : loopSeen'[k] = k
        /\ Len(loopSeen') = yielded' /\ yielded' \in Nat
    BY <2>2 DEF GenInv
  <2> QED
    BY <2>1, <2>2, <2>3 DEF GenInv
<1> QED
  BY <1>1, <1>2, Zenon DEF Resumed

(* A loop over a generator sees 1, 2, ... as the body yields them, however   *)
(* many it yields, and ends with the body's exception only after all of them *)
(* (Generator, GeneratorIterator, GeneratorState).                           *)
THEOREM GeneratorSafety == GeneratorSpec => []YieldsInOrder
<1>1. GeneratorInit => GenInv
  <2> SUFFICES ASSUME GeneratorInit PROVE GenInv
    OBVIOUS
  <2>1. /\ loopSeen \in Seq(Nat) /\ Len(loopSeen) = 0 /\ yielded = 0
        /\ \A k \in 1..Len(loopSeen) : loopSeen[k] = k
    BY DEF GeneratorInit
  <2>2. exception \in BOOLEAN /\ iter \in BOOLEAN /\ ~ exception /\ ~ iter
    BY Zenon DEF GeneratorInit
  <2>3. body = "start" /\ ending = "none"
    BY DEF GeneratorInit
  <2> QED
    BY <2>1, <2>2, <2>3 DEF GenInv
<1>2. GenInv /\ [GeneratorNext]_generatorVars => GenInv'
  <2> SUFFICES ASSUME GenInv, [GeneratorNext]_generatorVars
               PROVE  GenInv'
    OBVIOUS
  <2>1. CASE BeginLoop
    BY <2>1, ResumedInv DEF BeginLoop, GenInv
  <2>2. CASE Advance
    BY <2>2, ResumedInv DEF Advance, GenInv
  <2>3. CASE Read
    <3>1. /\ loopSeen \in Seq(Nat) /\ Len(loopSeen) \in Nat /\ yielded \in Nat
          /\ Len(loopSeen) + 1 = yielded /\ value = yielded /\ body = "yield"
      BY <2>3 DEF Read, GenInv
    <3>2. /\ loopSeen' \in Seq(Nat) /\ Len(loopSeen') = Len(loopSeen) + 1
          /\ \A k \in 1..Len(loopSeen) : loopSeen'[k] = loopSeen[k]
          /\ loopSeen'[Len(loopSeen) + 1] = value
      BY <2>3, <3>1 DEF Read
    <3>3. \A k \in 1..Len(loopSeen') : loopSeen'[k] = k
      BY <3>1, <3>2 DEF GenInv
    <3>4. UNCHANGED <<body, yielded, value, exception, iter, ending>>
      BY <2>3 DEF Read
    <3> QED
      BY <3>1, <3>2, <3>3, <3>4 DEF GenInv
  <2>4. CASE End
    BY <2>4 DEF End, GenInv
  <2>5. CASE Destroy
    BY <2>5, Zenon DEF Destroy, GenInv
  <2>6. CASE UNCHANGED generatorVars
    BY <2>6 DEF generatorVars, GenInv
  <2> QED
    BY <2>1, <2>2, <2>3, <2>4, <2>5, <2>6 DEF GeneratorNext
<1>3. GenInv => YieldsInOrder
  <2> SUFFICES ASSUME GenInv PROVE YieldsInOrder
    OBVIOUS
  <2>1. loopSeen = [k \in 1..Len(loopSeen) |-> k]
    BY DEF GenInv
  <2>2. Len(loopSeen) \in {yielded, yielded - 1}
    BY DEF GenInv
  <2>3. (ending # "none") => Len(loopSeen) = yielded /\ (ending = "thrown") = exception
    BY DEF GenInv
  <2> QED
    BY <2>1, <2>2, <2>3 DEF YieldsInOrder
<1> QED
  BY <1>1, <1>2, <1>3, PTL DEF GeneratorSpec

(* The three together: a lazy result, a generator and the storage, side by   *)
(* side.                                                                     *)
THEOREM CoroutineSafety ==
  LazySpec /\ GeneratorSpec /\ StoreSpec => []CoroutinesSafe
BY LazySafety, GeneratorSafety, StorageSafety, PTL DEF CoroutinesSafe

-----------------------------------------------------------------------------
(* The ring.                                                                 *)

(* The producer between its check and its publication: the room it saw is    *)
(* still there, and what it wrote is in the cell it is about to publish.     *)
ProducerInv ==
  /\ ppc # "idle" =>
       pv \in Values /\ head < MaxInserts /\ head - tail < Capacity
  /\ ppc = "store" => ph = head
  /\ ppc = "publish" => ph = head + 1 /\ cell[head % Capacity] = pv

(* The consumer between its check and its publication.                       *)
ConsumerInv ==
  /\ cpc # "idle" => tail < head
  /\ cpc = "load" => ct = tail
  /\ cpc = "publish" => ct = tail + 1

RingInv ==
  /\ TypeOK
  /\ tail <= head /\ head - tail <= Capacity
  /\ ProducerInv /\ ConsumerInv

-----------------------------------------------------------------------------
(* Arithmetic: the mask maps an index into the buffer, and maps two indices  *)
(* less than Capacity apart to different cells (buffer_[i & mask_]).         *)

(* What the operations on sequences return.                                  *)
LEMMA SeqLength ==
  ASSUME NEW S, NEW s \in Seq(S)
  PROVE  Len(s) \in Nat /\ s \in [1..Len(s) -> S]
OBVIOUS

(* Appending adds one element, at the end.                                   *)
LEMMA SeqAppend ==
  ASSUME NEW S, NEW s \in Seq(S), NEW e \in S
  PROVE  /\ Append(s, e) \in Seq(S) /\ Len(Append(s, e)) = Len(s) + 1
         /\ \A k \in 1..Len(s) : Append(s, e)[k] = s[k]
         /\ Append(s, e)[Len(s) + 1] = e
OBVIOUS

(* The tail has all elements but the first.                                  *)
LEMMA SeqTail ==
  ASSUME NEW S, NEW s \in Seq(S), s # <<>>
  PROVE  Tail(s) = [k \in 1..(Len(s) - 1) |-> s[k + 1]]
<1>1. Tail(s) \in Seq(S) /\ Len(Tail(s)) = Len(s) - 1 /\ Len(s) \in Nat \ {0}
  OBVIOUS
<1>2. \A k \in 1..(Len(s) - 1) : Tail(s)[k] = s[k + 1]
  OBVIOUS
<1>3. Tail(s) \in [1..(Len(s) - 1) -> S]
  BY <1>1, SeqLength, Zenon
<1> QED
  BY <1>2, <1>3, Zenon

(* The mask maps every index to a cell of the buffer.                        *)
LEMMA ModInRange ==
  ASSUME NEW a \in Nat
  PROVE  a % Capacity \in 0..(Capacity - 1)
  BY RingAssumption

(* A positive multiple of the capacity is at least the capacity.             *)
LEMMA PositiveMultiple ==
  ASSUME NEW k \in Int, k >= 1
  PROVE  Capacity * k >= Capacity
  BY RingAssumption

(* Indices less than Capacity apart name different cells, so the producer    *)
(* does not write the cell the consumer reads.                               *)
LEMMA ModDistinct ==
  ASSUME NEW a \in Nat, NEW b \in Nat, a < b, b - a < Capacity
  PROVE  a % Capacity # b % Capacity
<1> USE RingAssumption
<1> SUFFICES ASSUME a % Capacity = b % Capacity PROVE FALSE
  OBVIOUS
<1> DEFINE m == a \div Capacity
           n == b \div Capacity
<1>1. m \in Int /\ n \in Int
  OBVIOUS
<1>2. a = Capacity * m + (a % Capacity) /\ b = Capacity * n + (b % Capacity)
  OBVIOUS
<1>3. b - a = Capacity * (n - m)
  BY <1>1, <1>2
<1> HIDE DEF m, n
<1>4. CASE n - m >= 1
  BY <1>1, <1>3, <1>4, PositiveMultiple
<1>5. CASE n - m <= 0
  BY <1>1, <1>3, <1>5
<1> QED
  BY <1>1, <1>4, <1>5

-----------------------------------------------------------------------------
(* The invariant.                                                            *)

(* A new ring satisfies RingInv.                                             *)
LEMMA RingInitial == Init => RingInv
  BY RingAssumption DEF Init, RingInv, TypeOK, ProducerInv, ConsumerInv

(* Every access of either thread keeps RingInv.                              *)
LEMMA RingInductive == RingInv /\ [Next]_vars => RingInv'
<1> SUFFICES ASSUME RingInv, [Next]_vars
             PROVE  RingInv'
  OBVIOUS
<1> USE RingAssumption
<1>1. /\ head \in Nat /\ tail \in Nat /\ ph \in Nat /\ ct \in Nat
      /\ cell \in [0..Capacity-1 -> Values \cup {0}]
  BY DEF RingInv, TypeOK
<1>2. ASSUME NEW x \in Values, InsertCheck(x) PROVE RingInv'
  BY <1>1, <1>2 DEF RingInv, TypeOK, ProducerInv, ConsumerInv, InsertCheck,
                    Full, Consumer
<1>3. CASE InsertStore
  <2>1. ph % Capacity \in 0..(Capacity - 1)
    BY <1>1, ModInRange, Zenon
  <2>2. ph = head /\ pv \in Values
    BY <1>3 DEF RingInv, ProducerInv, InsertStore
  <2>3. cell' \in [0..Capacity-1 -> Values \cup {0}] /\ cell'[head % Capacity] = pv
    BY <1>1, <1>3, <2>1, <2>2 DEF InsertStore
  <2> QED
    BY <1>1, <1>3, <2>2, <2>3
       DEF RingInv, TypeOK, ProducerInv, ConsumerInv, InsertStore, Consumer
<1>4. CASE InsertPublish
  BY <1>1, <1>4
     DEF RingInv, TypeOK, ProducerInv, ConsumerInv, InsertPublish, Consumer
<1>5. CASE RemoveCheck
  BY <1>1, <1>5
     DEF RingInv, TypeOK, ProducerInv, ConsumerInv, RemoveCheck, Producer
<1>6. CASE RemoveLoad
  BY <1>1, <1>6
     DEF RingInv, TypeOK, ProducerInv, ConsumerInv, RemoveLoad, Producer
<1>7. CASE RemovePublish
  BY <1>1, <1>7
     DEF RingInv, TypeOK, ProducerInv, ConsumerInv, RemovePublish, Producer
<1>8. CASE UNCHANGED vars
  BY <1>8 DEF RingInv, TypeOK, ProducerInv, ConsumerInv, vars
<1> QED
  BY <1>2, <1>3, <1>4, <1>5, <1>6, <1>7, <1>8 DEF Next, Produce, Consume

(* The indices stay within Capacity of each other, and neither thread loses  *)
(* what it found out between its load and its store (FixedRing::insert and   *)
(* remove).                                                                  *)
THEOREM RingInvariance == Spec => []RingInv
<1>1. Init => RingInv
  BY RingInitial
<1>2. RingInv /\ [Next]_vars => RingInv'
  BY RingInductive
<1> QED
  BY <1>1, <1>2, PTL DEF Spec

-----------------------------------------------------------------------------
(* The refinement.                                                           *)

(* The index of the first element that the consumer has not copied out.      *)
First == IF cpc = "publish" THEN ct ELSE tail

(* The abstract queue has an element for each index that is published and    *)
(* not yet taken, and nothing else.                                          *)
LEMMA QueueIs ==
  ASSUME RingInv
  PROVE  /\ First \in Nat /\ tail <= First /\ First <= head
         /\ head - First \in Nat
         /\ Queue = [k \in 1..(head - First) |-> cell[(First + k - 1) % Capacity]]
         /\ Queue \in Seq(Values \cup {0}) /\ Len(Queue) = head - First
<1> USE RingAssumption
<1>1. /\ First \in Nat /\ tail <= First /\ First <= head /\ head - First \in Nat
  BY DEF First, RingInv, TypeOK, ConsumerInv
<1>2. Queue = [k \in 1..(head - First) |-> cell[(First + k - 1) % Capacity]]
  BY DEF Queue, First
<1>3. ASSUME NEW k \in 1..(head - First)
      PROVE  cell[(First + k - 1) % Capacity] \in Values \cup {0}
  <2>1. First + k - 1 \in Nat
    BY <1>1
  <2>2. (First + k - 1) % Capacity \in 0..(Capacity - 1)
    BY <2>1, ModInRange
  <2> QED
    BY <2>2 DEF RingInv, TypeOK
<1> QED
  BY <1>1, <1>2, <1>3

(* A new ring is an empty FIFO.                                              *)
LEMMA RefinesInitial == Init => F!Init
  BY RingAssumption DEF Init, F!Init, Queue

(* The publication of head is an insertion and the load of a cell is a       *)
(* removal; every other access leaves the FIFO alone.                        *)
LEMMA RefinesNext ==
  RingInv /\ RingInv' /\ [Next]_vars => [F!Next]_<<Queue, out>>
<1> SUFFICES ASSUME RingInv, RingInv', [Next]_vars
             PROVE  [F!Next]_<<Queue, out>>
  OBVIOUS
<1> USE RingAssumption
<1>0. head \in Nat /\ tail \in Nat /\ First \in Nat /\ tail <= First /\ First <= head
  BY QueueIs DEF RingInv, TypeOK
<1>1. ASSUME NEW x \in Values, InsertCheck(x) PROVE UNCHANGED <<Queue, out>>
  BY <1>1 DEF InsertCheck, Consumer, Queue
<1>2. CASE InsertStore
  <2>1. ph = head /\ head \in Nat /\ head - tail < Capacity
    BY <1>2 DEF InsertStore, RingInv, TypeOK, ProducerInv
  <2>2. UNCHANGED <<head, tail, cpc, ct, out>>
    BY <1>2 DEF InsertStore, Consumer
  <2>3. First' = First
    BY <2>2 DEF First
  <2>4. ASSUME NEW k \in 1..(head - First)
        PROVE  cell'[(First + k - 1) % Capacity] = cell[(First + k - 1) % Capacity]
    <3>1. /\ First + k - 1 \in Nat /\ First + k - 1 < head
          /\ head - (First + k - 1) < Capacity
      BY <1>0, <2>1
    <3>2. (First + k - 1) % Capacity # head % Capacity
      BY <2>1, <3>1, ModDistinct
    <3>3. (First + k - 1) % Capacity \in 0..(Capacity - 1)
      BY <3>1, ModInRange
    <3> QED
      BY <1>2, <2>1, <3>2, <3>3 DEF InsertStore, RingInv, TypeOK
  <2> QED
    BY <2>2, <2>3, <2>4 DEF Queue, First
<1>3. CASE InsertPublish
  <2>1. /\ head' = head + 1 /\ UNCHANGED <<tail, cpc, ct, cell, out>>
        /\ cell[head % Capacity] = pv /\ pv \in Values /\ head - tail < Capacity
    BY <1>3 DEF InsertPublish, Consumer, RingInv, ProducerInv
  <2>2. First' = First
    BY <2>1 DEF First
  <2>3. Len(Queue) < Capacity
    BY <2>1, QueueIs DEF RingInv, TypeOK
  <2>4. Queue' = Append(Queue, pv)
    <3> DEFINE n == head - First
    <3>1. n \in Nat /\ head' - First' = n + 1 /\ First + (n + 1) - 1 = head
      BY <1>0, <2>1, <2>2
    <3>2. Queue' = [k \in 1..(n + 1) |-> cell[(First + k - 1) % Capacity]]
      BY <2>1, <2>2, <3>1 DEF Queue, First
    <3>3. Queue = [k \in 1..n |-> cell[(First + k - 1) % Capacity]]
      BY QueueIs
    <3>4. Queue \in Seq(Values \cup {0}) /\ Len(Queue) = n
      BY QueueIs
    <3> HIDE DEF n
    <3>5. ASSUME NEW k \in 1..(n + 1)
          PROVE  Queue'[k] = Append(Queue, pv)[k]
      <4>1. CASE k = n + 1
        BY <2>1, <3>1, <3>2, <3>4, <4>1, SeqAppend
      <4>2. CASE k \in 1..n
        BY <2>1, <3>1, <3>2, <3>3, <3>4, <4>2, SeqAppend
      <4>3. k = n + 1 \/ k \in 1..n
        BY <3>1
      <4> QED
        BY <4>1, <4>2, <4>3, Zenon
    <3>6. Append(Queue, pv) \in [1..(n + 1) -> Values \cup {0}]
      <4>1. pv \in Values \cup {0}
        BY <2>1
      <4>2. /\ Append(Queue, pv) \in Seq(Values \cup {0})
            /\ Len(Append(Queue, pv)) = n + 1
        BY <3>4, <4>1, SeqAppend
      <4> QED
        BY <4>2, SeqLength, Zenon
    <3>7. Queue' = [k \in 1..(n + 1) |-> Queue'[k]]
      BY <3>2
    <3>8. Append(Queue, pv) = [k \in 1..(n + 1) |-> Append(Queue, pv)[k]]
      BY <3>6, Zenon
    <3> QED
      BY <3>5, <3>7, <3>8, Zenon
  <2>5. F!Put(pv)
    BY <2>1, <2>3, <2>4 DEF F!Put
  <2> QED
    BY <2>1, <2>5 DEF F!Next
<1>4. CASE RemoveCheck
  BY <1>4 DEF RemoveCheck, Producer, Queue
<1>5. CASE RemoveLoad
  <2>1. /\ First = tail /\ First' = tail + 1 /\ ct = tail
        /\ UNCHANGED <<head, cell>> /\ tail < head
        /\ out' = Append(out, cell[tail % Capacity])
    BY <1>5 DEF First, RemoveLoad, Producer, RingInv, ConsumerInv
  <2> DEFINE n == head - First
  <2>2. n \in Nat /\ n >= 1 /\ head' - First' = n - 1 /\ First \in Nat
    BY <1>0, <2>1
  <2>3. Queue = [k \in 1..n |-> cell[(First + k - 1) % Capacity]]
    BY QueueIs
  <2>4. Queue' = [k \in 1..(n - 1) |-> cell[(First + 1 + k - 1) % Capacity]]
    BY <2>1, <2>2 DEF Queue, First
  <2>5. Queue \in Seq(Values \cup {0}) /\ Len(Queue) = n
    BY QueueIs
  <2> HIDE DEF n
  <2>6. Queue # <<>> /\ Head(Queue) = cell[tail % Capacity]
    BY <2>1, <2>2, <2>3, <2>5
  <2>7. Tail(Queue) = [k \in 1..(n - 1) |-> Queue[k + 1]]
    BY <2>2, <2>5, <2>6, SeqTail
  <2>8. ASSUME NEW k \in 1..(n - 1)
        PROVE  Queue[k + 1] = cell[(First + 1 + k - 1) % Capacity]
    <3>1. k + 1 \in 1..n /\ First + (k + 1) - 1 = First + 1 + k - 1
      BY <2>2
    <3> QED
      BY <2>3, <3>1
  <2>9. Queue' = Tail(Queue)
    BY <2>4, <2>7, <2>8
  <2> QED
    BY <2>1, <2>6, <2>9 DEF F!Next, F!Get
<1>6. CASE RemovePublish
  <2>1. First' = First /\ UNCHANGED <<head, cell, out>>
    BY <1>6 DEF First, RemovePublish, Producer
  <2> QED
    BY <2>1 DEF Queue, First
<1>7. CASE UNCHANGED vars
  BY <1>7 DEF vars, Queue
<1> QED
  BY <1>1, <1>2, <1>3, <1>4, <1>5, <1>6, <1>7 DEF Next, Produce, Consume

(* insert and remove of a FixedRing (basic/ring.h), however the accesses of  *)
(* the producer and of the consumer interleave, implement a FIFO queue of at *)
(* most Capacity elements: for every capacity the consumer gets what was     *)
(* inserted, in order, and nothing is overwritten before it is read.         *)
THEOREM RingImplementsFifo == Spec => ImplementsFifo
<1>1. Init => F!Init
  BY RefinesInitial
<1>2. RingInv /\ RingInv' /\ [Next]_vars => [F!Next]_<<Queue, out>>
  BY RefinesNext
<1> QED
  BY <1>1, <1>2, RingInvariance, PTL DEF Spec, ImplementsFifo, F!Spec
=============================================================================
