---------------------------- MODULE PlanningProofs ----------------------------
(***************************************************************************)
(* What the planning gates promise for every number of processes and rooms,  *)
(* and an architecture plan for every number of calls and every choice of    *)
(* criteria, rows, inputs and plans found on disk.  Both are files that      *)
(* several processes read, change and write again without a lock.            *)
(*                                                                           *)
(* The argument for the gates: on a room where no two calls have overlapped,  *)
(* the process that has read the file is the only one that may write it, so   *)
(* the record it derives fits the history at the time of the write as well as  *)
(* it did when it was read.  A record fits when no flag of a non-trivial room  *)
(* is among those that are still owed a confirmation.                          *)
(***************************************************************************)
EXTENDS PlanningGate, ArchitecturePlan, TLAPS

-------------------------------------------------------------------------------
(* The planning gates. *)

\* The flags on record are not among those owed.
Fits(state, due) == IsNonTrivial(state) => state.flags \cap due = {}

Exclusive ==
    \A room \in Rooms : ~planningOverlapped[room] =>
        \A p, q \in Processes : Holds(p, room) /\ Holds(q, room) => p = q

RecordFits ==
    \A room \in Rooms :
        IsReadable(room) /\ ~planningOverlapped[room] => Fits(stateFile[room], owed[room])

NextRecordFits ==
    \A p \in Processes : \A room \in Rooms :
        Holds(p, room) /\ ~planningOverlapped[room] =>
            Fits(planningCall[p].next,
                 (owed[room] \cup planningCall[p].voids) \ planningCall[p].gives)

\* A call on its way to the pointer has written the file.
WrittenFirst ==
    \A p \in Processes :
        planningCall[p] /= Idle /\ planningCall[p].phase \in {"pointer", "pointing"} =>
            stateFile[planningCall[p].room] /= Missing

IInv ==
    /\ PlanningTypeOK
    /\ Exclusive
    /\ RecordFits
    /\ NextRecordFits
    /\ WrittenFirst
    /\ PointedRoomHasState

-------------------------------------------------------------------------------
(* The records a call derives are states, and fit what the call does to the  *)
(* history.                                                                  *)

\* A new record fits any history.
LEMMA CreatedFits ==
    ASSUME NEW scope \in ScopeClassifications, NEW due
    PROVE  Created(scope) \in PlanningStates /\ Fits(Created(scope), due)
  BY DEF Created, PlanningStates, Fits

\* A flag that is turned on is no longer owed.
LEMMA WithFlagsFits ==
    ASSUME NEW state \in PlanningStates, NEW due \in SUBSET Confirmations,
           NEW on \in SUBSET StateNames, NEW off \in SUBSET StateNames,
           Fits(state, due)
    PROVE  /\ WithFlags(state, on, off) \in PlanningStates
           /\ Fits(WithFlags(state, on, off),
                   (due \cup {}) \ IF IsNonTrivial(state)
                                   THEN on \cap Confirmations ELSE {})
  <1> DEFINE new == WithFlags(state, on, off)
  <1>1. /\ new \in PlanningStates
        /\ new.flags = (state.flags \cup on) \ off
        /\ new.scope = state.scope
    BY DEF PlanningStates, WithFlags
  <1> HIDE DEF new
  <1>2. due \subseteq Confirmations
    OBVIOUS
  <1>3. ASSUME IsNonTrivial(new)
        PROVE  new.flags \cap (due \ (on \cap Confirmations)) = {}
    <2>1. IsNonTrivial(state) /\ state.flags \cap due = {}
      BY <1>1, <1>3 DEF IsNonTrivial, Fits
    <2> QED
      BY <2>1, <1>1, <1>2
  <1>4. IsNonTrivial(new) => IsNonTrivial(state)
    BY <1>1 DEF IsNonTrivial
  <1>5. Fits(new, (due \cup {}) \ IF IsNonTrivial(state)
                                  THEN on \cap Confirmations ELSE {})
    BY <1>3, <1>4 DEF Fits
  <1> QED
    BY <1>1, <1>5 DEF new

\* An invalidation clears the flags it voids.
LEMMA InvalidatedFits ==
    ASSUME NEW state \in PlanningStates, NEW due \in SUBSET Confirmations,
           NEW kind \in InvalidationKinds, Fits(state, due)
    PROVE  /\ Invalidated(state, kind) \in PlanningStates
           /\ Invalidated(state, kind).scope = state.scope
           /\ Invalidated(state, kind).flags = state.flags \ Cleared(kind)
           /\ Fits(Invalidated(state, kind), (due \cup Cleared(kind)) \ {})
  <1> DEFINE new == Invalidated(state, kind)
  <1>1. /\ new \in PlanningStates
        /\ new.flags = state.flags \ Cleared(kind)
        /\ new.scope = state.scope
    BY DEF PlanningStates, Invalidated
  <1> HIDE DEF new
  <1>2. Fits(new, (due \cup Cleared(kind)) \ {})
    BY <1>1 DEF Fits, IsNonTrivial
  <1> QED
    BY <1>1, <1>2 DEF new

\* A room becomes non-trivial without flags, or was so before.
LEMMA ReclassifiedFits ==
    ASSUME NEW state \in PlanningStates, NEW due \in SUBSET Confirmations,
           NEW scope \in ScopeClassifications, Fits(state, due)
    PROVE  /\ Reclassified(state, scope) \in PlanningStates
           /\ Fits(Reclassified(state, scope),
                   (due \cup IF IsPromotion(state, scope) \/ scope \notin NonTrivialScopes
                             THEN Confirmations ELSE {}) \ {})
  <1> DEFINE new == Reclassified(state, scope)
  <1>1. CASE IsPromotion(state, scope)
    <2> DEFINE cleared == Invalidated(state, "prd_or_scope")
    <2>1. "prd_or_scope" \in InvalidationKinds /\ Cleared("prd_or_scope") = Confirmations
      BY DEF InvalidationKinds, Cleared
    <2>2. cleared \in PlanningStates /\ cleared.flags = state.flags \ Confirmations
      BY <2>1, InvalidatedFits
    <2>3. new = [cleared EXCEPT !.scope = scope]
      BY <1>1 DEF Reclassified
    <2> HIDE DEF cleared
    <2>4. new \in PlanningStates /\ new.flags = state.flags \ Confirmations
      BY <2>2, <2>3 DEF PlanningStates
    <2> HIDE DEF new
    <2>5. new.flags \cap ((due \cup Confirmations) \ {}) = {}
      BY <2>4
    <2>6. Fits(new, (due \cup IF IsPromotion(state, scope) \/ scope \notin NonTrivialScopes
                              THEN Confirmations ELSE {}) \ {})
      BY <1>1, <2>5 DEF Fits
    <2> QED
      BY <2>4, <2>6 DEF new
  <1>2. CASE ~IsPromotion(state, scope)
    <2>1. new = [state EXCEPT !.scope = scope]
      BY <1>2 DEF Reclassified
    <2>2. new \in PlanningStates /\ new.flags = state.flags /\ new.scope = scope
      BY <2>1 DEF PlanningStates
    <2> HIDE DEF new
    <2>3. CASE scope \notin NonTrivialScopes
      BY <2>2, <2>3 DEF Fits, IsNonTrivial, new
    <2>4. CASE scope \in NonTrivialScopes
      <3>1. IsNonTrivial(state)
        BY <1>2, <2>4 DEF IsPromotion, IsNonTrivial, NonTrivialScopes
      <3>2. new.flags \cap (due \cup {}) = {}
        BY <3>1, <2>2 DEF Fits
      <3>3. Fits(new, (due \cup IF IsPromotion(state, scope) \/ scope \notin NonTrivialScopes
                                THEN Confirmations ELSE {}) \ {})
        BY <3>2, <1>2, <2>4 DEF Fits
      <3> QED
        BY <3>3, <2>2 DEF new
    <2> QED
      BY <2>3, <2>4
  <1> QED
    BY <1>1, <1>2

-------------------------------------------------------------------------------
(* Every step preserves the invariant. *)

LEMMA InitInv == PlanningInit => IInv
  BY PlanningAbsentAssumption
  DEF PlanningInit, IInv, PlanningTypeOK, Exclusive, RecordFits, NextRecordFits, WrittenFirst,
      PointedRoomHasState, Holds, IsReadable

\* A call begins: it is alone in its room, or the overlap is on record.
LEMMA BeginKeeps ==
    ASSUME IInv, NEW p \in Processes, NEW room \in Rooms,
           NEW next \in PlanningStates, NEW voids \in SUBSET Confirmations,
           NEW gives \in SUBSET Confirmations, NEW invalidates \in BOOLEAN,
           PlanningBegin(p, room, next, voids, gives, invalidates),
           ~planningOverlapped[room] => Fits(next, (owed[room] \cup voids) \ gives)
    PROVE  IInv'
  <1> DEFINE c == [phase |-> "read", room |-> room, next |-> next, voids |-> voids,
                   gives |-> gives, invalidates |-> invalidates]
  <1>1. /\ c \in PlanningCalls
        /\ c.phase = "read" /\ c.room = room /\ c.next = next
        /\ c.voids = voids /\ c.gives = gives
    BY DEF PlanningCalls
  <1>2. planningCall' = [planningCall EXCEPT ![p] = c]
    BY DEF PlanningBegin
  <1> HIDE DEF c
  <1>3. /\ c /= Idle
        /\ planningCall'[p] = c
        /\ \A q \in Processes : q /= p => planningCall'[q] = planningCall[q]
    BY <1>1, <1>2, PlanningAbsentAssumption DEF IInv, PlanningTypeOK
  <1>4. /\ UNCHANGED <<stateFile, planningPointer, workflowPointer, owed, unanswered>>
        /\ planningOverlapped' \in [Rooms -> BOOLEAN]
        /\ \A r \in Rooms : ~planningOverlapped'[r] => ~planningOverlapped[r]
        /\ ~planningOverlapped'[room] => \A q \in Processes : ~Holds(q, room)
    BY DEF PlanningBegin, IInv, PlanningTypeOK
  <1>5. \A q \in Processes : \A r \in Rooms :
            Holds(q, r)' => Holds(q, r) \/ (q = p /\ r = room)
    BY <1>1, <1>3 DEF Holds
  <1>6. PlanningTypeOK'
    BY <1>1, <1>2, <1>4 DEF IInv, PlanningTypeOK
  <1>7. Exclusive'
    BY <1>4, <1>5 DEF IInv, Exclusive
  <1>8. RecordFits'
    BY <1>4 DEF IInv, RecordFits, IsReadable
  <1>9. NextRecordFits'
    <2> SUFFICES ASSUME NEW q \in Processes, NEW r \in Rooms,
                        Holds(q, r)', ~planningOverlapped'[r]
                 PROVE  Fits(planningCall'[q].next,
                             (owed'[r] \cup planningCall'[q].voids) \ planningCall'[q].gives)
      BY DEF NextRecordFits, Fits, IsNonTrivial
    <2>1. CASE q = p
      <3>1. r = room
        BY <2>1, <1>1, <1>3 DEF Holds
      <3> QED
        BY <2>1, <3>1, <1>1, <1>3, <1>4
    <2>2. CASE q /= p
      <3>1. Holds(q, r) /\ ~planningOverlapped[r] /\ planningCall'[q] = planningCall[q]
        BY <2>2, <1>3, <1>4, <1>5
      <3> QED
        BY <3>1, <1>4 DEF IInv, NextRecordFits
    <2> QED
      BY <2>1, <2>2
  <1>10. WrittenFirst'
    BY <1>1, <1>3, <1>4 DEF IInv, WrittenFirst
  <1>11. PointedRoomHasState'
    BY <1>4 DEF IInv, PointedRoomHasState
  <1> QED
    BY <1>6, <1>7, <1>8, <1>9, <1>10, <1>11 DEF IInv

\* What a call finds on a readable file.
LEMMA ReadRecord ==
    ASSUME IInv, NEW room \in Rooms, IsReadable(room)
    PROVE  /\ stateFile[room] \in PlanningStates
           /\ owed[room] \in SUBSET Confirmations
           /\ ~planningOverlapped[room] => Fits(stateFile[room], owed[room])
  BY DEF IInv, PlanningTypeOK, IsReadable, RecordFits

LEMMA CreateKeeps ==
    ASSUME IInv, NEW p \in Processes, NEW room \in Rooms, Create(p, room)
    PROVE  IInv'
  <1>1. PICK scope \in Scopes :
            PlanningBegin(p, room, Created(scope), Confirmations, {}, FALSE)
    BY DEF Create
  <1>2. scope \in ScopeClassifications
    BY PlanningInputsAssumption
  <1> QED
    BY <1>1, <1>2, CreatedFits, BeginKeeps

\* Without the invariant's claim on the record, the derived one is a state still.
LEMMA DerivedStates ==
    ASSUME NEW state \in PlanningStates
    PROVE  /\ \A on, off \in SUBSET StateNames :
                  WithFlags(state, on, off) \in PlanningStates
           /\ \A kind : Invalidated(state, kind) \in PlanningStates
           /\ \A scope \in ScopeClassifications :
                  Reclassified(state, scope) \in PlanningStates
  BY DEF PlanningStates, WithFlags, Invalidated, Reclassified

LEMMA SetFlagKeeps ==
    ASSUME IInv, NEW p \in Processes, NEW room \in Rooms, SetFlag(p, room)
    PROVE  IInv'
  <1> DEFINE gives(on) == IF IsNonTrivial(stateFile[room]) THEN on \cap Confirmations ELSE {}
  <1>1. PICK update \in FlagUpdates :
            PlanningBegin(p, room, WithFlags(stateFile[room], update[1], update[2]), {},
                  gives(update[1]), FALSE)
    BY DEF SetFlag
  <1>2. update[1] \in SUBSET StateNames /\ update[2] \in SUBSET StateNames
    BY PlanningInputsAssumption
  <1>3. /\ stateFile[room] \in PlanningStates
        /\ owed[room] \in SUBSET Confirmations
        /\ ~planningOverlapped[room] => Fits(stateFile[room], owed[room])
    BY ReadRecord DEF SetFlag
  <1>4. WithFlags(stateFile[room], update[1], update[2]) \in PlanningStates
    BY <1>2, <1>3, DerivedStates
  <1>5. gives(update[1]) \in SUBSET Confirmations /\ {} \in SUBSET Confirmations
    BY <1>2
  <1>6. ~planningOverlapped[room] =>
            Fits(WithFlags(stateFile[room], update[1], update[2]),
                 (owed[room] \cup {}) \ gives(update[1]))
    BY <1>2, <1>3, WithFlagsFits
  <1> HIDE DEF gives
  <1> QED
    BY <1>1, <1>4, <1>5, <1>6, BeginKeeps

LEMMA SetScopeKeeps ==
    ASSUME IInv, NEW p \in Processes, NEW room \in Rooms,
           SetScopeClassification(p, room)
    PROVE  IInv'
  <1> DEFINE voids(scope) ==
          IF IsPromotion(stateFile[room], scope) \/ scope \notin NonTrivialScopes
          THEN Confirmations ELSE {}
  <1>1. PICK scope \in Scopes :
            PlanningBegin(p, room, Reclassified(stateFile[room], scope), voids(scope), {},
                  IsPromotion(stateFile[room], scope))
    BY DEF SetScopeClassification
  <1>2. scope \in ScopeClassifications
    BY PlanningInputsAssumption
  <1>3. /\ stateFile[room] \in PlanningStates
        /\ owed[room] \in SUBSET Confirmations
        /\ ~planningOverlapped[room] => Fits(stateFile[room], owed[room])
    BY ReadRecord DEF SetScopeClassification
  <1>4. Reclassified(stateFile[room], scope) \in PlanningStates
    BY <1>2, <1>3, DerivedStates
  <1>5. /\ voids(scope) \in SUBSET Confirmations /\ {} \in SUBSET Confirmations
        /\ IsPromotion(stateFile[room], scope) \in BOOLEAN
    BY DEF IsPromotion
  <1>6. ~planningOverlapped[room] =>
            Fits(Reclassified(stateFile[room], scope), (owed[room] \cup voids(scope)) \ {})
    BY <1>2, <1>3, ReclassifiedFits
  <1> HIDE DEF voids
  <1> QED
    BY <1>1, <1>4, <1>5, <1>6, BeginKeeps

LEMMA InvalidateKeeps ==
    ASSUME IInv, NEW p \in Processes, NEW room \in Rooms, Invalidate(p, room)
    PROVE  IInv'
  <1>1. PICK kind \in InvalidationKinds :
            PlanningBegin(p, room, Invalidated(stateFile[room], kind), Cleared(kind), {}, TRUE)
    BY DEF Invalidate
  <1>2. /\ stateFile[room] \in PlanningStates
        /\ owed[room] \in SUBSET Confirmations
        /\ ~planningOverlapped[room] => Fits(stateFile[room], owed[room])
    BY ReadRecord DEF Invalidate
  <1>3. Invalidated(stateFile[room], kind) \in PlanningStates
    BY <1>2, DerivedStates
  <1>4. Cleared(kind) \in SUBSET Confirmations /\ {} \in SUBSET Confirmations
    BY DEF Cleared, Confirmations, StateNames
  <1>5. ~planningOverlapped[room] =>
            Fits(Invalidated(stateFile[room], kind), (owed[room] \cup Cleared(kind)) \ {})
    BY <1>2, InvalidatedFits
  <1> QED
    BY <1>1, <1>3, <1>4, <1>5, BeginKeeps

LEMMA TruncateStateKeeps ==
    ASSUME IInv, NEW p \in Processes, TruncateState(p)
    PROVE  IInv'
  <1> DEFINE c == [planningCall[p] EXCEPT !.phase = "state"]
             room == planningCall[p].room
  <1>1. /\ planningCall[p] \in PlanningCalls /\ room \in Rooms
        /\ planningCall[p] /= Idle /\ planningCall[p].phase = "read"
    BY DEF IInv, PlanningTypeOK, TruncateState, PlanningCalls
  <1>2. /\ c \in PlanningCalls /\ c.phase = "state" /\ c.room = room
        /\ c.next = planningCall[p].next
        /\ c.voids = planningCall[p].voids /\ c.gives = planningCall[p].gives
    BY <1>1 DEF PlanningCalls
  <1>3. planningCall' = [planningCall EXCEPT ![p] = c]
    BY <1>1 DEF TruncateState, IInv, PlanningTypeOK
  <1> HIDE DEF c
  <1>4. /\ c /= Idle
        /\ planningCall'[p] = c
        /\ \A q \in Processes : q /= p => planningCall'[q] = planningCall[q]
    BY <1>2, <1>3, PlanningAbsentAssumption DEF IInv, PlanningTypeOK
  <1>5. /\ stateFile'[room] = Torn
        /\ \A r \in Rooms : r /= room => stateFile'[r] = stateFile[r]
        /\ stateFile' \in [Rooms -> PlanningStates \cup {Missing, Torn}]
        /\ UNCHANGED <<planningPointer, workflowPointer, owed, unanswered, planningOverlapped>>
    BY <1>1 DEF TruncateState, planningHistory, IInv, PlanningTypeOK
  <1>6. \A q \in Processes : \A r \in Rooms : Holds(q, r)' => Holds(q, r)
    BY <1>1, <1>2, <1>4 DEF Holds
  <1>7. PlanningTypeOK'
    BY <1>2, <1>3, <1>5 DEF IInv, PlanningTypeOK
  <1>8. Exclusive'
    BY <1>5, <1>6 DEF IInv, Exclusive
  <1>9. RecordFits'
    BY <1>5 DEF IInv, RecordFits, IsReadable
  <1>10. NextRecordFits'
    <2> SUFFICES ASSUME NEW q \in Processes, NEW r \in Rooms,
                        Holds(q, r)', ~planningOverlapped'[r]
                 PROVE  Fits(planningCall'[q].next,
                             (owed'[r] \cup planningCall'[q].voids) \ planningCall'[q].gives)
      BY DEF NextRecordFits, Fits, IsNonTrivial
    <2>1. Fits(planningCall[q].next, (owed[r] \cup planningCall[q].voids) \ planningCall[q].gives)
      BY <1>5, <1>6 DEF IInv, NextRecordFits
    <2> QED
      BY <2>1, <1>2, <1>4, <1>5
  <1>11. WrittenFirst'
    <2> SUFFICES ASSUME NEW q \in Processes, planningCall'[q] /= Idle,
                        planningCall'[q].phase \in {"pointer", "pointing"}
                 PROVE  stateFile'[planningCall'[q].room] /= Missing
      BY DEF WrittenFirst
    <2>1. q /= p /\ planningCall'[q] = planningCall[q]
      BY <1>2, <1>4
    <2>2. planningCall[q].room \in Rooms /\ stateFile[planningCall[q].room] /= Missing
      BY <2>1 DEF IInv, PlanningTypeOK, PlanningCalls, WrittenFirst
    <2> QED
      BY <2>1, <2>2, <1>5, PlanningAbsentAssumption
  <1>12. PointedRoomHasState'
    BY <1>5, PlanningAbsentAssumption DEF IInv, PointedRoomHasState
  <1> QED
    BY <1>7, <1>8, <1>9, <1>10, <1>11, <1>12 DEF IInv

LEMMA WriteStateKeeps ==
    ASSUME IInv, NEW p \in Processes, WriteState(p)
    PROVE  IInv'
  <1> DEFINE c == [planningCall[p] EXCEPT !.phase = "pointer"]
             room == planningCall[p].room
             due == (owed[room] \cup planningCall[p].voids) \ planningCall[p].gives
  <1>1. /\ planningCall[p] \in PlanningCalls /\ room \in Rooms
        /\ planningCall[p] /= Idle /\ planningCall[p].phase = "state"
        /\ planningCall[p].next \in PlanningStates
        /\ planningCall[p].voids \in SUBSET Confirmations
        /\ planningCall[p].invalidates \in BOOLEAN
        /\ Holds(p, room)
    BY DEF IInv, PlanningTypeOK, WriteState, PlanningCalls, Holds
  <1>2. c \in PlanningCalls /\ c.phase = "pointer" /\ c.room = room
    BY <1>1 DEF PlanningCalls
  <1>3. planningCall' = [planningCall EXCEPT ![p] = c]
    BY <1>1 DEF WriteState, IInv, PlanningTypeOK
  <1> HIDE DEF c
  <1>4. /\ c /= Idle
        /\ planningCall'[p] = c
        /\ \A q \in Processes : q /= p => planningCall'[q] = planningCall[q]
    BY <1>2, <1>3, PlanningAbsentAssumption DEF IInv, PlanningTypeOK
  <1>5. /\ stateFile'[room] = planningCall[p].next \/ stateFile'[room] = Torn
        /\ stateFile'[room] /= Missing
        /\ \A r \in Rooms : r /= room => stateFile'[r] = stateFile[r]
        /\ stateFile' \in [Rooms -> PlanningStates \cup {Missing, Torn}]
    <2>1. \/ stateFile' = [stateFile EXCEPT ![room] = planningCall[p].next]
          \/ stateFile' = [stateFile EXCEPT ![room] = Torn]
      BY DEF WriteState
    <2> QED
      BY <2>1, <1>1, PlanningAbsentAssumption DEF IInv, PlanningTypeOK
  <1>6. /\ owed' \in [Rooms -> SUBSET Confirmations]
        /\ owed'[room] = due
        /\ \A r \in Rooms : r /= room => owed'[r] = owed[r]
    <2>1. owed' = [owed EXCEPT ![room] = due]
      BY DEF WriteState
    <2>2. due \in SUBSET Confirmations
      BY <1>1 DEF IInv, PlanningTypeOK
    <2> QED
      BY <2>1, <2>2, <1>1 DEF IInv, PlanningTypeOK
  <1>7. /\ UNCHANGED <<planningPointer, workflowPointer, planningOverlapped>>
        /\ unanswered' \in [Rooms -> BOOLEAN]
    <2>1. unanswered' = [unanswered EXCEPT ![room] =
              planningCall[p].invalidates \/ (@ /\ "sprint_confirmed" \notin planningCall[p].gives)]
      BY DEF WriteState
    <2> QED
      BY <2>1, <1>1 DEF WriteState, IInv, PlanningTypeOK
  <1>8. \A q \in Processes : \A r \in Rooms : Holds(q, r)' => q /= p /\ Holds(q, r)
    BY <1>2, <1>4 DEF Holds
  <1> HIDE DEF due
  <1>9. PlanningTypeOK'
    BY <1>2, <1>3, <1>5, <1>6, <1>7 DEF IInv, PlanningTypeOK
  <1>10. Exclusive'
    BY <1>7, <1>8 DEF IInv, Exclusive
  <1>11. ~planningOverlapped[room] => Fits(planningCall[p].next, due)
    BY <1>1 DEF IInv, NextRecordFits, due
  <1>12. RecordFits'
    <2> SUFFICES ASSUME NEW r \in Rooms, IsReadable(r)', ~planningOverlapped'[r]
                 PROVE  Fits(stateFile'[r], owed'[r])
      BY DEF RecordFits, Fits, IsNonTrivial
    <2>1. CASE r = room
      BY <2>1, <1>5, <1>6, <1>7, <1>11 DEF IsReadable
    <2>2. CASE r /= room
      BY <2>2, <1>5, <1>6, <1>7 DEF IInv, RecordFits, IsReadable
    <2> QED
      BY <2>1, <2>2
  <1>13. NextRecordFits'
    <2> SUFFICES ASSUME NEW q \in Processes, NEW r \in Rooms,
                        Holds(q, r)', ~planningOverlapped'[r]
                 PROVE  Fits(planningCall'[q].next,
                             (owed'[r] \cup planningCall'[q].voids) \ planningCall'[q].gives)
      BY DEF NextRecordFits, Fits, IsNonTrivial
    <2>1. q /= p /\ Holds(q, r) /\ ~planningOverlapped[r] /\ planningCall'[q] = planningCall[q]
      BY <1>4, <1>7, <1>8
    <2>2. r /= room
      BY <2>1, <1>1 DEF IInv, Exclusive
    <2> QED
      BY <2>1, <2>2, <1>6 DEF IInv, NextRecordFits
  <1>14. WrittenFirst'
    <2> SUFFICES ASSUME NEW q \in Processes, planningCall'[q] /= Idle,
                        planningCall'[q].phase \in {"pointer", "pointing"}
                 PROVE  stateFile'[planningCall'[q].room] /= Missing
      BY DEF WrittenFirst
    <2>1. CASE q = p
      BY <2>1, <1>2, <1>4, <1>5
    <2>2. CASE q /= p
      <3>1. /\ planningCall'[q] = planningCall[q] /\ planningCall[q].room \in Rooms
            /\ stateFile[planningCall[q].room] /= Missing
        BY <2>2, <1>4 DEF IInv, PlanningTypeOK, PlanningCalls, WrittenFirst
      <3> QED
        BY <3>1, <1>5
    <2> QED
      BY <2>1, <2>2
  <1>15. PointedRoomHasState'
    BY <1>5, <1>7 DEF IInv, PointedRoomHasState
  <1> QED
    BY <1>9, <1>10, <1>12, <1>13, <1>14, <1>15 DEF IInv

\* A step that leaves the files, the history and, but for p, the calls alone.
LEMMA PointerKeeps ==
    ASSUME IInv, NEW p \in Processes,
           UNCHANGED <<stateFile, planningHistory>>,
           NEW c \in PlanningCalls \cup {Idle}, planningCall' = [planningCall EXCEPT ![p] = c],
           c /= Idle => /\ planningCall[p] /= Idle /\ c.room = planningCall[p].room
                        /\ c.phase \in {"pointer", "pointing"}
                        /\ planningCall[p].phase \in {"pointer", "pointing"},
           workflowPointer' \in Rooms \cup {Missing},
           \/ planningPointer' \in {planningPointer, Torn}
           \/ planningPointer' \in Rooms /\ stateFile[planningPointer'] /= Missing
    PROVE  IInv'
  <1>1. /\ planningCall'[p] = c
        /\ \A q \in Processes : q /= p => planningCall'[q] = planningCall[q]
        /\ UNCHANGED <<stateFile, owed, unanswered, planningOverlapped>>
    BY DEF IInv, PlanningTypeOK, planningHistory
  <1>2. \A q \in Processes : \A r \in Rooms :
            Holds(q, r)' => Holds(q, r) /\ planningCall'[q] = planningCall[q]
    BY <1>1 DEF Holds
  <1>3. PlanningTypeOK'
    BY <1>1 DEF IInv, PlanningTypeOK
  <1>4. Exclusive'
    BY <1>1, <1>2 DEF IInv, Exclusive
  <1>5. RecordFits'
    BY <1>1 DEF IInv, RecordFits, IsReadable
  <1>6. NextRecordFits'
    <2> SUFFICES ASSUME NEW q \in Processes, NEW r \in Rooms,
                        Holds(q, r)', ~planningOverlapped'[r]
                 PROVE  Fits(planningCall'[q].next,
                             (owed'[r] \cup planningCall'[q].voids) \ planningCall'[q].gives)
      BY DEF NextRecordFits, Fits, IsNonTrivial
    <2> QED
      BY <1>1, <1>2 DEF IInv, NextRecordFits
  <1>7. WrittenFirst'
    BY <1>1 DEF IInv, WrittenFirst
  <1>8. PointedRoomHasState'
    BY <1>1, PlanningAbsentAssumption DEF IInv, PointedRoomHasState
  <1> QED
    BY <1>3, <1>4, <1>5, <1>6, <1>7, <1>8 DEF IInv

LEMMA TruncatePointerKeeps ==
    ASSUME IInv, NEW p \in Processes, TruncatePointer(p)
    PROVE  IInv'
  <1> DEFINE c == [planningCall[p] EXCEPT !.phase = "pointing"]
  <1>1. /\ planningCall[p] \in PlanningCalls /\ planningCall[p] /= Idle
        /\ planningCall[p].phase = "pointer"
    BY DEF IInv, PlanningTypeOK, TruncatePointer, IsPointerDue
  <1>2. c \in PlanningCalls /\ c.room = planningCall[p].room /\ c.phase = "pointing"
    BY <1>1 DEF PlanningCalls
  <1>3. planningCall' = [planningCall EXCEPT ![p] = c]
    BY <1>1 DEF TruncatePointer, IInv, PlanningTypeOK
  <1>4. /\ UNCHANGED <<stateFile, planningHistory>>
        /\ workflowPointer' \in Rooms \cup {Missing}
        /\ planningPointer' = Torn
    BY DEF TruncatePointer, IInv, PlanningTypeOK
  <1> HIDE DEF c
  <1> QED
    BY <1>1, <1>2, <1>3, <1>4, PointerKeeps

LEMMA WritePointerKeeps ==
    ASSUME IInv, NEW p \in Processes, WritePointer(p)
    PROVE  IInv'
  <1>1. /\ planningCall[p] /= Idle /\ planningCall[p].phase = "pointing"
        /\ planningCall[p].room \in Rooms /\ stateFile[planningCall[p].room] /= Missing
    BY DEF IInv, PlanningTypeOK, PlanningCalls, WrittenFirst, WritePointer
  <1>2. /\ UNCHANGED <<stateFile, planningHistory>>
        /\ workflowPointer' \in Rooms \cup {Missing}
        /\ planningPointer' = planningCall[p].room \/ planningPointer' = Torn
        /\ planningCall' = [planningCall EXCEPT ![p] = Idle]
    BY DEF WritePointer, IInv, PlanningTypeOK
  <1> QED
    BY <1>1, <1>2, PointerKeeps

LEMMA DieKeeps ==
    ASSUME IInv, NEW p \in Processes, PlanningDie(p)
    PROVE  IInv'
  <1>1. /\ UNCHANGED <<stateFile, planningHistory, planningPointer>>
        /\ workflowPointer' \in Rooms \cup {Missing}
        /\ planningCall' = [planningCall EXCEPT ![p] = Idle]
    BY DEF PlanningDie, IInv, PlanningTypeOK
  <1> QED
    BY <1>1, PointerKeeps

LEMMA Keeps ==
    ASSUME IInv, [PlanningNext]_planningVars
    PROVE  IInv'
  <1>1. ASSUME NEW p \in Processes, PlanningStep(p)
        PROVE  IInv'
    BY <1>1, CreateKeeps, SetFlagKeeps, SetScopeKeeps, InvalidateKeeps,
       TruncateStateKeeps, WriteStateKeeps, TruncatePointerKeeps,
       WritePointerKeeps, DieKeeps
    DEF PlanningStep
  <1>2. ASSUME NEW room \in Rooms, CreateWorkflowRoom(room)
        PROVE  IInv'
    BY <1>2
    DEF CreateWorkflowRoom, planningHistory, IInv, PlanningTypeOK, Exclusive, RecordFits,
        NextRecordFits, WrittenFirst, PointedRoomHasState, Holds, IsReadable
  <1>3. CASE UNCHANGED planningVars
    BY <1>3
    DEF planningVars, IInv, PlanningTypeOK, Exclusive, RecordFits, NextRecordFits, WrittenFirst,
        PointedRoomHasState, Holds, IsReadable
  <1> QED
    BY <1>1, <1>2, <1>3 DEF PlanningNext

-------------------------------------------------------------------------------
THEOREM Invariance == PlanningSpec => []IInv
  <1>1. PlanningInit => IInv
    BY InitInv
  <1>2. IInv /\ [PlanningNext]_planningVars => IInv'
    BY Keeps
  <1> QED
    BY <1>1, <1>2, PTL DEF PlanningSpec

\* The files, the pointers and the calls keep their types under every
\* interleaving and any number of kills.
THEOREM Typing == PlanningSpec => []PlanningTypeOK
  <1>1. IInv => PlanningTypeOK
    BY DEF IInv
  <1> QED
    BY <1>1, Invariance, PTL

\* Unless calls on the room have overlapped, what opens a gate was confirmed after
\* the last change that voided it, in any number of rooms and processes.
THEOREM ConfirmedGates == PlanningSpec => []GatesRestOnConfirmations
  <1>1. IInv => GatesRestOnConfirmations
    <2> SUFFICES ASSUME IInv, NEW room \in Rooms,
                        IsReadable(room), ~planningOverlapped[room]
                 PROVE  /\ SprintGateAllows(stateFile[room]) =>
                               owed[room] \subseteq {"implementation_confirmed"}
                        /\ ImplementationGateAllows(stateFile[room]) => owed[room] = {}
      BY DEF GatesRestOnConfirmations
    <2>1. Fits(stateFile[room], owed[room]) /\ owed[room] \subseteq Confirmations
      BY ReadRecord
    <2> QED
      BY <2>1 DEF Fits, SprintGateAllows, ImplementationGateAllows, Confirmations
  <1> QED
    BY <1>1, Invariance, PTL

\* A kill between the two writes of a call never leaves the pointer at a room
\* without a state.
THEOREM WritesInOrder == PlanningSpec => []PointedRoomHasState
  <1>1. IInv => PointedRoomHasState
    BY DEF IInv
  <1> QED
    BY <1>1, Invariance, PTL

\* Once there is a planning pointer, only a planning write moves the gates.
THEOREM SteadyGates == PlanningSpec => ChurnDoesNotMoveGates
  <1>1. ASSUME IInv, IInv', planningPointer /= Missing, planningPointer' = planningPointer
        PROVE  GateRoom' = GateRoom
    <2>1. CASE planningPointer = Torn
      BY <1>1, <2>1, PlanningAbsentAssumption DEF GateRoom
    <2>2. CASE planningPointer \in Rooms
      <3>1. stateFile[planningPointer] /= Missing /\ stateFile'[planningPointer] /= Missing
        BY <1>1, <2>2 DEF IInv, PointedRoomHasState
      <3> QED
        BY <1>1, <2>2, <3>1 DEF GateRoom
    <2> QED
      BY <1>1, <2>1, <2>2 DEF IInv, PlanningTypeOK
  <1>2. IInv /\ IInv' /\ [PlanningNext]_planningVars =>
            [planningPointer /= Missing /\ planningPointer' = planningPointer
                => GateRoom' = GateRoom]_planningVars
    BY <1>1
  <1> QED
    BY <1>2, Invariance, PTL DEF PlanningSpec, ChurnDoesNotMoveGates

-------------------------------------------------------------------------------
(* Architecture plans: plans and calls. *)

\* What is written is a plan with the same phases, and admissible if the plan was.
LEMMA WrittenIsPlan ==
    ASSUME NEW plan \in Plans
    PROVE  /\ Written(plan) \in Plans
           /\ Written(plan).phases = plan.phases
           /\ IsAdmissible(plan) => IsAdmissible(Written(plan))
  <1>1. /\ Written(plan) \in Plans
        /\ Written(plan).phases = plan.phases
        /\ Written(plan).status = plan.status
        /\ Written(plan).criteria = plan.criteria
        /\ Written(plan).matrix = plan.matrix
        /\ Written(plan).rows = Rewritten(plan.rows)
    BY DEF Plans, Written, Rewritten
  <1>2. Written(plan).rows /= "malformed"
    BY <1>1 DEF Rewritten
  <1> QED
    BY <1>1, <1>2 DEF IsAdmissible, IsCovered

LEMMA RecordedIsPlan ==
    ASSUME NEW input \in Recordings
    PROVE  /\ Recorded(input) \in Plans
           /\ Recorded(input).phases = [phase \in PhaseIds |-> "not_started"]
  BY InputsAssumption DEF Recorded, Plans, PhaseStatuses

LEMMA PatchedIsPlan ==
    ASSUME NEW plan \in Plans, NEW patch \in Patches
    PROVE  Patched(plan, patch) \in Plans /\ Patched(plan, patch).phases = plan.phases
  <1>1. /\ Chosen(patch.status, plan.status) \in PlanStatuses
        /\ Chosen(patch.criteria, plan.criteria) \in CriteriaSets
        /\ Chosen(patch.matrix, plan.matrix) \in Matrices
        /\ Chosen(patch.open, plan.open) \in BOOLEAN
    BY InputsAssumption DEF Chosen, Plans
  <1> QED
    BY <1>1 DEF Patched, Plans

LEMMA AdvancedIsPlan ==
    ASSUME NEW plan \in Plans, NEW phase \in PhaseIds, NEW status \in PhaseStatuses
    PROVE  /\ Advanced(plan, phase, status) \in Plans
           /\ Advanced(plan, phase, status).phases = [plan.phases EXCEPT ![phase] = status]
           /\ IsAdmissible(plan) => IsAdmissible(Advanced(plan, phase, status))
  <1>1. /\ Advanced(plan, phase, status) \in Plans
        /\ Advanced(plan, phase, status).phases = [plan.phases EXCEPT ![phase] = status]
        /\ Advanced(plan, phase, status).status = plan.status
        /\ Advanced(plan, phase, status).criteria = plan.criteria
        /\ Advanced(plan, phase, status).matrix = plan.matrix
        /\ Advanced(plan, phase, status).rows = plan.rows
    BY DEF Advanced, Plans
  <1> QED
    BY <1>1 DEF IsAdmissible, IsCovered

LEMMA PublicStatusesAreStatuses == PublicStatuses \subseteq PhaseStatuses
  BY DEF PublicStatuses, PhaseStatuses

LEMMA RewritingIsCall ==
    ASSUME NEW kind \in {"coder", "reviewer", "tool"}, NEW phase \in PhaseIds,
           NEW plan \in Plans, NEW then \in PublicStatuses \cup {Keep}
    PROVE  Rewriting(kind, phase, plan, then) \in Rewrites
  BY WrittenIsPlan DEF Rewriting, Rewrites

\* The step of a call tells which fields it has.
LEMMA CallsByStep ==
    ASSUME PlanTypeOK, NEW c \in Callers
    PROVE  /\ call[c] \in PlanCalls \cup {NoCall}
           /\ IsAt(c, "working") => call[c] \in Delegations
           /\ Rewriter(c) => call[c] \in Rewrites
           /\ IsAt(c, "patched") => call[c] \in Halfway
  <1>1. call[c] \in PlanCalls \cup {NoCall}
    BY DEF PlanTypeOK
  <1> QED
    BY <1>1 DEF PlanCalls, Delegations, Rewrites, Halfway, IsAt, Rewriter

LEMMA FileIsPlan ==
    ASSUME PlanTypeOK, IsPlan(file)
    PROVE  file \in Plans
  BY DEF PlanTypeOK, IsPlan

-------------------------------------------------------------------------------
(* Type correctness. *)

LEMMA BeginType ==
    ASSUME PlanTypeOK, NEW c \in Callers, NEW new \in PlanCalls, Begin(c, new)
    PROVE  /\ file' = file /\ earned' = earned
           /\ call' \in [Callers -> PlanCalls \cup {NoCall}]
           /\ overlapped' \in BOOLEAN
  BY DEF PlanTypeOK, Begin

LEMMA MarkPhaseType ==
    ASSUME PlanTypeOK, NEW c \in Callers, NEW status \in PhaseStatuses,
           IsAt(c, "working") \/ IsAt(c, "patched"), MarkPhase(c, status)
    PROVE  call' \in [Callers -> PlanCalls \cup {NoCall}]
  <1>1. call[c].phase \in PhaseIds /\ call[c].kind \in {"coder", "reviewer", "tool"}
    BY CallsByStep DEF Delegations, Halfway
  <1>2. CASE IsPlan(file)
    <2>1. Rewriting(call[c].kind, call[c].phase,
                    Advanced(file, call[c].phase, status), Keep) \in PlanCalls
      BY <1>1, <1>2, FileIsPlan, AdvancedIsPlan, RewritingIsCall DEF PlanCalls
    <2> QED
      BY <2>1 DEF MarkPhase, PlanTypeOK
  <1>3. CASE ~IsPlan(file)
    BY <1>3 DEF MarkPhase, PlanTypeOK
  <1> QED
    BY <1>2, <1>3

LEMMA InitType == ASSUME PlanInit PROVE PlanTypeOK
  <1>1. file \in Plans \cup {NoPlan, TornPlan}
    BY InputsAssumption DEF PlanInit
  <1>2. earned \subseteq PhaseIds \X PhaseStatuses
    <2>1. CASE IsPlan(file)
      <3>1. file.phases \in [PhaseIds -> PhaseStatuses]
        BY <1>1, <2>1 DEF IsPlan, Plans
      <3>2. \A phase \in PhaseIds :
                Implied(phase, file.phases[phase]) \subseteq PhaseIds \X PhaseStatuses
        BY <3>1 DEF Implied, PhaseStatuses
      <3> QED
        BY <2>1, <3>2 DEF PlanInit
    <2> QED
      BY <2>1 DEF PlanInit
  <1> QED
    BY <1>1, <1>2 DEF PlanInit, PlanTypeOK

\* Plans, calls and histories stay what they are, whatever the calls do.
THEOREM TypeCorrect == PlanSpec => []PlanTypeOK
  <1>1. PlanInit => PlanTypeOK
    BY InitType
  <1>2. PlanTypeOK /\ [PlanNext]_planVars => PlanTypeOK'
    <2> SUFFICES ASSUME PlanTypeOK, [PlanNext]_planVars PROVE PlanTypeOK'
      OBVIOUS
    <2>1. CASE UNCHANGED planVars
      BY <2>1 DEF planVars, PlanTypeOK
    <2>2. ASSUME NEW c \in Callers, Record(c) PROVE PlanTypeOK'
      <3>1. PICK input \in Recordings :
                Begin(c, Rewriting("tool", "phaseA", Recorded(input), Keep))
        BY <2>2 DEF Record
      <3>2. Rewriting("tool", "phaseA", Recorded(input), Keep) \in PlanCalls
        BY RecordedIsPlan, RewritingIsCall DEF PlanCalls, PhaseIds
      <3> QED
        BY <2>2, <3>1, <3>2, BeginType DEF Record, PlanTypeOK
    <2>3. ASSUME NEW c \in Callers, Update(c) PROVE PlanTypeOK'
      <3>1. PICK patch \in Patches, phase \in PhaseIds, then \in PublicStatuses \cup {Keep} :
                Begin(c, Rewriting("tool", phase, Patched(file, patch), then))
        BY <2>3 DEF Update
      <3>2. Patched(file, patch) \in Plans
        BY <2>3, FileIsPlan, PatchedIsPlan DEF Update
      <3>3. Rewriting("tool", phase, Patched(file, patch), then) \in PlanCalls
        BY <3>2, RewritingIsCall DEF PlanCalls
      <3> QED
        BY <2>3, <3>1, <3>3, BeginType DEF Update, PlanTypeOK
    <2>4. ASSUME NEW c \in Callers, UpdatePhase(c) PROVE PlanTypeOK'
      <3>1. PICK phase \in PhaseIds, status \in PublicStatuses :
                Begin(c, Rewriting("tool", phase, Advanced(file, phase, status), Keep))
        BY <2>4 DEF UpdatePhase
      <3>2. Advanced(file, phase, status) \in Plans
        BY <2>4, FileIsPlan, AdvancedIsPlan, PublicStatusesAreStatuses DEF UpdatePhase
      <3>3. Rewriting("tool", phase, Advanced(file, phase, status), Keep) \in PlanCalls
        BY <3>2, RewritingIsCall DEF PlanCalls
      <3> QED
        BY <2>4, <3>1, <3>3, BeginType DEF UpdatePhase, PlanTypeOK
    <2>5. ASSUME NEW c \in Callers, UpdatePhaseAfterPatch(c) PROVE PlanTypeOK'
      <3>1. call[c].then \in PhaseStatuses
        BY <2>5, CallsByStep, PublicStatusesAreStatuses
        DEF UpdatePhaseAfterPatch, Halfway
      <3>2. call' \in [Callers -> PlanCalls \cup {NoCall}]
        BY <2>5, <3>1, MarkPhaseType DEF UpdatePhaseAfterPatch
      <3> QED
        BY <2>5, <3>2 DEF UpdatePhaseAfterPatch, PlanTypeOK, history
    <2>6. ASSUME NEW c \in Callers, NEW phase \in PhaseIds, DelegateToCoder(c, phase)
          PROVE  PlanTypeOK'
      <3>1. [kind |-> "coder", step |-> "working", phase |-> phase] \in PlanCalls
        BY DEF PlanCalls, Delegations
      <3> QED
        BY <2>6, <3>1, BeginType DEF DelegateToCoder, PlanTypeOK
    <2>7. ASSUME NEW c \in Callers, NEW phase \in PhaseIds, DelegateToReviewer(c, phase)
          PROVE  PlanTypeOK'
      <3>1. [kind |-> "reviewer", step |-> "working", phase |-> phase] \in PlanCalls
        BY DEF PlanCalls, Delegations
      <3>2. worked' \in [PhaseIds -> BOOLEAN]
        BY <2>7 DEF DelegateToReviewer, PlanTypeOK
      <3> QED
        BY <2>7, <3>1, <3>2, BeginType DEF DelegateToReviewer, PlanTypeOK
    <2>8. ASSUME NEW c \in Callers, NEW kind, NEW status \in PhaseStatuses,
                 Decide(c, kind, status)
          PROVE  PlanTypeOK'
      <3>1. call' \in [Callers -> PlanCalls \cup {NoCall}]
        BY <2>8, MarkPhaseType DEF Decide
      <3>2. call[c].phase \in PhaseIds
        BY <2>8, CallsByStep DEF Decide, Delegations
      <3> QED
        BY <2>8, <3>1, <3>2 DEF Decide, PlanTypeOK
    <2>9. ASSUME NEW c \in Callers, CoderFails(c) \/ PlanDie(c) PROVE PlanTypeOK'
      BY <2>9 DEF CoderFails, PlanDie, PlanTypeOK, history, IsAt
    <2>10. ASSUME NEW c \in Callers, OpenFile(c) PROVE PlanTypeOK'
      <3>1. call[c] \in Rewrites
        BY <2>10, CallsByStep DEF OpenFile, Rewriter
      <3>2. [call[c] EXCEPT !.step = "opened"] \in Rewrites
        BY <3>1 DEF Rewrites
      <3> QED
        BY <2>10, <3>2 DEF OpenFile, PlanTypeOK, history, PlanCalls
    <2>11. ASSUME NEW c \in Callers, WriteFile(c) PROVE PlanTypeOK'
      <3>1. call[c] \in Rewrites
        BY <2>11, CallsByStep DEF WriteFile, Rewriter
      <3>2. CASE call[c].then = Keep
        BY <2>11, <3>1, <3>2 DEF WriteFile, PlanTypeOK, history, Rewrites
      <3>3. CASE call[c].then /= Keep
        <4>1. [kind |-> "tool", step |-> "patched", phase |-> call[c].phase,
               then |-> call[c].then] \in Halfway
          BY <3>1, <3>3 DEF Rewrites, Halfway
        <4> QED
          BY <2>11, <3>1, <3>3, <4>1 DEF WriteFile, PlanTypeOK, history, Rewrites, PlanCalls
      <3> QED
        BY <3>2, <3>3
    <2>12. ASSUME NEW c \in Callers,
                  CoderCompletes(c) \/ ReviewersClear(c) \/ ReviewersObject(c)
           PROVE  PlanTypeOK'
      BY <2>12, <2>8 DEF CoderCompletes, ReviewersClear, ReviewersObject, PhaseStatuses
    <2> QED
      BY <2>1, <2>2, <2>3, <2>4, <2>5, <2>6, <2>7, <2>9, <2>10, <2>11, <2>12
      DEF PlanNext, Step
  <1> QED
    BY <1>1, <1>2, PTL DEF PlanSpec

-------------------------------------------------------------------------------
(* What holds in every interleaving: plans that a call is about to write are *)
(* admissible and earned, so what is on file is too, or it was found there.  *)

EarnedIn(plan, gained) ==
    \A phase \in PhaseIds :
        /\ plan.phases[phase] \in {"coder_completed", "review_approved"} =>
               <<phase, "coder_completed">> \in gained
        /\ plan.phases[phase] = "review_approved" => <<phase, "review_approved">> \in gained

SoundCall(x, gained) ==
    x /= NoCall =>
        /\ x.step \in {"read", "opened"} =>
               /\ IsAdmissible(x.next)
               /\ EarnedIn(x.next, gained)
               /\ x.then /= Keep => x.kind = "tool"
        /\ x.step = "working" /\ x.kind = "reviewer" =>
               <<x.phase, "coder_completed">> \in gained

SoundFile(content, gained) ==
    IsPlan(content) =>
        /\ EarnedIn(content, gained)
        /\ content.status = "draft" \/ IsCovered(content) \/ content \in Found

SoundInv ==
    /\ PlanTypeOK
    /\ \A c \in Callers : SoundCall(call[c], earned)
    /\ SoundFile(file, earned)

LEMMA AdmissibleIsCovered ==
    ASSUME NEW plan \in Plans
    PROVE  IsAdmissible(plan) <=> plan.status = "draft" \/ IsCovered(plan)
  BY DEF IsAdmissible, Plans, PlanStatuses

\* An advanced phase is earned if its new status is.
LEMMA AdvancedIsEarned ==
    ASSUME NEW plan \in Plans, NEW phase \in PhaseIds, NEW status \in PhaseStatuses,
           NEW gained, EarnedIn(plan, gained),
           \/ status \in PublicStatuses
           \/ /\ <<phase, status>> \in gained
              /\ <<phase, "coder_completed">> \in gained
           \/ status = "coder_completed" /\ <<phase, "coder_completed">> \in gained
    PROVE  EarnedIn(Advanced(plan, phase, status), gained)
  <1>1. plan.phases \in [PhaseIds -> PhaseStatuses]
    BY DEF Plans
  <1>2. Advanced(plan, phase, status).phases = [plan.phases EXCEPT ![phase] = status]
    BY AdvancedIsPlan
  <1> QED
    BY <1>1, <1>2 DEF EarnedIn, PublicStatuses

\* The call that MarkPhase leaves behind is sound.
LEMMA MarkPhaseSound ==
    ASSUME SoundInv, NEW c \in Callers, NEW status \in PhaseStatuses, NEW gained,
           earned \subseteq gained,
           IsAt(c, "working") \/ IsAt(c, "patched"), MarkPhase(c, status),
           \/ status \in PublicStatuses
           \/ /\ <<call[c].phase, status>> \in gained
              /\ <<call[c].phase, "coder_completed">> \in gained
           \/ status = "coder_completed" /\ <<call[c].phase, "coder_completed">> \in gained
    PROVE  /\ \A d \in Callers : d /= c => call'[d] = call[d]
           /\ SoundCall(call'[c], gained)
  <1>1. \A d \in Callers : d /= c => call'[d] = call[d]
    BY DEF MarkPhase, SoundInv, PlanTypeOK
  <1>2. call[c].phase \in PhaseIds
    BY CallsByStep DEF SoundInv, Delegations, Halfway
  <1>3. CASE IsPlan(file) /\ IsAdmissible(file)
    <2> DEFINE next == Advanced(file, call[c].phase, status)
    <2>1. file \in Plans
      BY <1>3, FileIsPlan DEF SoundInv
    <2>2. next \in Plans /\ IsAdmissible(next)
      BY <2>1, <1>2, <1>3, AdvancedIsPlan
    <2>3. EarnedIn(file, gained)
      BY <1>3 DEF SoundInv, SoundFile, EarnedIn
    <2>4. EarnedIn(next, gained)
      BY <2>1, <2>3, <1>2, AdvancedIsEarned
    <2> HIDE DEF next
    <2>5. IsAdmissible(Written(next)) /\ EarnedIn(Written(next), gained)
      BY <2>2, <2>4, WrittenIsPlan DEF EarnedIn
    <2>6. call'[c] = Rewriting(call[c].kind, call[c].phase, next, Keep)
      BY <1>3 DEF MarkPhase, SoundInv, PlanTypeOK, next
    <2> QED
      BY <1>1, <2>5, <2>6 DEF SoundCall, Rewriting
  <1>4. CASE ~(IsPlan(file) /\ IsAdmissible(file))
    <2>1. call'[c] = NoCall
      BY <1>4 DEF MarkPhase, SoundInv, PlanTypeOK
    <2> QED
      BY <1>1, <2>1 DEF SoundCall
  <1> QED
    BY <1>3, <1>4

\* What a sound call begins with, and what becomes of the others.
LEMMA BeginSound ==
    ASSUME SoundInv, NEW c \in Callers, NEW new, Begin(c, new), SoundCall(new, earned)
    PROVE  /\ \A d \in Callers : SoundCall(call'[d], earned')
           /\ SoundFile(file', earned')
  <1>1. /\ call' = [call EXCEPT ![c] = new]
        /\ earned' = earned /\ file' = file
    BY DEF Begin
  <1> QED
    BY <1>1 DEF SoundInv, PlanTypeOK

LEMMA RewritingSound ==
    ASSUME NEW plan \in Plans, IsAdmissible(plan), EarnedIn(plan, earned),
           NEW phase, NEW then
    PROVE  SoundCall(Rewriting("tool", phase, plan, then), earned)
  <1>1. IsAdmissible(Written(plan)) /\ EarnedIn(Written(plan), earned)
    BY WrittenIsPlan DEF EarnedIn
  <1> QED
    BY <1>1 DEF SoundCall, Rewriting

THEOREM SoundInductive == PlanSpec => []SoundInv
  <1>1. PlanInit => SoundInv
    <2> SUFFICES ASSUME PlanInit, PlanTypeOK PROVE SoundInv
      BY InitType
    <2>1. \A c \in Callers : call[c] = NoCall
      BY DEF PlanInit
    <2>2. SoundFile(file, earned)
      <3> SUFFICES ASSUME IsPlan(file) PROVE EarnedIn(file, earned) /\ file \in Found
        BY DEF SoundFile
      <3>1. file \in Found
        BY DEF PlanInit, IsPlan
      <3>2. earned = UNION {Implied(phase, file.phases[phase]) : phase \in PhaseIds}
        BY DEF PlanInit
      <3>3. \A phase \in PhaseIds : Implied(phase, file.phases[phase]) \subseteq earned
        BY <3>2
      <3> QED
        BY <3>1, <3>3 DEF EarnedIn, Implied
    <2> QED
      BY <2>1, <2>2 DEF SoundInv, SoundCall
  <1>2. SoundInv /\ PlanTypeOK' /\ [PlanNext]_planVars => SoundInv'
    <2> SUFFICES ASSUME SoundInv, PlanTypeOK', [PlanNext]_planVars
                 PROVE  /\ \A d \in Callers : SoundCall(call'[d], earned')
                        /\ SoundFile(file', earned')
      BY DEF SoundInv, SoundCall, SoundFile, EarnedIn, IsPlan, IsAdmissible, IsCovered
    <2> DEFINE Goal == /\ \A d \in Callers : SoundCall(call'[d], earned')
                       /\ SoundFile(file', earned')
    <2>1. CASE UNCHANGED planVars
      BY <2>1 DEF planVars, SoundInv
    <2>2. ASSUME NEW c \in Callers, Record(c) PROVE Goal
      <3>1. PICK input \in Recordings :
                /\ IsAdmissible(Recorded(input))
                /\ Begin(c, Rewriting("tool", "phaseA", Recorded(input), Keep))
        BY <2>2 DEF Record
      <3>2. Recorded(input) \in Plans /\ EarnedIn(Recorded(input), earned)
        BY RecordedIsPlan DEF EarnedIn
      <3> QED
        BY <3>1, <3>2, RewritingSound, BeginSound
    <2>3. ASSUME NEW c \in Callers, Update(c) PROVE Goal
      <3>1. PICK patch \in Patches, phase \in PhaseIds, then \in PublicStatuses \cup {Keep} :
                /\ IsAdmissible(Patched(file, patch))
                /\ Begin(c, Rewriting("tool", phase, Patched(file, patch), then))
        BY <2>3 DEF Update
      <3>2. file \in Plans /\ EarnedIn(file, earned)
        BY <2>3, FileIsPlan DEF Update, SoundInv, SoundFile
      <3>3. Patched(file, patch) \in Plans /\ EarnedIn(Patched(file, patch), earned)
        BY <3>2, PatchedIsPlan DEF EarnedIn
      <3> QED
        BY <3>1, <3>3, RewritingSound, BeginSound
    <2>4. ASSUME NEW c \in Callers, UpdatePhase(c) PROVE Goal
      <3>1. PICK phase \in PhaseIds, status \in PublicStatuses :
                Begin(c, Rewriting("tool", phase, Advanced(file, phase, status), Keep))
        BY <2>4 DEF UpdatePhase
      <3>2. file \in Plans /\ EarnedIn(file, earned) /\ IsAdmissible(file)
        BY <2>4, FileIsPlan DEF UpdatePhase, SoundInv, SoundFile
      <3>3. status \in PhaseStatuses
        BY PublicStatusesAreStatuses
      <3>4. /\ Advanced(file, phase, status) \in Plans
            /\ IsAdmissible(Advanced(file, phase, status))
            /\ EarnedIn(Advanced(file, phase, status), earned)
        BY <3>2, <3>3, AdvancedIsPlan, AdvancedIsEarned
      <3> QED
        BY <3>1, <3>4, RewritingSound, BeginSound
    <2>5. ASSUME NEW c \in Callers, UpdatePhaseAfterPatch(c) PROVE Goal
      <3>1. call[c].then \in PublicStatuses
        BY <2>5, CallsByStep DEF UpdatePhaseAfterPatch, Halfway, SoundInv
      <3>2. /\ \A d \in Callers : d /= c => call'[d] = call[d]
            /\ SoundCall(call'[c], earned)
        BY <2>5, <3>1, PublicStatusesAreStatuses, MarkPhaseSound DEF UpdatePhaseAfterPatch
      <3>3. earned' = earned /\ file' = file
        BY <2>5 DEF UpdatePhaseAfterPatch, history
      <3> QED
        BY <3>2, <3>3 DEF SoundInv
    <2>6. ASSUME NEW c \in Callers, NEW phase \in PhaseIds, DelegateToCoder(c, phase)
          PROVE  Goal
      <3>1. SoundCall([kind |-> "coder", step |-> "working", phase |-> phase], earned)
        BY DEF SoundCall
      <3> QED
        BY <2>6, <3>1, BeginSound DEF DelegateToCoder
    <2>7. ASSUME NEW c \in Callers, NEW phase \in PhaseIds, DelegateToReviewer(c, phase)
          PROVE  Goal
      <3>1. <<phase, "coder_completed">> \in earned
        BY <2>7 DEF DelegateToReviewer, PhaseGate, SoundInv, SoundFile, EarnedIn
      <3>2. SoundCall([kind |-> "reviewer", step |-> "working", phase |-> phase], earned)
        BY <3>1 DEF SoundCall
      <3> QED
        BY <2>7, <3>2, BeginSound DEF DelegateToReviewer
    <2>8. ASSUME NEW c \in Callers, NEW kind \in {"coder", "reviewer"},
                 NEW status \in PhaseStatuses, Decide(c, kind, status),
                 \/ kind = "coder" /\ status = "coder_completed"
                 \/ kind = "reviewer"
          PROVE  Goal
      <3>1. /\ earned' = earned \cup {<<call[c].phase, status>>}
            /\ file' = file
            /\ IsAt(c, "working") /\ call[c].kind = kind /\ MarkPhase(c, status)
        BY <2>8 DEF Decide
      <3>2. kind = "reviewer" => <<call[c].phase, "coder_completed">> \in earned
        BY <3>1 DEF SoundInv, SoundCall, IsAt
      <3>3. /\ \A d \in Callers : d /= c => call'[d] = call[d]
            /\ SoundCall(call'[c], earned')
        <4> DEFINE gained == earned'
        <4>1. earned \subseteq gained /\ <<call[c].phase, status>> \in gained
          BY <3>1
        <4>2. \/ /\ <<call[c].phase, status>> \in gained
                 /\ <<call[c].phase, "coder_completed">> \in gained
              \/ status = "coder_completed" /\ <<call[c].phase, "coder_completed">> \in gained
          BY <2>8, <3>2, <4>1
        <4> HIDE DEF gained
        <4>3. /\ \A d \in Callers : d /= c => call'[d] = call[d]
              /\ SoundCall(call'[c], gained)
          BY <3>1, <4>1, <4>2, MarkPhaseSound
        <4> QED
          BY <4>3 DEF gained
      <3>4. \A d \in Callers : SoundCall(call[d], earned')
        BY <3>1 DEF SoundInv, SoundCall, EarnedIn
      <3>5. SoundFile(file', earned')
        BY <3>1 DEF SoundInv, SoundFile, EarnedIn
      <3> QED
        BY <3>3, <3>4, <3>5
    <2>9. ASSUME NEW c \in Callers, CoderFails(c) \/ PlanDie(c) PROVE Goal
      <3>1. call' = [call EXCEPT ![c] = NoCall] /\ earned' = earned /\ file' = file
        BY <2>9 DEF CoderFails, PlanDie, history
      <3> QED
        BY <3>1 DEF SoundInv, SoundCall, PlanTypeOK
    <2>10. ASSUME NEW c \in Callers, OpenFile(c) PROVE Goal
      <3>1. /\ call[c] \in Rewrites /\ IsAt(c, "read")
            /\ call' = [call EXCEPT ![c].step = "opened"]
            /\ earned' = earned /\ file' = TornPlan
        BY <2>10, CallsByStep DEF OpenFile, Rewriter, history, SoundInv
      <3>2. SoundCall(call[c], earned)
        BY DEF SoundInv
      <3>3. SoundCall(call'[c], earned)
        BY <3>1, <3>2 DEF SoundInv, SoundCall, PlanTypeOK, Rewrites, IsAt
      <3>4. \A d \in Callers : d /= c => call'[d] = call[d]
        BY <3>1 DEF SoundInv, PlanTypeOK
      <3>5. SoundFile(file', earned')
        BY <3>1 DEF SoundFile, IsPlan
      <3> QED
        BY <3>1, <3>3, <3>4, <3>5 DEF SoundInv
    <2>11. ASSUME NEW c \in Callers, WriteFile(c) PROVE Goal
      <3>1. /\ call[c] \in Rewrites /\ IsAt(c, "opened") /\ earned' = earned
            /\ file' = call[c].next \/ file' = TornPlan
        BY <2>11, CallsByStep DEF WriteFile, Rewriter, history, SoundInv
      <3>2. SoundFile(file', earned')
        <4>1. SoundCall(call[c], earned)
          BY DEF SoundInv
        <4>2. call[c].next \in Plans
          BY <3>1 DEF Rewrites
        <4> QED
          BY <3>1, <4>1, <4>2, AdmissibleIsCovered DEF SoundCall, SoundFile, IsPlan, IsAt
      <3>3. \A d \in Callers : d /= c => call'[d] = call[d]
        BY <2>11 DEF WriteFile, SoundInv, PlanTypeOK
      <3>4. SoundCall(call'[c], earned)
        BY <2>11 DEF WriteFile, SoundInv, PlanTypeOK, SoundCall
      <3> QED
        BY <3>1, <3>2, <3>3, <3>4 DEF SoundInv
    <2>12. ASSUME NEW c \in Callers,
                  CoderCompletes(c) \/ ReviewersClear(c) \/ ReviewersObject(c)
           PROVE  Goal
      BY <2>12, <2>8 DEF CoderCompletes, ReviewersClear, ReviewersObject, PhaseStatuses
    <2> QED
      BY <2>1, <2>2, <2>3, <2>4, <2>5, <2>6, <2>7, <2>9, <2>10, <2>11, <2>12
      DEF PlanNext, Step
  <1> QED
    BY <1>1, <1>2, TypeCorrect, PTL DEF PlanSpec

\* A ready plan that is not covered is as it was found on disk.
THEOREM UncoveredFrozen == PlanSpec => []UncoveredPlansAreFrozen
  <1>1. SoundInv => UncoveredPlansAreFrozen
    BY DEF SoundInv, SoundFile, UncoveredPlansAreFrozen
  <1> QED
    BY <1>1, SoundInductive, PTL

\* No interleaving of calls makes up the status of a phase.
THEOREM Earned == PlanSpec => []StatusesAreEarned
  <1>1. SoundInv => StatusesAreEarned
    BY DEF SoundInv, SoundFile, EarnedIn, StatusesAreEarned
  <1> QED
    BY <1>1, SoundInductive, PTL

-------------------------------------------------------------------------------
(* What holds as long as no calls have overlapped: whatever is in flight is  *)
(* one call, or coders of one phase.  So what the gate saw when it admitted  *)
(* a delegation is still true, and every rewrite carries the file one step   *)
(* of the protocol further.                                                  *)

\* The gate's conditions on the phases, for a delegation x.
Allows(status, x) ==
    /\ x.phase = "phaseB" => status["phaseA"] = "review_approved"
    /\ x.kind = "reviewer" => status[x.phase] = "coder_completed"
    /\ x.kind = "coder" => status[x.phase] /= "review_approved"

Restarted == [phase \in PhaseIds |-> "not_started"]

\* One step of the protocol, or none, from one status of the phases to the next.
Follows(before, after) ==
    \/ after = before
    \/ after = Restarted
    \/ \E phase \in PhaseIds :
           \/ /\ phase = "phaseB" => before["phaseA"] = "review_approved"
              /\ before[phase] /= "review_approved"
              /\ after = [before EXCEPT ![phase] = "coder_completed"]
           \/ /\ phase = "phaseB" => before["phaseA"] = "review_approved"
              /\ before[phase] = "coder_completed"
              /\ after = [before EXCEPT ![phase] = "review_approved"]
           \/ \E status \in PublicStatuses : after = [before EXCEPT ![phase] = status]

Together ==
    \A c, d \in Callers :
        c /= d /\ call[c] /= NoCall /\ call[d] /= NoCall => GoTogether(call[c], call[d])

GateStillHolds ==
    \A c \in Callers : IsAt(c, "working") =>
        /\ IsPlan(file) => Allows(file.phases, call[c])
        /\ \A d \in Callers : Rewriter(d) => Allows(call[d].next.phases, call[c])

RewritesFollow ==
    \A d \in Callers : Rewriter(d) =>
        /\ IsPlan(file) => Follows(file.phases, call[d].next.phases)
        /\ file = NoPlan => call[d].next.phases = Restarted
        /\ call[d].kind = "coder" =>
               /\ call[d].next.phases[call[d].phase] = "coder_completed"
               /\ IsPlan(file) => call[d].next.phases =
                      [file.phases EXCEPT ![call[d].phase] = "coder_completed"]

RewritesAgree ==
    \A c, d \in Callers :
        Rewriter(c) /\ Rewriter(d) => call[c].next.phases = call[d].next.phases

ReviewedStaysUntouched ==
    /\ \A phase \in PhaseIds : worked[phase] =>
           /\ IsPlan(file) => file.phases[phase] /= "review_approved"
           /\ \A d \in Callers : Rewriter(d) =>
                  call[d].next.phases[phase] /= "review_approved"
    /\ \A c \in Callers :
           IsAt(c, "working") /\ call[c].kind = "reviewer" => ~worked[call[c].phase]

Orderly ==
    /\ Together
    /\ GateStillHolds
    /\ RewritesFollow
    /\ RewritesAgree
    /\ ReviewedStaysUntouched

OrderlyInv == SoundInv /\ (~overlapped => Orderly)

\* Everything that Orderly says of a step in which only c's call changes, to be
\* shown of the new call of c alone.
OrderlyCall(c) ==
    /\ \A d \in Callers \ {c} :
           call[c] /= NoCall /\ call[d] /= NoCall =>
               GoTogether(call[c], call[d]) /\ GoTogether(call[d], call[c])
    /\ IsAt(c, "working") =>
           /\ IsPlan(file) => Allows(file.phases, call[c])
           /\ \A d \in Callers : Rewriter(d) => Allows(call[d].next.phases, call[c])
           /\ call[c].kind = "reviewer" => ~worked[call[c].phase]
    /\ Rewriter(c) =>
           /\ \A d \in Callers : IsAt(d, "working") => Allows(call[c].next.phases, call[d])
           /\ IsPlan(file) => Follows(file.phases, call[c].next.phases)
           /\ file = NoPlan => call[c].next.phases = Restarted
           /\ call[c].kind = "coder" =>
                  /\ call[c].next.phases[call[c].phase] = "coder_completed"
                  /\ IsPlan(file) => call[c].next.phases =
                         [file.phases EXCEPT ![call[c].phase] = "coder_completed"]
           /\ \A d \in Callers : Rewriter(d) => call[c].next.phases = call[d].next.phases
           /\ \A phase \in PhaseIds : worked[phase] =>
                  call[c].next.phases[phase] /= "review_approved"

\* While the file and the history of work stay as they are.
LEMMA OneCallChanges ==
    ASSUME Orderly, NEW c \in Callers, file' = file, worked' = worked,
           \A d \in Callers \ {c} : call'[d] = call[d],
           OrderlyCall(c)'
    PROVE  Orderly'
  <1>1. \A d \in Callers \ {c} : /\ Rewriter(d)' <=> Rewriter(d)
                                 /\ \A step : IsAt(d, step)' <=> IsAt(d, step)
    BY DEF Rewriter, IsAt
  <1>2. Together'
    BY DEF Orderly, Together, OrderlyCall
  <1>3. GateStillHolds'
    BY <1>1 DEF Orderly, GateStillHolds, OrderlyCall, IsPlan
  <1>4. RewritesFollow'
    BY <1>1 DEF Orderly, RewritesFollow, OrderlyCall, IsPlan
  <1>5. RewritesAgree'
    BY <1>1 DEF Orderly, RewritesAgree, OrderlyCall
  <1>6. ReviewedStaysUntouched'
    BY <1>1 DEF Orderly, ReviewedStaysUntouched, OrderlyCall, IsPlan
  <1> QED
    BY <1>2, <1>3, <1>4, <1>5, <1>6 DEF Orderly

LEMMA Reflexive == \A status : Follows(status, status)
  BY DEF Follows

\* A call that begins without overlapping joins coders of its phase, or nobody.
LEMMA BeginsTogether ==
    ASSUME OrderlyInv, NEW c \in Callers, NEW new \in PlanCalls, Begin(c, new), ~overlapped'
    PROVE  /\ Orderly /\ file' = file
           /\ call'[c] = new
           /\ \A d \in Callers \ {c} :
                  call'[d] = call[d] /\ (call[d] = NoCall \/ GoTogether(call[d], new))
  <1>1. ~overlapped
    BY DEF Begin, OrderlyInv, SoundInv, PlanTypeOK
  <1>2. Orderly
    BY <1>1 DEF OrderlyInv
  <1> QED
    BY <1>2 DEF Begin, OrderlyInv, SoundInv, PlanTypeOK

LEMMA ToolBegins ==
    ASSUME OrderlyInv, NEW c \in Callers, NEW plan \in Plans, NEW phase \in PhaseIds,
           NEW then \in PublicStatuses \cup {Keep},
           Begin(c, Rewriting("tool", phase, plan, then)), worked' = worked, ~overlapped',
           IsPlan(file) => Follows(file.phases, plan.phases),
           file = NoPlan => plan.phases = Restarted,
           \A q \in PhaseIds : worked[q] => plan.phases[q] /= "review_approved"
    PROVE  Orderly'
  <1> DEFINE new == Rewriting("tool", phase, plan, then)
  <1>1. /\ new \in PlanCalls /\ new \in Rewrites /\ new.kind = "tool" /\ new.step = "read"
        /\ new.next.phases = plan.phases
    BY RewritingIsCall, WrittenIsPlan DEF Rewriting, PlanCalls
  <1> HIDE DEF new
  <1>2. Begin(c, new)
    BY DEF new
  <1>3. /\ Orderly /\ file' = file
        /\ call'[c] = new
        /\ \A d \in Callers \ {c} : call'[d] = call[d] /\ call[d] = NoCall
    BY <1>1, <1>2, BeginsTogether DEF GoTogether
  <1>4. \A d \in Callers : /\ ~IsAt(d, "working")'
                           /\ Rewriter(d)' => d = c
    BY <1>1, <1>3 DEF IsAt, Rewriter
  <1>5. OrderlyCall(c)'
    BY <1>1, <1>3, <1>4 DEF OrderlyCall, IsPlan
  <1> QED
    BY <1>3, <1>5, OneCallChanges

LEMMA CoderBegins ==
    ASSUME OrderlyInv, NEW c \in Callers, NEW phase \in PhaseIds,
           DelegateToCoder(c, phase), ~overlapped'
    PROVE  Orderly'
  <1> DEFINE new == [kind |-> "coder", step |-> "working", phase |-> phase]
  <1>1. /\ new \in PlanCalls /\ new \in Delegations
        /\ new.kind = "coder" /\ new.step = "working" /\ new.phase = phase
    BY DEF PlanCalls, Delegations
  <1>2. Begin(c, new) /\ IsPlan(file) /\ PhaseGate(file, phase, "coder")
        /\ worked' = [worked EXCEPT ![phase] = TRUE]
    BY DEF DelegateToCoder
  <1> HIDE DEF new
  <1>3. /\ Orderly /\ file' = file /\ IsPlan(file)
        /\ call'[c] = new
        /\ \A d \in Callers \ {c} :
               /\ call'[d] = call[d]
               /\ call[d] = NoCall \/ (call[d].kind = "coder" /\ call[d].phase = phase)
    BY <1>1, <1>2, BeginsTogether DEF GoTogether
  <1>4. file.phases \in [PhaseIds -> PhaseStatuses] /\ Allows(file.phases, new)
    BY <1>1, <1>2, FileIsPlan DEF PhaseGate, Allows, OrderlyInv, SoundInv, Plans
  <1>5. call[c] = NoCall
    BY <1>2 DEF Begin
  <1>6. \A d \in Callers : /\ Rewriter(d)' <=> Rewriter(d) /\ d /= c
                           /\ IsAt(d, "working")' <=> d = c \/ IsAt(d, "working")
                           /\ Rewriter(d) \/ IsAt(d, "working") => call[d] /= NoCall
    BY <1>1, <1>3, <1>5, AbsentAssumption DEF Rewriter, IsAt
  <1>7. \A d \in Callers : Rewriter(d) =>
            /\ call[d].next.phases = [file.phases EXCEPT ![phase] = "coder_completed"]
            /\ Allows(call[d].next.phases, new)
            /\ call[d].next.phases[phase] = "coder_completed"
    <2> SUFFICES ASSUME NEW d \in Callers, Rewriter(d)
                 PROVE  /\ call[d].next.phases = [file.phases EXCEPT ![phase] = "coder_completed"]
                        /\ Allows(call[d].next.phases, new)
                        /\ call[d].next.phases[phase] = "coder_completed"
      OBVIOUS
    <2>1. call[d].kind = "coder" /\ call[d].phase = phase
      BY <1>3, <1>5, <1>6 DEF Rewriter, IsAt
    <2>2. call[d].next.phases = [file.phases EXCEPT ![phase] = "coder_completed"]
      BY <1>3, <2>1 DEF Orderly, RewritesFollow
    <2> QED
      BY <1>1, <1>4, <2>2 DEF Allows, PhaseIds
  <1>8. Together'
    BY <1>1, <1>3 DEF Orderly, Together, GoTogether
  <1>9. GateStillHolds'
    BY <1>3, <1>4, <1>6, <1>7 DEF Orderly, GateStillHolds, IsPlan
  <1>10. RewritesFollow' /\ RewritesAgree'
    BY <1>3, <1>6 DEF Orderly, RewritesFollow, RewritesAgree, IsPlan
  <1>11. ReviewedStaysUntouched'
    <2>1. \A d \in Callers : IsAt(d, "working")' => call'[d].kind = "coder"
      BY <1>1, <1>3, <1>6
    <2>2. \A q \in PhaseIds : q /= phase => worked'[q] = worked[q]
      BY <1>2 DEF OrderlyInv, SoundInv, PlanTypeOK
    <2>3. file.phases[phase] /= "review_approved"
      BY <1>2 DEF PhaseGate
    <2>4. \A q \in PhaseIds : worked'[q] =>
              /\ file.phases[q] /= "review_approved"
              /\ \A d \in Callers : Rewriter(d) => call[d].next.phases[q] /= "review_approved"
      BY <1>3, <1>7, <2>2, <2>3 DEF Orderly, ReviewedStaysUntouched
    <2> QED
      BY <1>3, <1>6, <2>1, <2>4 DEF ReviewedStaysUntouched, IsPlan
  <1> QED
    BY <1>8, <1>9, <1>10, <1>11 DEF Orderly

LEMMA ReviewersBegin ==
    ASSUME OrderlyInv, NEW c \in Callers, NEW phase \in PhaseIds,
           DelegateToReviewer(c, phase), ~overlapped'
    PROVE  Orderly'
  <1> DEFINE new == [kind |-> "reviewer", step |-> "working", phase |-> phase]
  <1>1. /\ new \in PlanCalls
        /\ new.kind = "reviewer" /\ new.step = "working" /\ new.phase = phase
    BY DEF PlanCalls, Delegations
  <1>2. Begin(c, new) /\ IsPlan(file) /\ PhaseGate(file, phase, "reviewer")
    BY DEF DelegateToReviewer
  <1> HIDE DEF new
  <1>3. /\ Orderly /\ file' = file /\ IsPlan(file)
        /\ call'[c] = new
        /\ \A d \in Callers \ {c} : call'[d] = call[d] /\ call[d] = NoCall
    BY <1>1, <1>2, BeginsTogether DEF GoTogether
  <1>4. Allows(file.phases, new)
    BY <1>1, <1>2 DEF PhaseGate, Allows
  <1>5. call[c] = NoCall
    BY <1>2 DEF Begin
  <1>6. \A d \in Callers : /\ ~Rewriter(d)'
                           /\ IsAt(d, "working")' => d = c
                           /\ ~IsAt(d, "working")
    BY <1>1, <1>3, <1>5 DEF Rewriter, IsAt
  <1>7. worked' = [worked EXCEPT ![phase] = FALSE]
    BY <1>6 DEF DelegateToReviewer, OrderlyInv, SoundInv, PlanTypeOK
  <1>8. Together' /\ RewritesFollow' /\ RewritesAgree'
    BY <1>3, <1>6 DEF Together, RewritesFollow, RewritesAgree
  <1>9. GateStillHolds'
    BY <1>3, <1>4, <1>6 DEF GateStillHolds, IsPlan
  <1>10. ReviewedStaysUntouched'
    BY <1>1, <1>3, <1>6, <1>7 DEF Orderly, ReviewedStaysUntouched, IsPlan, OrderlyInv,
       SoundInv, PlanTypeOK
  <1> QED
    BY <1>8, <1>9, <1>10 DEF Orderly

\* A delegation, or the tool between its rewrites, turns to rewriting the file.
LEMMA MarksPhase ==
    ASSUME OrderlyInv, ~overlapped, NEW c \in Callers, NEW status \in PhaseStatuses,
           IsAt(c, "working") \/ IsAt(c, "patched"), MarkPhase(c, status),
           file' = file, worked' = worked,
           \/ call[c].kind = "coder" /\ status = "coder_completed"
           \/ call[c].kind = "reviewer" /\ status \in {"review_approved", "changes_requested"}
           \/ call[c].kind = "tool" /\ status \in PublicStatuses
    PROVE  Orderly'
  <1> DEFINE x == call[c]
             phase == x.phase
             next == Advanced(file, phase, status)
             new == Rewriting(x.kind, phase, next, Keep)
  <1>1. /\ Orderly /\ PlanTypeOK
        /\ \A d \in Callers \ {c} : call'[d] = call[d]
    BY DEF OrderlyInv, SoundInv, MarkPhase, PlanTypeOK
  <1>2. /\ phase \in PhaseIds /\ x.kind \in {"coder", "reviewer", "tool"} /\ x /= NoCall
        /\ IsAt(c, "working") <=> x.kind /= "tool"
    BY <1>1, CallsByStep DEF Delegations, Halfway, IsAt
  <1>3. \A d \in Callers \ {c} : call[d] /= NoCall =>
            x.kind = "coder" /\ call[d].kind = "coder" /\ call[d].phase = phase
    BY <1>1, <1>2 DEF Orderly, Together, GoTogether
  <1>4. CASE IsPlan(file) /\ IsAdmissible(file)
    <2>1. file \in Plans /\ file.phases \in [PhaseIds -> PhaseStatuses]
      BY <1>1, <1>4, FileIsPlan DEF Plans
    <2>2. next \in Plans /\ next.phases = [file.phases EXCEPT ![phase] = status]
      BY <1>2, <2>1, AdvancedIsPlan
    <2>3. new \in Rewrites
      BY <1>2, <2>2, RewritingIsCall
    <2>4. /\ new \in PlanCalls /\ new.kind = x.kind /\ new.phase = phase
          /\ new.step = "read" /\ new.next.phases = next.phases
      BY <2>2, <2>3, WrittenIsPlan DEF Rewriting, PlanCalls
    <2>5. call'[c] = new
      BY <1>1, <1>4 DEF MarkPhase, PlanTypeOK
    <2>6. IsAt(c, "working") => Allows(file.phases, x)
      BY <1>1, <1>4 DEF Orderly, GateStillHolds
    <2>7. \A q \in PhaseIds : worked[q] => file.phases[q] /= "review_approved"
      BY <1>1, <1>4 DEF Orderly, ReviewedStaysUntouched
    <2>8. x.kind = "reviewer" => ~worked[phase]
      BY <1>1, <1>2 DEF Orderly, ReviewedStaysUntouched
    <2>9. \A d \in Callers \ {c} : Rewriter(d) =>
              call[d].next.phases = [file.phases EXCEPT ![call[d].phase] = "coder_completed"]
      BY <1>1, <1>3, <1>4 DEF Orderly, RewritesFollow, Rewriter, IsAt
    <2>10. \A d \in Callers \ {c} : IsAt(d, "working") => Allows(file.phases, call[d])
      BY <1>1, <1>4 DEF Orderly, GateStillHolds
    <2> HIDE DEF x, phase, next, new
    <2>11. \A d \in Callers : /\ IsAt(d, "working")' => d /= c /\ IsAt(d, "working")
                              /\ Rewriter(d)' => d = c \/ Rewriter(d)
      BY <1>1, <2>4, <2>5 DEF IsAt, Rewriter
    <2>12. \A d \in Callers \ {c} : Rewriter(d) \/ IsAt(d, "working") =>
               x.kind = "coder" /\ call[d].kind = "coder" /\ call[d].phase = phase
      BY <1>3 DEF Rewriter, IsAt
    <2>13. OrderlyCall(c)'
      <3>1. \A d \in Callers \ {c} : call'[c] /= NoCall /\ call'[d] /= NoCall =>
                GoTogether(call'[c], call'[d]) /\ GoTogether(call'[d], call'[c])
        BY <1>1, <1>3, <2>4, <2>5 DEF GoTogether
      <3>2. \A d \in Callers : IsAt(d, "working")' => Allows(new.next.phases, call'[d])
        <4> SUFFICES ASSUME NEW d \in Callers, IsAt(d, "working")'
                     PROVE  Allows(new.next.phases, call'[d])
          OBVIOUS
        <4>1. /\ d /= c /\ call'[d] = call[d] /\ IsAt(d, "working")
              /\ call[d].kind = "coder" /\ call[d].phase = phase /\ x.kind = "coder"
          BY <1>1, <2>11, <2>12
        <4>2. status = "coder_completed"
          BY <4>1 DEF x
        <4> QED
          BY <1>2, <2>1, <2>2, <2>4, <2>10, <4>1, <4>2 DEF Allows
      <3>3. Follows(file.phases, new.next.phases)
        <4>1. CASE x.kind = "tool"
          BY <1>2, <2>2, <2>4, <4>1 DEF Follows, x
        <4>2. CASE x.kind = "coder"
          <5>1. status = "coder_completed" /\ Allows(file.phases, x)
            BY <1>2, <2>6, <4>2 DEF x
          <5> QED
            BY <1>2, <2>2, <2>4, <4>2, <5>1 DEF Follows, Allows, phase
        <4>3. CASE x.kind = "reviewer"
          <5>1. status \in {"review_approved", "changes_requested"} /\ Allows(file.phases, x)
            BY <1>2, <2>6, <4>3 DEF x
          <5> QED
            BY <1>2, <2>2, <2>4, <4>3, <5>1 DEF Follows, Allows, phase, PublicStatuses
        <4> QED
          BY <1>2, <4>1, <4>2, <4>3
      <3>4. new.kind = "coder" =>
                /\ new.next.phases[phase] = "coder_completed"
                /\ new.next.phases = [file.phases EXCEPT ![phase] = "coder_completed"]
        BY <1>2, <2>1, <2>2, <2>4 DEF x
      <3>5. \A d \in Callers : Rewriter(d)' => new.next.phases = call'[d].next.phases
        BY <1>1, <2>4, <2>5, <2>9, <2>11, <2>12, <3>4
      <3>6. \A q \in PhaseIds : worked[q] => new.next.phases[q] /= "review_approved"
        <4>1. status = "review_approved" => x.kind = "reviewer"
          BY DEF PublicStatuses, x
        <4> QED
          BY <1>2, <2>1, <2>2, <2>4, <2>7, <2>8, <4>1
      <3> QED
        BY <1>4, <2>4, <2>5, <2>11, <3>1, <3>2, <3>3, <3>4, <3>5, <3>6, FileIsPlan, <1>1,
           AbsentAssumption
        DEF OrderlyCall, IsPlan
    <2> QED
      BY <1>1, <2>13, OneCallChanges
  <1>5. CASE ~(IsPlan(file) /\ IsAdmissible(file))
    <2>1. call'[c] = NoCall
      BY <1>1, <1>5 DEF MarkPhase, PlanTypeOK
    <2>2. OrderlyCall(c)'
      BY <2>1 DEF OrderlyCall, IsAt, Rewriter
    <2> QED
      BY <1>1, <2>2, OneCallChanges
  <1> QED
    BY <1>4, <1>5

\* A call that ends leaves the others as they are.
LEMMA Ends ==
    ASSUME OrderlyInv, ~overlapped, NEW c \in Callers,
           call' = [call EXCEPT ![c] = NoCall], file' = file, worked' = worked
    PROVE  Orderly'
  <1>1. /\ Orderly /\ call'[c] = NoCall
        /\ \A d \in Callers \ {c} : call'[d] = call[d]
    BY DEF OrderlyInv, SoundInv, PlanTypeOK
  <1>2. OrderlyCall(c)'
    BY <1>1 DEF OrderlyCall, IsAt, Rewriter
  <1> QED
    BY <1>1, <1>2, OneCallChanges

LEMMA Opens ==
    ASSUME OrderlyInv, ~overlapped, NEW c \in Callers, OpenFile(c)
    PROVE  Orderly'
  <1>1. /\ Orderly /\ file' = TornPlan /\ worked' = worked
        /\ call[c] \in Rewrites /\ call[c] /= NoCall /\ Rewriter(c)
        /\ call' = [call EXCEPT ![c].step = "opened"]
    BY CallsByStep DEF OpenFile, OrderlyInv, SoundInv, PlanTypeOK, history, Rewriter, IsAt
  <1>2. /\ call'[c] \in Rewrites /\ call'[c].step = "opened"
        /\ call'[c].kind = call[c].kind /\ call'[c].phase = call[c].phase
        /\ call'[c].next = call[c].next
        /\ \A d \in Callers \ {c} : call'[d] = call[d]
    BY <1>1 DEF OrderlyInv, SoundInv, PlanTypeOK, Rewrites
  <1>3. call'[c] /= NoCall
    BY <1>2, AbsentAssumption DEF PlanCalls
  <1>4. \A d \in Callers : /\ Rewriter(d)' <=> Rewriter(d)
                           /\ IsAt(d, "working")' <=> IsAt(d, "working")
                           /\ call'[d].kind = call[d].kind /\ call'[d].phase = call[d].phase
                           /\ Rewriter(d) => call'[d].next = call[d].next
                           /\ call'[d] = NoCall <=> call[d] = NoCall
    BY <1>1, <1>2, <1>3 DEF IsAt, Rewriter
  <1>5. ~IsPlan(file') /\ file' /= NoPlan
    BY <1>1, AbsentAssumption DEF IsPlan
  <1>6. Together'
    BY <1>1, <1>4 DEF Orderly, Together, GoTogether
  <1>7. GateStillHolds'
    BY <1>1, <1>4, <1>5 DEF Orderly, GateStillHolds, Allows, IsPlan
  <1>8. RewritesFollow'
    <2>1. \A d \in Callers : Rewriter(d) /\ call[d].kind = "coder" =>
              call[d].next.phases[call[d].phase] = "coder_completed"
      BY <1>1 DEF Orderly, RewritesFollow
    <2>2. \A d \in Callers : Rewriter(d)' /\ call'[d].kind = "coder" =>
              call'[d].next.phases[call'[d].phase] = "coder_completed"
      BY <1>4, <2>1
    <2> QED
      BY <1>5, <2>2 DEF RewritesFollow, IsPlan
  <1>9. RewritesAgree'
    BY <1>1, <1>4 DEF Orderly, RewritesAgree
  <1>10. ReviewedStaysUntouched'
    BY <1>1, <1>4, <1>5 DEF Orderly, ReviewedStaysUntouched, IsPlan
  <1> QED
    BY <1>6, <1>7, <1>8, <1>9, <1>10 DEF Orderly

LEMMA Writes ==
    ASSUME OrderlyInv, ~overlapped, NEW c \in Callers, WriteFile(c)
    PROVE  Orderly'
  <1>1. /\ Orderly /\ PlanTypeOK /\ worked' = worked
        /\ call[c] \in Rewrites /\ call[c] /= NoCall /\ Rewriter(c)
        /\ call[c].then /= Keep => call[c].kind = "tool"
    BY CallsByStep DEF WriteFile, OrderlyInv, SoundInv, SoundCall, history, Rewriter, IsAt
  <1>2. /\ \A d \in Callers \ {c} : call'[d] = call[d]
        /\ call'[c] = NoCall \/ (/\ call'[c].step = "patched"
                                 /\ call[c].kind = "tool")
    BY <1>1 DEF WriteFile, PlanTypeOK
  <1>3. \A d \in Callers \ {c} : call[d] /= NoCall =>
            call[c].kind = "coder" /\ call[d].kind = "coder" /\ call[d].phase = call[c].phase
    BY <1>1 DEF Orderly, Together, GoTogether
  <1>4. \A d \in Callers : /\ Rewriter(d)' <=> d /= c /\ Rewriter(d)
                           /\ IsAt(d, "working")' => d /= c /\ IsAt(d, "working")
    BY <1>2 DEF IsAt, Rewriter
  <1>5. Together'
    BY <1>2, <1>3 DEF Together, GoTogether
  <1>6. RewritesAgree'
    BY <1>1, <1>2, <1>4 DEF Orderly, RewritesAgree
  <1>7. call[c].next \in Plans /\ call[c].next.phases \in [PhaseIds -> PhaseStatuses]
    BY <1>1 DEF Rewrites, Plans
  <1>8. CASE file' = call[c].next
    <2>1. GateStillHolds'
      BY <1>1, <1>2, <1>4, <1>8 DEF Orderly, GateStillHolds
    <2>2. RewritesFollow'
      <3> SUFFICES ASSUME NEW d \in Callers, Rewriter(d)'
                   PROVE  /\ Follows(file'.phases, call'[d].next.phases)
                          /\ file' /= NoPlan
                          /\ call'[d].kind = "coder" =>
                                 /\ call'[d].next.phases[call'[d].phase] = "coder_completed"
                                 /\ call'[d].next.phases =
                                        [file'.phases EXCEPT ![call'[d].phase] = "coder_completed"]
        BY DEF RewritesFollow
      <3>1. d /= c /\ Rewriter(d) /\ call'[d] = call[d]
        BY <1>2, <1>4
      <3>2. call[d].next.phases = call[c].next.phases
        BY <1>1, <3>1 DEF Orderly, RewritesAgree
      <3>3. call[d].kind = "coder" /\ call[d].phase = call[c].phase
        BY <1>3, <3>1 DEF Rewriter, IsAt
      <3>4. call[d].next.phases[call[d].phase] = "coder_completed"
        BY <1>1, <3>1, <3>3 DEF Orderly, RewritesFollow
      <3>5. file' /= NoPlan
        BY <1>7, <1>8, AbsentAssumption
      <3> QED
        BY <1>7, <1>8, <3>1, <3>2, <3>4, <3>5, Reflexive
    <2>3. ReviewedStaysUntouched'
      BY <1>1, <1>2, <1>4, <1>8 DEF Orderly, ReviewedStaysUntouched
    <2> QED
      BY <1>5, <1>6, <2>1, <2>2, <2>3 DEF Orderly
  <1>9. CASE file' = TornPlan
    <2>1. ~IsPlan(file') /\ file' /= NoPlan
      BY <1>9, AbsentAssumption DEF IsPlan
    <2>2. GateStillHolds'
      BY <1>1, <1>2, <1>4, <2>1 DEF Orderly, GateStillHolds, IsPlan
    <2>3. RewritesFollow'
      BY <1>1, <1>2, <1>4, <2>1 DEF Orderly, RewritesFollow, IsPlan
    <2>4. ReviewedStaysUntouched'
      BY <1>1, <1>2, <1>4, <2>1 DEF Orderly, ReviewedStaysUntouched, IsPlan
    <2> QED
      BY <1>5, <1>6, <2>2, <2>3, <2>4 DEF Orderly
  <1> QED
    BY <1>8, <1>9 DEF WriteFile

-------------------------------------------------------------------------------
(* The steps of the protocol. *)

ProtocolStep == Protocol!Next \/ Committed' = Committed

\* What Committed is, by the state of the file.
LEMMA CommittedIs ==
    PlanTypeOK =>
        /\ IsPlan(file) => Committed = file.phases
        /\ file = NoPlan => Committed = NoPlan
        /\ file = TornPlan => \/ /\ Committed = NoPlan
                                 /\ \A d \in Callers : ~Rewriter(d)
                              \/ \E d \in Callers :
                                     Rewriter(d) /\ Committed = call[d].next.phases
  BY AbsentAssumption DEF Committed, IsPlan, PlanTypeOK

LEMMA CommittedWillBe ==
    (PlanTypeOK =>
        /\ IsPlan(file) => Committed = file.phases
        /\ file = NoPlan => Committed = NoPlan
        /\ file = TornPlan => \/ /\ Committed = NoPlan
                                 /\ \A d \in Callers : ~Rewriter(d)
                              \/ \E d \in Callers :
                                     Rewriter(d) /\ Committed = call[d].next.phases)'
  BY CommittedIs, PTL

LEMMA FollowsIsStep ==
    ASSUME NEW before \in [PhaseIds -> PhaseStatuses], Committed = before,
           Follows(before, Committed')
    PROVE  ProtocolStep
  <1>1. Committed /= NoPlan
    BY AbsentAssumption
  <1> QED
    BY <1>1 DEF ProtocolStep, Follows, Restarted, PublicStatuses, PhaseIds,
        Protocol!Next, Protocol!Fresh, Protocol!Complete, Protocol!Review, Protocol!Reopen,
        Protocol!InTurn, Protocol!Becomes, Protocol!PhaseIds

LEMMA RestartIsStep ==
    ASSUME Committed' = Restarted
    PROVE  ProtocolStep
  BY DEF ProtocolStep, Restarted, PhaseIds, Protocol!Next, Protocol!Fresh, Protocol!PhaseIds

LEMMA LossIsStep ==
    ASSUME Committed' = NoPlan
    PROVE  ProtocolStep
  BY DEF ProtocolStep, Protocol!Next, Protocol!Lose

LEMMA FileKinds ==
    ASSUME PlanTypeOK
    PROVE  IsPlan(file) \/ file = NoPlan \/ file = TornPlan
  BY DEF IsPlan

\* While the file stays as it is and the calls that rewrite it at most end.
LEMMA FileStays ==
    ASSUME OrderlyInv, OrderlyInv', ~overlapped, file' = file,
           file = TornPlan => \A d \in Callers : Rewriter(d)' => Rewriter(d) /\ call'[d] = call[d]
    PROVE  ProtocolStep
  <1>1. PlanTypeOK /\ PlanTypeOK' /\ RewritesAgree
    BY DEF OrderlyInv, SoundInv, Orderly
  <1>2. CASE IsPlan(file)
    <2>1. Committed = file.phases /\ Committed' = file'.phases
      BY <1>1, <1>2, CommittedIs, CommittedWillBe DEF IsPlan
    <2> QED
      BY <2>1 DEF ProtocolStep
  <1>3. CASE file = NoPlan
    <2>1. Committed = NoPlan /\ Committed' = NoPlan
      BY <1>1, <1>3, CommittedIs, CommittedWillBe
    <2> QED
      BY <2>1 DEF ProtocolStep
  <1>4. CASE file = TornPlan
    <2>1. CASE Committed' = NoPlan
      BY <2>1, LossIsStep
    <2>2. ASSUME NEW d \in Callers, Rewriter(d)', Committed' = call'[d].next.phases
          PROVE  ProtocolStep
      <3>1. Rewriter(d) /\ call'[d] = call[d]
        BY <1>4, <2>2
      <3>2. \E e \in Callers : Rewriter(e) /\ Committed = call[e].next.phases
        BY <1>1, <1>4, <3>1, CommittedIs
      <3>3. Committed = call[d].next.phases
        BY <1>1, <3>1, <3>2 DEF RewritesAgree
      <3> QED
        BY <2>2, <3>1, <3>3 DEF ProtocolStep
    <2> QED
      BY <1>1, <1>4, <2>1, <2>2, CommittedWillBe
  <1> QED
    BY <1>1, <1>2, <1>3, <1>4, FileKinds

\* A plan is recorded: on a torn file this is where it starts afresh.
LEMMA RecordSteps ==
    ASSUME OrderlyInv, OrderlyInv', NEW c \in Callers, Record(c), ~overlapped'
    PROVE  ProtocolStep
  <1>1. PICK input \in Recordings :
            Begin(c, Rewriting("tool", "phaseA", Recorded(input), Keep))
    BY DEF Record
  <1> DEFINE new == Rewriting("tool", "phaseA", Recorded(input), Keep)
  <1>2. /\ new \in PlanCalls /\ new.kind = "tool" /\ new.next.phases = Restarted
    BY RecordedIsPlan, RewritingIsCall, WrittenIsPlan
    DEF Rewriting, PlanCalls, PhaseIds, Restarted
  <1> HIDE DEF new
  <1>3. Begin(c, new)
    BY <1>1 DEF new
  <1>4. /\ file' = file /\ call'[c] = new
        /\ \A d \in Callers \ {c} : call'[d] = call[d] /\ call[d] = NoCall
    BY <1>2, <1>3, BeginsTogether DEF GoTogether
  <1>5. ~overlapped /\ PlanTypeOK /\ PlanTypeOK'
    BY <1>3 DEF Begin, OrderlyInv, SoundInv, PlanTypeOK
  <1>6. \A d \in Callers : Rewriter(d)' => d = c
    BY <1>4 DEF Rewriter, IsAt
  <1>7. CASE file = TornPlan
    <2>1. CASE Committed' = NoPlan
      BY <2>1, LossIsStep
    <2>2. CASE \E d \in Callers : Rewriter(d)' /\ Committed' = call'[d].next.phases
      <3>1. Committed' = Restarted
        BY <1>2, <1>4, <1>6, <2>2
      <3> QED
        BY <3>1, RestartIsStep
    <2> QED
      BY <1>4, <1>5, <1>7, <2>1, <2>2, CommittedWillBe
  <1>8. CASE file /= TornPlan
    BY <1>4, <1>5, <1>8, FileStays
  <1> QED
    BY <1>7, <1>8

\* Truncating the file is where a rewrite takes effect.
LEMMA OpenSteps ==
    ASSUME OrderlyInv, OrderlyInv', NEW c \in Callers, OpenFile(c), ~overlapped'
    PROVE  ProtocolStep
  <1>1. /\ ~overlapped /\ PlanTypeOK /\ PlanTypeOK' /\ file' = TornPlan
        /\ call[c] \in Rewrites /\ call[c] /= NoCall /\ Rewriter(c)
        /\ call' = [call EXCEPT ![c].step = "opened"]
    BY CallsByStep DEF OpenFile, OrderlyInv, SoundInv, PlanTypeOK, history, Rewriter, IsAt
  <1>2. Orderly /\ Orderly'
    BY <1>1 DEF OrderlyInv
  <1>3. /\ call'[c] \in Rewrites /\ call'[c].step = "opened" /\ call'[c].next = call[c].next
        /\ call'[c] \in PlanCalls
    BY <1>1 DEF PlanTypeOK, Rewrites, PlanCalls
  <1>4. Rewriter(c)'
    BY <1>3, AbsentAssumption DEF Rewriter, IsAt
  <1>5. Committed' = call[c].next.phases
    <2>1. \E d \in Callers : Rewriter(d)' /\ Committed' = call'[d].next.phases
      BY <1>1, <1>4, CommittedWillBe
    <2> QED
      BY <1>2, <1>3, <1>4, <2>1 DEF Orderly, RewritesAgree
  <1>6. CASE IsPlan(file)
    <2>1. Committed = file.phases /\ file.phases \in [PhaseIds -> PhaseStatuses]
      BY <1>1, <1>6, CommittedIs, FileIsPlan DEF Plans
    <2>2. Follows(file.phases, Committed')
      BY <1>1, <1>2, <1>5, <1>6 DEF Orderly, RewritesFollow
    <2> QED
      BY <2>1, <2>2, FollowsIsStep
  <1>7. CASE file = NoPlan
    <2>1. Committed' = Restarted
      BY <1>1, <1>2, <1>5, <1>7 DEF Orderly, RewritesFollow
    <2> QED
      BY <2>1, RestartIsStep
  <1>8. CASE file = TornPlan
    <2>1. \E d \in Callers : Rewriter(d) /\ Committed = call[d].next.phases
      BY <1>1, <1>8, CommittedIs
    <2>2. Committed = call[c].next.phases
      BY <1>1, <1>2, <2>1 DEF Orderly, RewritesAgree
    <2> QED
      BY <1>5, <2>2 DEF ProtocolStep
  <1> QED
    BY <1>1, <1>6, <1>7, <1>8, FileKinds

LEMMA WriteSteps ==
    ASSUME OrderlyInv, OrderlyInv', NEW c \in Callers, WriteFile(c), ~overlapped'
    PROVE  ProtocolStep
  <1>1. /\ ~overlapped /\ PlanTypeOK /\ PlanTypeOK'
        /\ call[c] \in Rewrites /\ Rewriter(c)
        /\ \A d \in Callers \ {c} : call'[d] = call[d]
        /\ \/ file' = call[c].next
           \/ file /= TornPlan /\ file' = TornPlan
    BY CallsByStep DEF WriteFile, OrderlyInv, SoundInv, PlanTypeOK, history, Rewriter, IsAt
  <1>2. Orderly
    BY <1>1 DEF OrderlyInv
  <1>3. ~Rewriter(c)'
    BY <1>1 DEF WriteFile, PlanTypeOK, Rewriter, IsAt
  <1>4. call[c].next \in Plans
    BY <1>1 DEF Rewrites
  \* What a call may write follows what is committed.
  <1>5. ASSUME NEW d \in Callers, Rewriter(d), Committed' = call[d].next.phases
        PROVE  ProtocolStep
    <2>1. CASE IsPlan(file)
      <3>1. Committed = file.phases /\ file.phases \in [PhaseIds -> PhaseStatuses]
        BY <1>1, <2>1, CommittedIs, FileIsPlan DEF Plans
      <3>2. Follows(file.phases, Committed')
        BY <1>2, <1>5, <2>1 DEF Orderly, RewritesFollow
      <3> QED
        BY <3>1, <3>2, FollowsIsStep
    <2>2. CASE file = NoPlan
      <3>1. Committed' = Restarted
        BY <1>2, <1>5, <2>2 DEF Orderly, RewritesFollow
      <3> QED
        BY <3>1, RestartIsStep
    <2>3. CASE file = TornPlan
      <3>1. \E e \in Callers : Rewriter(e) /\ Committed = call[e].next.phases
        BY <1>1, <1>5, <2>3, CommittedIs
      <3>2. Committed = call[d].next.phases
        BY <1>2, <1>5, <3>1 DEF Orderly, RewritesAgree
      <3> QED
        BY <1>5, <3>2 DEF ProtocolStep
    <2> QED
      BY <1>1, <2>1, <2>2, <2>3, FileKinds
  <1>6. CASE file' = call[c].next
    <2>1. IsPlan(file')
      BY <1>4, <1>6, AbsentAssumption DEF IsPlan
    <2>2. Committed' = call[c].next.phases
      BY <1>1, <1>6, <2>1, CommittedWillBe DEF IsPlan
    <2> QED
      BY <1>1, <1>5, <2>2
  <1>7. CASE file' = TornPlan
    <2>1. CASE Committed' = NoPlan
      BY <2>1, LossIsStep
    <2>2. ASSUME NEW d \in Callers, Rewriter(d)', Committed' = call'[d].next.phases
          PROVE  ProtocolStep
      <3>1. d /= c /\ call'[d] = call[d] /\ Rewriter(d)
        BY <1>1, <1>3, <2>2 DEF Rewriter, IsAt
      <3> QED
        BY <1>5, <2>2, <3>1
    <2> QED
      BY <1>1, <1>7, <2>1, <2>2, CommittedWillBe
  <1> QED
    BY <1>1, <1>6, <1>7

-------------------------------------------------------------------------------
(* The theorems. *)

\* What is in flight without overlapping finds the plan as its gate saw it.
THEOREM OrderlyInductive == PlanSpec => []OrderlyInv
  <1>1. PlanInit => Orderly
    <2> SUFFICES ASSUME PlanInit PROVE Orderly
      OBVIOUS
    <2>1. /\ \A c \in Callers : call[c] = NoCall
          /\ \A phase \in PhaseIds : ~worked[phase]
      BY DEF PlanInit
    <2>2. \A c \in Callers : ~Rewriter(c) /\ ~IsAt(c, "working")
      BY <2>1 DEF Rewriter, IsAt
    <2> QED
      BY <2>1, <2>2 DEF Orderly, Together, GateStillHolds, RewritesFollow,
                        RewritesAgree, ReviewedStaysUntouched
  <1>2. OrderlyInv /\ SoundInv' /\ [PlanNext]_planVars => (~overlapped' => Orderly')
    <2> SUFFICES ASSUME OrderlyInv, [PlanNext]_planVars, ~overlapped' PROVE Orderly'
      OBVIOUS
    <2>1. CASE UNCHANGED planVars
      <3>1. Orderly
        BY <2>1 DEF OrderlyInv, planVars
      <3> QED
        BY <3>1, <2>1 DEF planVars, Orderly, Together, GateStillHolds, RewritesFollow,
                          RewritesAgree, ReviewedStaysUntouched, IsPlan, IsAt, Rewriter
    <2>2. ASSUME NEW c \in Callers, Record(c) PROVE Orderly'
      <3>1. PICK input \in Recordings :
                Begin(c, Rewriting("tool", "phaseA", Recorded(input), Keep))
        BY <2>2 DEF Record
      <3>2. Recorded(input) \in Plans /\ Recorded(input).phases = Restarted
        BY RecordedIsPlan DEF Restarted
      <3>3. /\ IsPlan(file) => Follows(file.phases, Recorded(input).phases)
            /\ \A q \in PhaseIds : Recorded(input).phases[q] /= "review_approved"
        BY <3>2 DEF Follows, Restarted
      <3> QED
        BY <2>2, <3>1, <3>2, <3>3, ToolBegins DEF Record, PhaseIds
    <2>3. ASSUME NEW c \in Callers, Update(c) PROVE Orderly'
      <3>1. PICK patch \in Patches, phase \in PhaseIds, then \in PublicStatuses \cup {Keep} :
                Begin(c, Rewriting("tool", phase, Patched(file, patch), then))
        BY <2>3 DEF Update
      <3>2. IsPlan(file) /\ file \in Plans /\ ~overlapped
        BY <2>3, <3>1, FileIsPlan DEF Update, Begin, OrderlyInv, SoundInv, PlanTypeOK
      <3>3. Patched(file, patch) \in Plans /\ Patched(file, patch).phases = file.phases
        BY <3>2, PatchedIsPlan
      <3>4. \A q \in PhaseIds : worked[q] => file.phases[q] /= "review_approved"
        BY <3>2 DEF OrderlyInv, Orderly, ReviewedStaysUntouched
      <3>5. file /= NoPlan
        BY <3>2 DEF IsPlan
      <3> QED
        BY <2>3, <3>1, <3>3, <3>4, <3>5, Reflexive, ToolBegins DEF Update
    <2>4. ASSUME NEW c \in Callers, UpdatePhase(c) PROVE Orderly'
      <3>1. PICK phase \in PhaseIds, status \in PublicStatuses :
                Begin(c, Rewriting("tool", phase, Advanced(file, phase, status), Keep))
        BY <2>4 DEF UpdatePhase
      <3>2. /\ IsPlan(file) /\ file \in Plans /\ ~overlapped
            /\ file.phases \in [PhaseIds -> PhaseStatuses]
        BY <2>4, <3>1, FileIsPlan DEF UpdatePhase, Begin, OrderlyInv, SoundInv, PlanTypeOK, Plans
      <3>3. /\ Advanced(file, phase, status) \in Plans
            /\ Advanced(file, phase, status).phases = [file.phases EXCEPT ![phase] = status]
        BY <3>2, AdvancedIsPlan, PublicStatusesAreStatuses
      <3>4. \A q \in PhaseIds : worked[q] => file.phases[q] /= "review_approved"
        BY <3>2 DEF OrderlyInv, Orderly, ReviewedStaysUntouched
      <3>5. \A q \in PhaseIds : worked[q] =>
                Advanced(file, phase, status).phases[q] /= "review_approved"
        BY <3>2, <3>3, <3>4 DEF PublicStatuses
      <3>6. Follows(file.phases, Advanced(file, phase, status).phases)
        BY <3>3 DEF Follows
      <3>7. file /= NoPlan
        BY <3>2 DEF IsPlan
      <3> QED
        BY <2>4, <3>1, <3>3, <3>5, <3>6, <3>7, ToolBegins DEF UpdatePhase
    <2>5. ASSUME NEW c \in Callers, UpdatePhaseAfterPatch(c) PROVE Orderly'
      <3>1. call[c].then \in PublicStatuses /\ call[c].kind = "tool"
        BY <2>5, CallsByStep DEF UpdatePhaseAfterPatch, Halfway, OrderlyInv, SoundInv
      <3>2. /\ IsAt(c, "patched") /\ MarkPhase(c, call[c].then) /\ ~overlapped
            /\ file' = file /\ worked' = worked
        BY <2>5 DEF UpdatePhaseAfterPatch, history
      <3> QED
        BY <3>1, <3>2, PublicStatusesAreStatuses, MarksPhase
    <2>6. ASSUME NEW c \in Callers, NEW phase \in PhaseIds,
                 DelegateToCoder(c, phase) \/ DelegateToReviewer(c, phase)
          PROVE  Orderly'
      BY <2>6, CoderBegins, ReviewersBegin
    <2>7. ASSUME NEW c \in Callers,
                 CoderCompletes(c) \/ ReviewersClear(c) \/ ReviewersObject(c)
          PROVE  Orderly'
      <3>1. PICK kind \in {"coder", "reviewer"}, status \in PhaseStatuses :
                /\ Decide(c, kind, status)
                /\ \/ kind = "coder" /\ status = "coder_completed"
                   \/ kind = "reviewer" /\ status \in {"review_approved", "changes_requested"}
        BY <2>7 DEF CoderCompletes, ReviewersClear, ReviewersObject, PhaseStatuses
      <3>2. /\ IsAt(c, "working") /\ call[c].kind = kind /\ MarkPhase(c, status)
            /\ ~overlapped /\ file' = file /\ worked' = worked
        BY <3>1 DEF Decide
      <3> QED
        BY <3>1, <3>2, MarksPhase
    <2>8. ASSUME NEW c \in Callers, CoderFails(c) \/ PlanDie(c) PROVE Orderly'
      BY <2>8, Ends DEF CoderFails, PlanDie, history, OrderlyInv, SoundInv, PlanTypeOK
    <2>9. ASSUME NEW c \in Callers, OpenFile(c) \/ WriteFile(c) PROVE Orderly'
      BY <2>9, Opens, Writes DEF OpenFile, WriteFile, history
    <2> QED
      BY <2>1, <2>2, <2>3, <2>4, <2>5, <2>6, <2>7, <2>8, <2>9 DEF PlanNext, Step
  <1>3. PlanInit /\ SoundInv => OrderlyInv
    BY <1>1 DEF OrderlyInv
  <1>4. OrderlyInv /\ SoundInv' /\ [PlanNext]_planVars => OrderlyInv'
    BY <1>2 DEF OrderlyInv
  <1> QED
    BY <1>3, <1>4, SoundInductive, PTL DEF PlanSpec

\* As long as no calls have overlapped, an approved phase is as its reviewers saw it.
THEOREM ApprovalRests == PlanSpec => []ApprovalRestsOnReview
  <1>1. OrderlyInv => ApprovalRestsOnReview
    BY DEF OrderlyInv, Orderly, ReviewedStaysUntouched, ApprovalRestsOnReview
  <1> QED
    BY <1>1, OrderlyInductive, PTL

\* As long as no calls have overlapped, the plan does what PhaseProtocol allows.
THEOREM ImplementsProtocol == PlanSpec => FollowsProtocol
  <1>1. OrderlyInv /\ OrderlyInv' /\ [PlanNext]_planVars =>
            [~overlapped' => Protocol!Next \/ Committed' = Committed]_planVars
    <2> SUFFICES ASSUME OrderlyInv, OrderlyInv', PlanNext, ~overlapped' PROVE ProtocolStep
      BY DEF ProtocolStep
    <2>1. PICK c \in Callers : Step(c)
      BY DEF PlanNext
    <2>2. ASSUME Record(c) PROVE ProtocolStep
      BY <2>2, RecordSteps
    <2>3. ASSUME NEW new, Begin(c, new), IsPlan(file) PROVE ProtocolStep
      BY <2>3, FileStays DEF Begin, OrderlyInv, SoundInv, PlanTypeOK, IsPlan
    <2>4. ASSUME NEW status, MarkPhase(c, status), file' = file, ~overlapped
          PROVE  ProtocolStep
      <3>1. file = TornPlan => call' = [call EXCEPT ![c] = NoCall]
        BY <2>4 DEF MarkPhase, IsPlan
      <3>2. file = TornPlan =>
                \A d \in Callers : Rewriter(d)' => Rewriter(d) /\ call'[d] = call[d]
        BY <3>1 DEF Rewriter, IsAt, OrderlyInv, SoundInv, PlanTypeOK
      <3> QED
        BY <2>4, <3>2, FileStays
    <2>5. ASSUME CoderFails(c) \/ PlanDie(c) PROVE ProtocolStep
      <3>1. /\ call' = [call EXCEPT ![c] = NoCall] /\ file' = file /\ ~overlapped
        BY <2>5 DEF CoderFails, PlanDie, history, OrderlyInv, SoundInv, PlanTypeOK
      <3>2. \A d \in Callers : Rewriter(d)' => Rewriter(d) /\ call'[d] = call[d]
        BY <3>1 DEF Rewriter, IsAt, OrderlyInv, SoundInv, PlanTypeOK
      <3> QED
        BY <3>1, <3>2, FileStays
    <2>6. ASSUME OpenFile(c) \/ WriteFile(c) PROVE ProtocolStep
      BY <2>6, OpenSteps, WriteSteps
    <2>7. ASSUME Update(c) \/ UpdatePhase(c) PROVE ProtocolStep
      BY <2>7, <2>3 DEF Update, UpdatePhase
    <2>8. ASSUME NEW phase \in PhaseIds,
                 DelegateToCoder(c, phase) \/ DelegateToReviewer(c, phase)
          PROVE  ProtocolStep
      BY <2>8, <2>3 DEF DelegateToCoder, DelegateToReviewer
    <2>9. ASSUME \/ UpdatePhaseAfterPatch(c) \/ CoderCompletes(c)
                 \/ ReviewersClear(c) \/ ReviewersObject(c)
          PROVE  ProtocolStep
      BY <2>9, <2>4 DEF UpdatePhaseAfterPatch, CoderCompletes, ReviewersClear,
                        ReviewersObject, Decide, history
    <2> QED
      BY <2>1, <2>2, <2>5, <2>6, <2>7, <2>8, <2>9 DEF Step
  <1> QED
    BY <1>1, OrderlyInductive, PTL DEF PlanSpec, FollowsProtocol

===============================================================================
