------------------------ MODULE DeleteBudgetProofs ------------------------
(***************************************************************************)
(* The delete budget bounds the removals of a run for every limit, every    *)
(* number of deployments, files and directories and every interleaving.     *)
(***************************************************************************)
EXTENDS DeleteBudget, FiniteSetTheorems, TLAPS

Executing == {"preDelete", "collide", "sweep", "prune"}

\* Reserved and not yet settled.
Open == {e \in Batch : phase \in Executing /\ state[e] \in {"idle", "busy"}}

\* Charged by take and not yet settled.
Held == {e \in Dirs : state[e] = "busy" /\ TakesCharge(e)}

\* What was removed, or may still be on a charge already made.
Accounted == removed \cup Open \cup Held

\* Charged directories whose removal happened without an answer: a refund of one
\* gives back a charge that was used.
Unanswered == Held \cap removed

\* Every removal, done or to come, is charged, but for the refunds of lost answers.
Charged == Cardinality(Accounted) + Cardinality(Unanswered) <= spent + lost

WithinLimit == Limit > 0 => spent <= Limit

\* A removed entry is off the server, and its worker has started.
RemovedOnce ==
    /\ removed \cap there = {}
    /\ \A e \in removed : state[e] # "idle"

\* Only a directory of the batch in progress has a request in flight.
BusyInPhase ==
    \A e \in Entries : state[e] = "busy" =>
        e \in Dirs /\ In[e] = cur /\ phase = IF e \in Turned THEN "collide" ELSE "prune"

Inv == TypeOK /\ Charged /\ WithinLimit /\ RemovedOnce /\ BusyInPhase

-----------------------------------------------------------------------------
(* Counting. *)

\* Everything counted here is a finite set.
LEMMA FiniteParts ==
    ASSUME BudgetAssumption, TypeOK
    PROVE  /\ IsFiniteSet(Entries) /\ IsFiniteSet(Accounted) /\ IsFiniteSet(Unanswered)
           /\ IsFiniteSet(Batch)
           /\ Cardinality(Accounted) \in Nat /\ Cardinality(Unanswered) \in Nat
           /\ Cardinality(Batch) \in Nat
<1>1. IsFiniteSet(Entries)
  BY FS_Union DEF Entries, BudgetAssumption
<1>2. Accounted \subseteq Entries /\ Unanswered \subseteq Entries /\ Batch \subseteq Entries
  BY DEF TypeOK, Accounted, Unanswered, Open, Held, Batch, OfCur, Entries
<1>3. IsFiniteSet(Accounted) /\ IsFiniteSet(Unanswered) /\ IsFiniteSet(Batch)
  BY <1>1, <1>2, FS_Subset
<1> QED BY <1>1, <1>3, FS_CardinalityType

\* A subset is no larger.
LEMMA Shrunk ==
    ASSUME NEW A, NEW B, IsFiniteSet(A), B \subseteq A
    PROVE  IsFiniteSet(B) /\ Cardinality(B) <= Cardinality(A) /\ Cardinality(B) \in Nat
BY FS_Subset, FS_CardinalityType

\* One element more makes the set at most one larger.
LEMMA GrownByOne ==
    ASSUME NEW A, NEW B, NEW e, IsFiniteSet(A), B \subseteq A \cup {e}
    PROVE  IsFiniteSet(B) /\ Cardinality(B) <= Cardinality(A) + 1 /\ Cardinality(B) \in Nat
<1>1. /\ IsFiniteSet(A \cup {e})
      /\ Cardinality(A \cup {e}) = IF e \in A THEN Cardinality(A) ELSE Cardinality(A) + 1
  BY FS_AddElement
<1>2. IsFiniteSet(B) /\ Cardinality(B) <= Cardinality(A \cup {e}) /\ Cardinality(B) \in Nat
  BY <1>1, Shrunk
<1>3. Cardinality(A) \in Nat
  BY FS_CardinalityType
<1> QED BY <1>1, <1>2, <1>3

\* One element less makes it smaller.
LEMMA ShrunkByOne ==
    ASSUME NEW A, NEW B, NEW e \in A, IsFiniteSet(A), B \subseteq A \ {e}
    PROVE  IsFiniteSet(B) /\ Cardinality(B) <= Cardinality(A) - 1 /\ Cardinality(B) \in Nat
<1>1. IsFiniteSet(A \ {e}) /\ Cardinality(A \ {e}) = Cardinality(A) - 1
  BY FS_RemoveElement
<1>2. IsFiniteSet(B) /\ Cardinality(B) <= Cardinality(A \ {e}) /\ Cardinality(B) \in Nat
  BY <1>1, Shrunk
<1> QED BY <1>1, <1>2

\* A batch holds entries of the current deployment, of one kind.
LEMMA WorkFacts ==
    ASSUME BudgetAssumption
    PROVE
    /\ phase \in {"preDelete", "sweep"} => Work(phase) \subseteq OfCur(Files)
    /\ phase \in {"collide", "prune"} => Work(phase) \subseteq OfCur(Dirs)
    /\ \A e \in OfCur(Turned) : e \in Work("collide") /\ e \notin Work("prune")
    /\ \A e \in OfCur(Dirs \ Turned) : e \in Work("prune") /\ e \notin Work("collide")
<1>1. CASE phase = "preDelete"
  BY <1>1 DEF Work, OfCur, BudgetAssumption
<1>2. CASE phase = "collide"
  BY <1>2 DEF Work, OfCur, BudgetAssumption
<1>3. CASE phase = "sweep"
  BY <1>3 DEF Work, OfCur
<1>4. CASE phase = "prune"
  BY <1>4 DEF Work, OfCur
<1>5. /\ \A e \in OfCur(Turned) : e \in Work("collide") /\ e \notin Work("prune")
      /\ \A e \in OfCur(Dirs \ Turned) : e \in Work("prune") /\ e \notin Work("collide")
  BY DEF Work, OfCur
<1> QED BY <1>1, <1>2, <1>3, <1>4, <1>5

-----------------------------------------------------------------------------
\* Before the first reservation nothing is charged and nothing is removed.
LEMMA InitInv == BudgetAssumption /\ Init => Inv
<1> SUFFICES ASSUME BudgetAssumption, Init PROVE Inv
  OBVIOUS
<1>1. TypeOK
  <2>1. cur \in Deployments /\ phase \in Phases
    BY DEF BudgetAssumption, Init, Phases, Deployments
  <2>2. failing \in BOOLEAN
    BY DEF Init
  <2>3. /\ spent \in Nat /\ lost \in Nat
        /\ there \in SUBSET Entries /\ removed \in SUBSET Entries
        /\ state \in [Entries -> {"idle", "busy", "done", "skipped"}]
    BY DEF Init
  <2> QED BY <2>1, <2>2, <2>3 DEF TypeOK
<1>2. Accounted = {} /\ Unanswered = {}
  BY DEF Init, Accounted, Unanswered, Open, Held, Executing, Entries
<1>3. Charged
  BY <1>2, FS_EmptySet DEF Init, Charged
<1>4. WithinLimit /\ RemovedOnce /\ BusyInPhase
  BY DEF BudgetAssumption, Init, WithinLimit, RemovedOnce, BusyInPhase, Entries
<1> QED BY <1>1, <1>3, <1>4 DEF Inv

\* A reservation charges the whole batch before any of it is removed.
LEMMA ReserveInv ==
    ASSUME BudgetAssumption, Inv, Reserve
    PROVE  Inv'
<1> USE DEF Inv, BudgetAssumption
<1>0. /\ IsFiniteSet(Accounted) /\ IsFiniteSet(Unanswered) /\ IsFiniteSet(Batch)
      /\ Cardinality(Accounted) \in Nat /\ Cardinality(Unanswered) \in Nat
  BY FiniteParts
<1>types. spent \in Nat /\ lost \in Nat /\ Limit \in Nat
  BY DEF TypeOK
<1>1. Cardinality(Batch) \in Nat
  BY FiniteParts
<1>2. TypeOK'
  BY <1>1, <1>types DEF Reserve, TypeOK, Phases, AfterReserve
<1>3. Charged'
  <2>1. Accounted' \subseteq Accounted \cup Batch /\ Unanswered' = Unanswered
    BY DEF Reserve, Accounted, Unanswered, Open, Held, Batch, OfCur, TakesCharge
  <2>2. IsFiniteSet(Accounted \cup Batch) /\ Cardinality(Accounted \cup Batch) <= Cardinality(Accounted) + Cardinality(Batch)
    <3>1. /\ IsFiniteSet(Accounted \cup Batch)
          /\ Cardinality(Accounted \cup Batch) =
                Cardinality(Accounted) + Cardinality(Batch) - Cardinality(Accounted \cap Batch)
      BY <1>0, FS_Union
    <3>2. IsFiniteSet(Accounted \cap Batch)
      BY <1>0, FS_Subset
    <3>3. Cardinality(Accounted \cap Batch) \in Nat
      BY <3>2, FS_CardinalityType
    <3> QED BY <3>1, <3>3, <1>0, <1>1
  <2>3. Cardinality(Accounted') <= Cardinality(Accounted \cup Batch) /\ Cardinality(Accounted') \in Nat
    BY <2>1, <2>2, Shrunk
  <2>4. Cardinality(Accounted \cup Batch) \in Nat
    BY <2>2, FS_CardinalityType
  <2>5. CASE NoRoom(Cardinality(Batch))
    <3>1. Accounted' \subseteq Accounted
      BY <2>5 DEF Reserve, Accounted, Open, Held, Executing, TakesCharge
    <3>2. Cardinality(Accounted') <= Cardinality(Accounted)
      BY <3>1, <1>0, Shrunk
    <3> QED BY <3>2, <2>1, <2>3, <2>5, <1>0, <1>types DEF Reserve, Charged
  <2>6. CASE ~NoRoom(Cardinality(Batch))
    <3>1. spent' = spent + Cardinality(Batch) /\ lost' = lost
      BY <2>6 DEF Reserve
    <3> QED BY <3>1, <2>1, <2>2, <2>3, <2>4, <1>0, <1>1, <1>types DEF Charged
  <2> QED BY <2>5, <2>6
<1>4. WithinLimit'
  BY <1>1, <1>types DEF Reserve, NoRoom, WithinLimit
<1>5. RemovedOnce'
  BY DEF Reserve, RemovedOnce
<1>6. BusyInPhase'
  <2>1. \A e \in Entries : state[e] # "busy"
    BY DEF Reserve, BusyInPhase
  <2> QED BY <2>1 DEF Reserve, BusyInPhase
<1> QED BY <1>2, <1>3, <1>4, <1>5, <1>6

\* A deleted file was reserved: it moves from the open charges to the removals.
LEMMA FileDeletedInv ==
    ASSUME BudgetAssumption, Inv, NEW e \in Files, FileDeleted(e)
    PROVE  Inv'
<1> USE DEF Inv, BudgetAssumption
<1>0. /\ IsFiniteSet(Accounted) /\ IsFiniteSet(Unanswered) /\ IsFiniteSet(Batch)
      /\ Cardinality(Accounted) \in Nat /\ Cardinality(Unanswered) \in Nat
  BY FiniteParts
<1>types. spent \in Nat /\ lost \in Nat /\ Limit \in Nat
  BY DEF TypeOK
<1>1. e \in Entries /\ In[e] = cur /\ e \notin Dirs /\ e \in Batch /\ phase \in {"preDelete", "sweep"}
  BY WorkFacts DEF FileDeleted, OfCur, Entries, Batch
<1>2. TypeOK'
  BY <1>1 DEF FileDeleted, Finish, TypeOK
<1>3. Charged'
  <2>1. Accounted' \subseteq Accounted
    BY <1>1 DEF FileDeleted, Finish, TypeOK, Accounted, Open, Held, Batch, OfCur, Executing, TakesCharge
  <2>2. Unanswered' \subseteq Unanswered
    BY <1>1 DEF FileDeleted, Finish, TypeOK, Unanswered, Held, TakesCharge
  <2>3. /\ Cardinality(Accounted') <= Cardinality(Accounted) /\ Cardinality(Accounted') \in Nat
        /\ Cardinality(Unanswered') <= Cardinality(Unanswered) /\ Cardinality(Unanswered') \in Nat
    BY <2>1, <2>2, <1>0, Shrunk
  <2> QED BY <2>3, <1>0, <1>types DEF Charged, FileDeleted
<1>4. WithinLimit'
  BY DEF FileDeleted, WithinLimit
<1>5. RemovedOnce'
  BY <1>1 DEF FileDeleted, Finish, TypeOK, RemovedOnce
<1>6. BusyInPhase'
  BY <1>1 DEF FileDeleted, Finish, TypeOK, BusyInPhase
<1> QED BY <1>2, <1>3, <1>4, <1>5, <1>6

\* So does one whose delete failed, whether or not it took effect.
LEMMA FileFailedInv ==
    ASSUME BudgetAssumption, Inv, NEW e \in Files, FileFailed(e)
    PROVE  Inv'
<1> USE DEF Inv, BudgetAssumption
<1>0. /\ IsFiniteSet(Accounted) /\ IsFiniteSet(Unanswered) /\ IsFiniteSet(Batch)
      /\ Cardinality(Accounted) \in Nat /\ Cardinality(Unanswered) \in Nat
  BY FiniteParts
<1>types. spent \in Nat /\ lost \in Nat /\ Limit \in Nat
  BY DEF TypeOK
<1>1. e \in Entries /\ In[e] = cur /\ e \notin Dirs /\ e \in Batch /\ phase \in {"preDelete", "sweep"}
  BY WorkFacts DEF FileFailed, OfCur, Entries, Batch
<1>2. TypeOK'
  BY <1>1 DEF FileFailed, Finish, TypeOK
<1>3. Charged'
  <2>1. Accounted' \subseteq Accounted
    BY <1>1 DEF FileFailed, Finish, TypeOK, Accounted, Open, Held, Batch, OfCur, Executing, TakesCharge
  <2>2. Unanswered' \subseteq Unanswered
    BY <1>1 DEF FileFailed, Finish, TypeOK, Unanswered, Held, TakesCharge
  <2>3. /\ Cardinality(Accounted') <= Cardinality(Accounted) /\ Cardinality(Accounted') \in Nat
        /\ Cardinality(Unanswered') <= Cardinality(Unanswered) /\ Cardinality(Unanswered') \in Nat
    BY <2>1, <2>2, <1>0, Shrunk
  <2> QED BY <2>3, <1>0, <1>types DEF Charged, FileFailed
<1>4. WithinLimit'
  BY DEF FileFailed, WithinLimit
<1>5. RemovedOnce'
  BY <1>1 DEF FileFailed, Finish, TypeOK, RemovedOnce
<1>6. BusyInPhase'
  BY <1>1 DEF FileFailed, Finish, TypeOK, BusyInPhase
<1> QED BY <1>2, <1>3, <1>4, <1>5, <1>6

\* take charges a directory before its request is sent.
LEMMA StartDirInv ==
    ASSUME BudgetAssumption, Inv, NEW e \in Dirs, StartDir(e)
    PROVE  Inv'
<1> USE DEF Inv, BudgetAssumption
<1>0. /\ IsFiniteSet(Accounted) /\ IsFiniteSet(Unanswered) /\ IsFiniteSet(Batch)
      /\ Cardinality(Accounted) \in Nat /\ Cardinality(Unanswered) \in Nat
  BY FiniteParts
<1>types. spent \in Nat /\ lost \in Nat /\ Limit \in Nat
  BY DEF TypeOK
<1>1. e \in Entries /\ In[e] = cur /\ phase \in {"collide", "prune"} /\ state[e] = "idle"
  BY WorkFacts DEF StartDir, MayStart, OfCur, Entries
<1>2. TypeOK'
  BY <1>1, <1>types DEF StartDir, TypeOK
<1>3. Charged'
  <2>1. Unanswered' \subseteq Unanswered
    BY <1>1 DEF StartDir, TypeOK, Unanswered, Held, TakesCharge, RemovedOnce
  <2>2. Cardinality(Unanswered') <= Cardinality(Unanswered) /\ Cardinality(Unanswered') \in Nat
    BY <2>1, <1>0, Shrunk
  <2>3. CASE TakesCharge(e)
    <3>1. Accounted' \subseteq Accounted \cup {e}
      BY <1>1 DEF StartDir, TypeOK, Accounted, Open, Held, Batch, OfCur, TakesCharge
    <3>2. Cardinality(Accounted') <= Cardinality(Accounted) + 1 /\ Cardinality(Accounted') \in Nat
      BY <3>1, <1>0, GrownByOne
    <3>3. spent' = spent + 1 /\ lost' = lost
      BY <2>3 DEF StartDir
    <3> QED BY <3>2, <3>3, <2>2, <1>0, <1>types DEF Charged
  <2>4. CASE ~TakesCharge(e)
    <3>1. Accounted' \subseteq Accounted
      BY <1>1, <2>4 DEF StartDir, TypeOK, Accounted, Open, Held, Batch, OfCur, TakesCharge
    <3>2. Cardinality(Accounted') <= Cardinality(Accounted) /\ Cardinality(Accounted') \in Nat
      BY <3>1, <1>0, Shrunk
    <3>3. spent' = spent /\ lost' = lost
      BY <2>4 DEF StartDir
    <3> QED BY <3>2, <3>3, <2>2, <1>0, <1>types DEF Charged
  <2> QED BY <2>3, <2>4
<1>4. WithinLimit'
  BY <1>types DEF StartDir, WithinLimit, SpentAll
<1>5. RemovedOnce'
  BY <1>1 DEF StartDir, TypeOK, RemovedOnce
<1>6. BusyInPhase'
  <2>1. phase = IF e \in Turned THEN "collide" ELSE "prune"
    BY <1>1, WorkFacts DEF StartDir, MayStart, OfCur
  <2> QED BY <1>1, <2>1 DEF StartDir, TypeOK, BusyInPhase
<1> QED BY <1>2, <1>3, <1>4, <1>5, <1>6

\* A directory the budget has no room for is left alone.
LEMMA SkipDirInv ==
    ASSUME BudgetAssumption, Inv, NEW e \in Dirs, SkipDir(e)
    PROVE  Inv'
<1> USE DEF Inv, BudgetAssumption
<1>0. /\ IsFiniteSet(Accounted) /\ IsFiniteSet(Unanswered) /\ IsFiniteSet(Batch)
      /\ Cardinality(Accounted) \in Nat /\ Cardinality(Unanswered) \in Nat
  BY FiniteParts
<1>types. spent \in Nat /\ lost \in Nat /\ Limit \in Nat
  BY DEF TypeOK
<1>1. e \in Entries /\ state[e] = "idle"
  BY DEF SkipDir, MayStart, Entries
<1>2. TypeOK'
  <2>1. failing' \in BOOLEAN
    BY DEF SkipDir
  <2> QED BY <2>1, <1>1 DEF SkipDir, TypeOK
<1>3. Charged'
  <2>1. Accounted' \subseteq Accounted /\ Unanswered' \subseteq Unanswered
    BY <1>1 DEF SkipDir, TypeOK, Accounted, Unanswered, Open, Held, Batch, OfCur, TakesCharge
  <2>2. /\ Cardinality(Accounted') <= Cardinality(Accounted) /\ Cardinality(Accounted') \in Nat
        /\ Cardinality(Unanswered') <= Cardinality(Unanswered) /\ Cardinality(Unanswered') \in Nat
    BY <2>1, <1>0, Shrunk
  <2> QED BY <2>2, <1>0, <1>types DEF Charged, SkipDir
<1>4. WithinLimit'
  BY DEF SkipDir, WithinLimit
<1>5. RemovedOnce'
  BY <1>1 DEF SkipDir, TypeOK, RemovedOnce
<1>6. BusyInPhase'
  BY <1>1 DEF SkipDir, TypeOK, BusyInPhase
<1> QED BY <1>2, <1>3, <1>4, <1>5, <1>6

\* An answered removal settles its charge.
LEMMA DirRemovedInv ==
    ASSUME BudgetAssumption, Inv, NEW e \in Dirs, DirRemoved(e)
    PROVE  Inv'
<1> USE DEF Inv, BudgetAssumption
<1>0. /\ IsFiniteSet(Accounted) /\ IsFiniteSet(Unanswered) /\ IsFiniteSet(Batch)
      /\ Cardinality(Accounted) \in Nat /\ Cardinality(Unanswered) \in Nat
  BY FiniteParts
<1>types. spent \in Nat /\ lost \in Nat /\ Limit \in Nat
  BY DEF TypeOK
<1>1. e \in Entries /\ In[e] = cur /\ e \notin removed /\ phase \in {"collide", "prune"}
  BY DEF DirRemoved, Entries, BusyInPhase, RemovedOnce
<1>2. TypeOK'
  BY <1>1 DEF DirRemoved, Finish, TypeOK
<1>3. Charged'
  <2>1. e \in Accounted
    BY <1>1 DEF DirRemoved, Accounted, Open, Held, Batch, OfCur, Executing, TakesCharge
  <2>2. Accounted' \subseteq Accounted /\ Unanswered' \subseteq Unanswered
    BY <1>1, <2>1 DEF DirRemoved, Finish, TypeOK, Accounted, Unanswered, Open, Held, Batch, OfCur, TakesCharge
  <2>3. /\ Cardinality(Accounted') <= Cardinality(Accounted) /\ Cardinality(Accounted') \in Nat
        /\ Cardinality(Unanswered') <= Cardinality(Unanswered) /\ Cardinality(Unanswered') \in Nat
    BY <2>2, <1>0, Shrunk
  <2> QED BY <2>3, <1>0, <1>types DEF Charged, DirRemoved
<1>4. WithinLimit'
  BY DEF DirRemoved, WithinLimit
<1>5. RemovedOnce'
  BY <1>1 DEF DirRemoved, Finish, TypeOK, RemovedOnce
<1>6. BusyInPhase'
  BY <1>1 DEF DirRemoved, Finish, TypeOK, BusyInPhase
<1> QED BY <1>2, <1>3, <1>4, <1>5, <1>6

\* Settling a directory that was not removed now gives back one unit of what is
\* counted against it, so the refund keeps the account.
LEMMA RefundKeeps ==
    ASSUME BudgetAssumption, Inv, NEW e \in Dirs, state[e] = "busy",
           there' = there, removed' = removed, lost' = lost, cur' = cur, phase' = phase,
           Finish(e), GiveBack(e)
    PROVE  Charged' /\ WithinLimit' /\ spent' \in Nat
<1> USE DEF Inv, BudgetAssumption
<1>0. /\ IsFiniteSet(Accounted) /\ IsFiniteSet(Unanswered) /\ IsFiniteSet(Batch)
      /\ Cardinality(Accounted) \in Nat /\ Cardinality(Unanswered) \in Nat
  BY FiniteParts
<1>types. spent \in Nat /\ lost \in Nat /\ Limit \in Nat
  BY DEF TypeOK
<1>1. e \in Entries /\ In[e] = cur /\ phase \in {"collide", "prune"}
  BY DEF Entries, BusyInPhase
<1>2. Accounted' \subseteq Accounted /\ Unanswered' \subseteq Unanswered
  BY <1>1 DEF Finish, TypeOK, Accounted, Unanswered, Open, Held, Batch, OfCur, TakesCharge
<1>3. /\ Cardinality(Accounted') <= Cardinality(Accounted) /\ Cardinality(Accounted') \in Nat
      /\ Cardinality(Unanswered') <= Cardinality(Unanswered) /\ Cardinality(Unanswered') \in Nat
  BY <1>2, <1>0, Shrunk
<1>4. CASE ~TakesCharge(e)
  <2>1. spent' = spent
    BY <1>4 DEF GiveBack
  <2> QED BY <2>1, <1>3, <1>0, <1>types DEF Charged, WithinLimit
<1>5. CASE TakesCharge(e)
  <2>1. spent' = IF spent > 0 THEN spent - 1 ELSE spent
    BY <1>5 DEF GiveBack, Refund
  <2>2. e \in Held /\ e \in Accounted
    BY <1>5 DEF Held, Accounted
  <2>3. CASE e \in removed
    <3>1. e \in Unanswered /\ Unanswered' \subseteq Unanswered \ {e}
      BY <2>2, <2>3, <1>1 DEF Unanswered, Held, Finish, TypeOK, TakesCharge
    <3>2. Cardinality(Unanswered') <= Cardinality(Unanswered) - 1
      BY <3>1, <1>0, ShrunkByOne
    <3> QED BY <3>2, <2>1, <1>3, <1>0, <1>types DEF Charged, WithinLimit
  <2>4. CASE e \notin removed
    <3>1. e \notin Open'
      BY <1>1 DEF Open, Finish, TypeOK
    <3>2. e \notin Held'
      BY <1>1 DEF Held, Finish, TypeOK
    <3>3. Accounted' \subseteq Accounted \ {e}
      BY <3>1, <3>2, <2>4, <1>2 DEF Accounted
    <3>4. Cardinality(Accounted') <= Cardinality(Accounted) - 1
      BY <3>3, <2>2, <1>0, ShrunkByOne
    <3> QED BY <3>4, <2>1, <1>3, <1>0, <1>types DEF Charged, WithinLimit
  <2> QED BY <2>3, <2>4
<1> QED BY <1>4, <1>5

\* "Already gone" gives the charge back.
LEMMA DirGoneInv ==
    ASSUME BudgetAssumption, Inv, NEW e \in Dirs, DirGone(e)
    PROVE  Inv'
<1> USE DEF Inv, BudgetAssumption
<1>1. e \in Entries
  BY DEF Entries
<1>2. Charged' /\ WithinLimit' /\ spent' \in Nat
  BY RefundKeeps DEF DirGone
<1>3. TypeOK'
  BY <1>1, <1>2 DEF DirGone, Finish, TypeOK
<1>4. RemovedOnce'
  BY <1>1 DEF DirGone, Finish, TypeOK, RemovedOnce
<1>5. BusyInPhase'
  BY <1>1 DEF DirGone, Finish, TypeOK, BusyInPhase
<1> QED BY <1>2, <1>3, <1>4, <1>5

\* A directory settled without a refund keeps the account: its charge stays spent.
LEMMA KeepCharge ==
    ASSUME BudgetAssumption, Inv, NEW e \in Dirs, state[e] = "busy",
           there' = there, removed' = removed, lost' = lost, cur' = cur, phase' = phase,
           Finish(e), spent' = spent
    PROVE  Charged' /\ WithinLimit'
<1> USE DEF Inv, BudgetAssumption
<1>0. /\ IsFiniteSet(Accounted) /\ IsFiniteSet(Unanswered) /\ IsFiniteSet(Batch)
      /\ Cardinality(Accounted) \in Nat /\ Cardinality(Unanswered) \in Nat
  BY FiniteParts
<1>types. spent \in Nat /\ lost \in Nat /\ Limit \in Nat
  BY DEF TypeOK
<1>1. e \in Entries
  BY DEF Entries
<1>2. Accounted' \subseteq Accounted /\ Unanswered' \subseteq Unanswered
  BY <1>1 DEF Finish, TypeOK, Accounted, Unanswered, Open, Held, Batch, OfCur, TakesCharge
<1>3. /\ Cardinality(Accounted') <= Cardinality(Accounted) /\ Cardinality(Accounted') \in Nat
      /\ Cardinality(Unanswered') <= Cardinality(Unanswered) /\ Cardinality(Unanswered') \in Nat
  BY <1>2, <1>0, Shrunk
<1> QED BY <1>3, <1>0, <1>types DEF Charged, WithinLimit

\* A refused removal gives its charge back in the prune and keeps it in the pre-pass.
LEMMA DirRefusedInv ==
    ASSUME BudgetAssumption, Inv, NEW e \in Dirs, DirRefused(e)
    PROVE  Inv'
<1> USE DEF Inv, BudgetAssumption
<1>1. e \in Entries
  BY DEF Entries
<1>2. Charged' /\ WithinLimit' /\ spent' \in Nat
  <2>1. CASE phase = "collide"
    <3>1. spent' = spent /\ spent \in Nat
      BY <2>1 DEF DirRefused, TypeOK
    <3> QED BY <3>1, KeepCharge DEF DirRefused
  <2>2. CASE phase # "collide"
    BY <2>2, RefundKeeps DEF DirRefused
  <2> QED BY <2>1, <2>2
<1>3. TypeOK'
  <2>1. failing' \in BOOLEAN
    BY DEF DirRefused
  <2> QED BY <1>1, <1>2, <2>1 DEF DirRefused, Finish, TypeOK
<1>4. RemovedOnce'
  BY <1>1 DEF DirRefused, Finish, TypeOK, RemovedOnce
<1>5. BusyInPhase'
  BY <1>1 DEF DirRefused, Finish, TypeOK, BusyInPhase
<1> QED BY <1>2, <1>3, <1>4, <1>5

\* A lost answer is the one way a used charge can be given back, and it is counted.
LEMMA DirLostInv ==
    ASSUME BudgetAssumption, Inv, NEW e \in Dirs, DirLost(e)
    PROVE  Inv'
<1> USE DEF Inv, BudgetAssumption
<1>0. /\ IsFiniteSet(Accounted) /\ IsFiniteSet(Unanswered) /\ IsFiniteSet(Batch)
      /\ Cardinality(Accounted) \in Nat /\ Cardinality(Unanswered) \in Nat
  BY FiniteParts
<1>types. spent \in Nat /\ lost \in Nat /\ Limit \in Nat
  BY DEF TypeOK
<1>1. e \in Entries /\ In[e] = cur /\ phase \in {"collide", "prune"} /\ state[e] = "busy"
  BY DEF DirLost, Entries, BusyInPhase
<1>2. RemovedOnce' /\ BusyInPhase'
  BY <1>1 DEF DirLost, Finish, TypeOK, RemovedOnce, BusyInPhase
<1>3. spent' \in Nat /\ (WithinLimit => WithinLimit')
  BY <1>types DEF DirLost, GiveBack, Refund, WithinLimit
<1>4. TypeOK'
  <2>1. failing' \in BOOLEAN
    BY DEF DirLost, TypeOK
  <2>2. state' \in [Entries -> {"idle", "busy", "done", "skipped"}]
    BY <1>1 DEF DirLost, Finish, TypeOK
  <2>3. there' \in SUBSET Entries /\ removed' \in SUBSET Entries /\ lost' \in Nat
    BY <1>1, <1>types DEF DirLost, TypeOK
  <2> QED BY <1>3, <2>1, <2>2, <2>3 DEF DirLost, TypeOK
<1>5. Charged'
  <2>1. CASE UNCHANGED <<there, removed, lost>>
    <3>1. CASE UNCHANGED <<spent, state, failing>>
      <4>1. Accounted' = Accounted /\ Unanswered' = Unanswered
        BY <2>1, <3>1 DEF DirLost, Accounted, Unanswered, Open, Held, Batch, OfCur, TakesCharge
      <4> QED BY <4>1, <2>1, <3>1 DEF Charged
    <3>2. CASE GiveBack(e) /\ Finish(e)
      BY <2>1, <3>2, <1>1, RefundKeeps DEF DirLost
    <3>3. CASE UNCHANGED spent /\ Finish(e)
      BY <2>1, <3>3, <1>1, KeepCharge DEF DirLost
    <3> QED BY <3>1, <3>2, <3>3 DEF DirLost
  <2>2. CASE e \in there /\ there' = there \ {e} /\ removed' = removed \cup {e} /\ lost' = lost + 1
    <3>1. e \notin removed /\ e \in Accounted
      BY <2>2, <1>1 DEF RemovedOnce, Accounted, Open, Held, Batch, OfCur, Executing, TakesCharge
    <3>2. Accounted' \subseteq Accounted
      <4>0. cur' = cur /\ phase' = phase /\ (state' = state \/ state' = [state EXCEPT ![e] = "done"])
        BY DEF DirLost, Finish
      <4>s. \A d \in Entries : state'[d] \in {"idle", "busy"} => state'[d] = state[d]
        BY <4>0, <1>1 DEF TypeOK
      <4>1. Open' \subseteq Open
        <5>1. Batch' = Batch /\ Batch \subseteq Entries
          BY <4>0 DEF Batch, OfCur, Entries
        <5> QED BY <4>0, <4>s, <5>1 DEF Open
      <4>2. Held' \subseteq Held
        BY <4>s DEF Held, TakesCharge, Entries
      <4> QED BY <2>2, <3>1, <4>1, <4>2 DEF Accounted
    <3>3. Cardinality(Accounted') <= Cardinality(Accounted) /\ Cardinality(Accounted') \in Nat
      BY <3>2, <1>0, Shrunk
    <3>4. CASE UNCHANGED spent
      <4>1. Unanswered' \subseteq Unanswered \cup {e}
        BY <2>2, <1>1 DEF DirLost, Finish, TypeOK, Unanswered, Held, TakesCharge
      <4>2. Cardinality(Unanswered') <= Cardinality(Unanswered) + 1 /\ Cardinality(Unanswered') \in Nat
        BY <4>1, <1>0, GrownByOne
      <4> QED BY <4>2, <3>3, <3>4, <2>2, <1>0, <1>types DEF Charged
    <3>5. CASE GiveBack(e) /\ Finish(e)
      <4>1. Unanswered' \subseteq Unanswered
        BY <2>2, <3>5, <1>1 DEF DirLost, Finish, TypeOK, Unanswered, Held, TakesCharge
      <4>2. Cardinality(Unanswered') <= Cardinality(Unanswered) /\ Cardinality(Unanswered') \in Nat
        BY <4>1, <1>0, Shrunk
      <4>3. spent' >= spent - 1
        BY <3>5, <1>types DEF GiveBack, Refund
      <4> QED BY <4>2, <4>3, <3>3, <2>2, <1>0, <1>3, <1>types DEF Charged
    <3> QED BY <3>4, <3>5 DEF DirLost
  <2> QED BY <2>1, <2>2 DEF DirLost
<1> QED BY <1>2, <1>3, <1>4, <1>5

\* A batch that ends leaves at most its reservation behind, spent.
LEMMA EndBatchInv ==
    ASSUME BudgetAssumption, Inv, EndBatch
    PROVE  Inv'
<1> USE DEF Inv, BudgetAssumption
<1>0. /\ IsFiniteSet(Accounted) /\ IsFiniteSet(Unanswered) /\ IsFiniteSet(Batch)
      /\ Cardinality(Accounted) \in Nat /\ Cardinality(Unanswered) \in Nat
  BY FiniteParts
<1>types. spent \in Nat /\ lost \in Nat /\ Limit \in Nat
  BY DEF TypeOK
<1>1. \A e \in Entries : state[e] # "busy"
  <2> SUFFICES ASSUME NEW e \in Entries, state[e] = "busy" PROVE FALSE
    OBVIOUS
  <2>1. e \in Work(phase)
    BY WorkFacts DEF BusyInPhase, OfCur
  <2> QED BY <2>1 DEF EndBatch
<1>2. TypeOK'
  <2>1. phase' \in Phases
    BY DEF EndBatch, AtLast, NextPhase, Phases
  <2>2. cur' \in Deployments
    BY DEF EndBatch, AtLast, TypeOK, Deployments
  <2> QED BY <2>1, <2>2 DEF EndBatch, AtLast, TypeOK
<1>3. Charged'
  <2>1. cur' = cur \/ phase' \notin Executing
    BY DEF EndBatch, AtLast, NextPhase, Executing
  <2>2. phase \in Executing
    BY DEF EndBatch, AtLast, Executing
  <2>3. Open' \subseteq Open
    BY <2>1, <2>2 DEF EndBatch, AtLast, Open, Batch, OfCur
  <2>4. Held' = Held /\ removed' = removed /\ spent' = spent /\ lost' = lost
    BY DEF EndBatch, AtLast, Held, TakesCharge
  <2>5. Accounted' \subseteq Accounted /\ Unanswered' = Unanswered
    BY <2>3, <2>4 DEF Accounted, Unanswered
  <2>6. Cardinality(Accounted') <= Cardinality(Accounted) /\ Cardinality(Accounted') \in Nat
    BY <2>5, <1>0, Shrunk
  <2> QED BY <2>4, <2>5, <2>6, <1>0, <1>types DEF Charged
<1>4. WithinLimit' /\ RemovedOnce'
  BY DEF EndBatch, AtLast, WithinLimit, RemovedOnce
<1>5. BusyInPhase'
  BY <1>1 DEF EndBatch, AtLast, BusyInPhase
<1> QED BY <1>2, <1>3, <1>4, <1>5

\* A run that stops keeps what it was charged.
LEMMA StopInv ==
    ASSUME BudgetAssumption, Inv, Stop
    PROVE  Inv'
<1> USE DEF Inv, BudgetAssumption
<1>0. /\ IsFiniteSet(Accounted) /\ Cardinality(Accounted) \in Nat
      /\ Cardinality(Unanswered) \in Nat
  BY FiniteParts
<1>1. TypeOK'
  BY DEF Stop, TypeOK, Phases
<1>2. Charged'
  <2>1. Open' \subseteq Open
    BY DEF Stop, Open, Executing
  <2>2. Held' = Held /\ removed' = removed /\ spent' = spent /\ lost' = lost
    BY DEF Stop, Held, TakesCharge
  <2>3. Accounted' \subseteq Accounted /\ Unanswered' = Unanswered
    BY <2>1, <2>2 DEF Accounted, Unanswered
  <2>4. Cardinality(Accounted') <= Cardinality(Accounted) /\ Cardinality(Accounted') \in Nat
    BY <2>3, <1>0, Shrunk
  <2> QED BY <2>2, <2>3, <2>4, <1>0 DEF Charged, TypeOK
<1>3. WithinLimit' /\ RemovedOnce' /\ BusyInPhase'
  BY DEF Stop, WithinLimit, RemovedOnce, BusyInPhase
<1> QED BY <1>1, <1>2, <1>3

\* Every step of the run keeps the account.
LEMMA NextInv == BudgetAssumption /\ Inv /\ [Next]_vars => Inv'
<1> SUFFICES ASSUME BudgetAssumption, Inv, [Next]_vars PROVE Inv'
  OBVIOUS
<1>1. CASE Reserve
  BY <1>1, ReserveInv
<1>2. CASE \E e \in Files : FileDeleted(e) \/ FileFailed(e)
  BY <1>2, FileDeletedInv, FileFailedInv
<1>3. CASE \E e \in Dirs : StartDir(e) \/ SkipDir(e)
  BY <1>3, StartDirInv, SkipDirInv
<1>4. CASE \E e \in Dirs : DirRemoved(e) \/ DirGone(e) \/ DirRefused(e) \/ DirLost(e)
  BY <1>4, DirRemovedInv, DirGoneInv, DirRefusedInv, DirLostInv
<1>5. CASE EndBatch
  BY <1>5, EndBatchInv
<1>6. CASE Stop
  BY <1>6, StopInv
<1>7. CASE UNCHANGED vars
  BY <1>7 DEF vars, Inv, TypeOK, Charged, WithinLimit, RemovedOnce, BusyInPhase, Accounted, Unanswered,
      Open, Held, Batch, OfCur, TakesCharge
<1> QED BY <1>1, <1>2, <1>3, <1>4, <1>5, <1>6, <1>7 DEF Next, Ended

-----------------------------------------------------------------------------
\* The account holds in every reachable state.
THEOREM BudgetInv == ASSUME BudgetAssumption PROVE Spec => []Inv
<1>1. Init => Inv
  BY InitInv
<1>2. Inv /\ [Next]_vars => Inv'
  BY NextInv
<1> QED BY <1>1, <1>2, PTL DEF Spec

\* Every variable stays in its range; the budget never goes below zero.
THEOREM BudgetTypeOK == ASSUME BudgetAssumption PROVE Spec => []TypeOK
<1>1. Spec => []Inv
  BY BudgetInv
<1>2. Inv => TypeOK
  BY DEF Inv
<1> QED BY <1>1, <1>2, PTL

\* For every limit and every run, the entries removed exceed safety.max_deletes at
\* most by the removals whose answer was lost; where no answer is lost it is the
\* cap the documentation promises.
THEOREM BudgetRemovesWithinLimit ==
    ASSUME BudgetAssumption PROVE Spec => []RemovesWithinLimit
<1>1. Spec => []Inv
  BY BudgetInv
<1>2. Inv => RemovesWithinLimit
  <2> SUFFICES ASSUME Inv, Limit > 0 PROVE Cardinality(removed) <= Limit + lost
    BY DEF RemovesWithinLimit
  <2>1. /\ IsFiniteSet(Accounted) /\ Cardinality(Accounted) \in Nat
        /\ Cardinality(Unanswered) \in Nat
    BY FiniteParts DEF Inv
  <2>2. removed \subseteq Accounted
    BY DEF Accounted
  <2>3. Cardinality(removed) <= Cardinality(Accounted) /\ Cardinality(removed) \in Nat
    BY <2>1, <2>2, Shrunk
  <2> QED BY <2>1, <2>3 DEF BudgetAssumption, Inv, TypeOK, Charged, WithinLimit
<1> QED BY <1>1, <1>2, PTL
===========================================================================
