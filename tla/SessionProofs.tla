--------------------------- MODULE SessionProofs ---------------------------
(***************************************************************************)
(* Session's safety properties for every number of files, callers, slots   *)
(* and retries.  The inductive invariant says who holds dialMu, which      *)
(* worker owns the channel of a slot or of a connection, and that an       *)
(* upload only ever reconnects when it has an attempt left.                *)
(***************************************************************************)
EXTENDS Session, FiniteSetTheorems, TLAPS

\* dialMu is held by exactly the worker whose handshake is in flight.
DialMuHeld == \A w \in Workers : pc[w] \in {"dial", "redial"} <=> dialMu = w

\* A worker inside dialPooled owns its slot's channel, and the slot is empty.
DialOwnsSlot ==
    \A w \in Workers :
        /\ pc[w] \in Dialing => dialing[at[w]] = w /\ conns[at[w]] = None
        /\ pc[w] = "barred" => refused

\* An upload that is reconnecting has another attempt to make.
AttemptLeft ==
    \A w \in Workers :
        task[w] = "upload" /\ pc[w] \in {"reconnect", "waitRedial"} \cup Redialing
            => attempt[w] < Retries

FirstIsOpen == conns[0] = 0

Inv == /\ TypeOK /\ DialMuHeld /\ DialOwnsSlot /\ AttemptLeft /\ FirstIsOpen
       /\ RedialOwnsClient /\ DialWaitersAreServed

-----------------------------------------------------------------------------
LEMMA SlotsFacts == 0 \in Slots /\ IsFiniteSet(Slots) /\ Cardinality(Slots) = Pool
<1>1. 0 \in Slots
  BY SizesAssumption DEF Slots
<1>2. IsFiniteSet(0 .. (Pool - 1)) /\ Cardinality(0 .. (Pool - 1)) = Pool
  BY FS_Interval, SizesAssumption
<1> QED BY <1>1, <1>2 DEF Slots

\* session.openSlots is a legal spread: at least the first connection, at most
\* one per slot.
LEMMA OpenSlotsInRange == TypeOK /\ FirstIsOpen => OpenSlots \in 1 .. Pool
<1> SUFFICES ASSUME TypeOK, FirstIsOpen PROVE OpenSlots \in 1 .. Pool
  OBVIOUS
<1> DEFINE touched == {s \in Slots : \A t \in 0 .. s : conns[t] # None}
           held == {conns[s] : s \in touched}
<1>1. held \subseteq Slots
  <2> SUFFICES ASSUME NEW s \in Slots, \A t \in 0 .. s : conns[t] # None
               PROVE conns[s] \in Slots
    OBVIOUS
  <2>1. s \in 0 .. s
    BY SizesAssumption DEF Slots
  <2> QED BY <2>1 DEF TypeOK
<1>2. IsFiniteSet(held) /\ Cardinality(held) <= Pool
  BY <1>1, SlotsFacts, FS_Subset
<1>3. 0 \in held
  <2>1. 0 \in touched
    <3>1. \A t \in 0 .. 0 : t = 0
      OBVIOUS
    <3> QED BY <3>1, SlotsFacts, NamesAssumption DEF FirstIsOpen
  <2> QED BY <2>1 DEF FirstIsOpen
<1>4. Cardinality(held) \in Nat /\ Cardinality(held) # 0
  BY <1>2, <1>3, FS_CardinalityType, FS_EmptySet
<1>5. OpenSlots = Cardinality(held)
  BY DEF OpenSlots
<1> QED BY <1>2, <1>4, <1>5, SizesAssumption

LEMMA SlotOfInRange == ASSUME TypeOK, NEW w \in Workers PROVE SlotOf(w) \in Slots
<1>1. Index(w) \in Nat
  BY SizesAssumption DEF Index
<1>2. \A a \in Nat, b \in Nat \ {0} : a % b \in 0 .. (b - 1)
  OBVIOUS
<1>3. spread \in Nat \ {0} /\ spread <= Pool
  BY SizesAssumption DEF TypeOK
<1>4. SlotOf(w) \in 0 .. (spread - 1)
  BY <1>1, <1>2, <1>3 DEF SlotOf
<1> QED BY <1>3, <1>4, SizesAssumption DEF Slots

THEOREM InitInv == Init => Inv
<1> SUFFICES ASSUME Init PROVE Inv
  OBVIOUS
<1> USE SizesAssumption, NamesAssumption, SlotsFacts DEF Init
<1>1. TypeOK
  <2>1. /\ conns \in [Slots -> Slots \cup {None}] /\ spread \in 1 .. Pool
        /\ reconnects \in 0 .. Retries /\ cur \in 1 .. Pool /\ from \in 0 .. Pool
    OBVIOUS
  <2>2. /\ dialing \in [Slots -> Workers \cup {None}] /\ dialMu \in Workers \cup {None}
        /\ gen \in [Slots -> Nat] /\ redialing \in [Slots -> Workers \cup {None}]
        /\ live \in SUBSET Slots /\ snap \in SUBSET (Slots \X Nat)
    OBVIOUS
  <2>3. /\ pc \in [Workers -> PCs] /\ task \in [Workers -> {"stat", "upload", "do"}]
        /\ at \in [Workers -> Slots] /\ mine \in [Workers -> Nat]
        /\ attempt \in [Workers -> 0 .. Retries]
    BY DEF PCs
  <2>4. /\ refused \in BOOLEAN /\ fired \in BOOLEAN
        /\ interrupted \in BOOLEAN /\ unwatched \in BOOLEAN
        /\ monitor \in {"watch", "kill", "close", "exit"}
        /\ ctl \in {"observe", "apply", "stopped"}
    OBVIOUS
  <2> QED BY <2>1, <2>2, <2>3, <2>4 DEF TypeOK
<1>2. DialMuHeld /\ DialOwnsSlot /\ AttemptLeft /\ RedialOwnsClient /\ DialWaitersAreServed
  BY DEF DialMuHeld, DialOwnsSlot, AttemptLeft, RedialOwnsClient, DialWaitersAreServed,
         Dialing, Redialing, Workers
<1>3. FirstIsOpen
  BY DEF FirstIsOpen
<1> QED BY <1>1, <1>2, <1>3 DEF Inv

\* One step of one action at a time: <2>1 is the type invariant, the others are
\* the parts of Inv that the action's assignments could disturb.
LEMMA NextInv == Inv /\ [Next]_vars => Inv'
<1> SUFFICES ASSUME Inv, [Next]_vars PROVE Inv'
  OBVIOUS
<1> USE SizesAssumption, NamesAssumption, SlotsFacts
    DEF Inv, vars, pool, link, dog, tuner, ctxs
<1> DEFINE Rest == /\ DialMuHeld /\ DialOwnsSlot /\ AttemptLeft /\ FirstIsOpen
                   /\ RedialOwnsClient /\ DialWaitersAreServed
<1>1. ASSUME NEW w \in Workers, StartFile(w) PROVE Inv'
  <2>1. TypeOK'
    BY <1>1 DEF TypeOK, PCs, Dialing, Redialing, StartFile, Fail, Return, Goto
  <2>2. Rest'
    BY <1>1 DEF TypeOK, DialMuHeld, DialOwnsSlot, AttemptLeft, FirstIsOpen, RedialOwnsClient, DialWaitersAreServed,
       Dialing, Redialing, StartFile, Fail, Return, Goto
  <2> QED BY <2>1, <2>2
<1>2. ASSUME NEW w \in Workers, StartOp(w) PROVE Inv'
  <2>1. TypeOK'
    BY <1>2 DEF TypeOK, PCs, Dialing, Redialing, StartOp, Fail, Return, Goto
  <2>2. Rest'
    BY <1>2 DEF TypeOK, DialMuHeld, DialOwnsSlot, AttemptLeft, FirstIsOpen, RedialOwnsClient, DialWaitersAreServed,
       Dialing, Redialing, StartOp, Fail, Return, Goto
  <2> QED BY <2>1, <2>2
<1>3. ASSUME StartRecovery PROVE Inv'
  <2>1. TypeOK'
    BY <1>3 DEF TypeOK, PCs, Dialing, Redialing, StartRecovery, Goto
  <2>2. Rest'
    BY <1>3 DEF TypeOK, DialMuHeld, DialOwnsSlot, AttemptLeft, FirstIsOpen, RedialOwnsClient, DialWaitersAreServed,
       Dialing, Redialing, StartRecovery, Goto
  <2> QED BY <2>1, <2>2
<1>4. ASSUME NEW w \in Workers, Acquire(w) PROVE Inv'
  <2>1. TypeOK'
    BY <1>4, SlotOfInRange DEF TypeOK, PCs, Dialing, Redialing, Acquire, BeingDialed, Use, Goto
  <2>2. DialMuHeld'
    BY <1>4, SlotOfInRange DEF TypeOK, DialMuHeld, Dialing, Redialing, Acquire, BeingDialed, Use, Goto
  <2>3. DialOwnsSlot'
    BY <1>4, SlotOfInRange DEF TypeOK, DialOwnsSlot, Dialing, Redialing, Acquire, BeingDialed, Use, Goto
  <2>4. AttemptLeft'
    BY <1>4, SlotOfInRange DEF TypeOK, AttemptLeft, Dialing, Redialing, Acquire, BeingDialed, Use, Goto
  <2>5. FirstIsOpen'
    BY <1>4, SlotOfInRange DEF TypeOK, FirstIsOpen, Dialing, Redialing, Acquire, BeingDialed, Use, Goto
  <2>6. RedialOwnsClient'
    BY <1>4, SlotOfInRange DEF TypeOK, RedialOwnsClient, Dialing, Redialing, Acquire, BeingDialed, Use, Goto
  <2>7. DialWaitersAreServed'
    BY <1>4, SlotOfInRange DEF TypeOK, DialWaitersAreServed, Dialing, Redialing, Acquire, BeingDialed, Use, Goto
  <2> QED BY <2>1, <2>2, <2>3, <2>4, <2>5, <2>6, <2>7
<1>5. ASSUME NEW w \in Workers, WaitDial(w) PROVE Inv'
  <2>1. TypeOK'
    BY <1>5 DEF TypeOK, PCs, Dialing, Redialing, WaitDial, Goto
  <2>2. Rest'
    BY <1>5 DEF TypeOK, DialMuHeld, DialOwnsSlot, AttemptLeft, FirstIsOpen, RedialOwnsClient, DialWaitersAreServed,
       Dialing, Redialing, WaitDial, Goto
  <2> QED BY <2>1, <2>2
<1>6. ASSUME NEW w \in Workers, LockDial(w) PROVE Inv'
  <2>1. TypeOK'
    BY <1>6 DEF TypeOK, PCs, Dialing, Redialing, LockDial, Goto, DialMuFree
  <2>2. Rest'
    BY <1>6 DEF TypeOK, DialMuHeld, DialOwnsSlot, AttemptLeft, FirstIsOpen, RedialOwnsClient, DialWaitersAreServed,
       Dialing, Redialing, LockDial, Goto, DialMuFree
  <2> QED BY <2>1, <2>2
<1>7. ASSUME NEW w \in Workers, DialEnds(w) PROVE Inv'
  <2>1. TypeOK'
    BY <1>7 DEF TypeOK, PCs, Dialing, Redialing, DialEnds, Goto
  <2>2. Rest'
    BY <1>7 DEF TypeOK, DialMuHeld, DialOwnsSlot, AttemptLeft, FirstIsOpen, RedialOwnsClient, DialWaitersAreServed,
       Dialing, Redialing, DialEnds, Goto
  <2> QED BY <2>1, <2>2
<1>8. ASSUME NEW w \in Workers, InstallDial(w) PROVE Inv'
  <2>1. TypeOK'
    BY <1>8 DEF TypeOK, PCs, Dialing, Redialing, InstallDial, Use, Goto, CloseDialing
  <2>2. DialMuHeld'
    BY <1>8 DEF TypeOK, DialMuHeld, Dialing, Redialing, InstallDial, Use, Goto, CloseDialing
  <2>3. DialOwnsSlot'
    BY <1>8 DEF TypeOK, DialOwnsSlot, Dialing, Redialing, InstallDial, Use, Goto, CloseDialing
  <2>4. AttemptLeft'
    BY <1>8 DEF TypeOK, AttemptLeft, Dialing, Redialing, InstallDial, Use, Goto, CloseDialing
  <2>5. FirstIsOpen'
    BY <1>8 DEF TypeOK, FirstIsOpen, Dialing, Redialing, InstallDial, Use, Goto, CloseDialing
  <2>6. RedialOwnsClient'
    BY <1>8 DEF TypeOK, RedialOwnsClient, Dialing, Redialing, InstallDial, Use, Goto, CloseDialing
  <2>7. DialWaitersAreServed'
    BY <1>8 DEF TypeOK, DialWaitersAreServed, Dialing, Redialing, InstallDial, Use, Goto, CloseDialing
  <2> QED BY <2>1, <2>2, <2>3, <2>4, <2>5, <2>6, <2>7
<1>9. ASSUME NEW w \in Workers, FallBack(w) PROVE Inv'
  <2>0. OpenSlots \in 1 .. Pool /\ conns[0] = 0
    BY OpenSlotsInRange DEF FirstIsOpen
  <2>1. TypeOK'
    <3>1. /\ refused' \in BOOLEAN /\ spread' \in 1 .. Pool
          /\ conns' \in [Slots -> Slots \cup {None}]
      BY <1>9, <2>0 DEF TypeOK, FallBack, NoteDialFailure, ShareFirst
    <3>2. /\ dialing' \in [Slots -> Workers \cup {None}]
          /\ pc' \in [Workers -> PCs] /\ at' \in [Workers -> Slots] /\ mine' \in [Workers -> Nat]
      BY <1>9, <2>0 DEF TypeOK, PCs, FallBack, Use, Goto, CloseDialing
    <3> QED BY <1>9, <3>1, <3>2 DEF TypeOK, FallBack
  <2>2. DialMuHeld'
    BY <1>9, <2>0 DEF TypeOK, DialMuHeld, Dialing, Redialing, FallBack, NoteDialFailure, ShareFirst, Use, Goto, CloseDialing
  <2>3. DialOwnsSlot'
    BY <1>9, <2>0 DEF TypeOK, DialOwnsSlot, Dialing, Redialing, FallBack, NoteDialFailure, ShareFirst, Use, Goto, CloseDialing
  <2>4. AttemptLeft'
    BY <1>9, <2>0 DEF TypeOK, AttemptLeft, Dialing, Redialing, FallBack, NoteDialFailure, ShareFirst, Use, Goto, CloseDialing
  <2>5. FirstIsOpen'
    BY <1>9, <2>0 DEF TypeOK, FirstIsOpen, Dialing, Redialing, FallBack, NoteDialFailure, ShareFirst, Use, Goto, CloseDialing
  <2>6. RedialOwnsClient'
    BY <1>9, <2>0 DEF TypeOK, RedialOwnsClient, Dialing, Redialing, FallBack, NoteDialFailure, ShareFirst, Use, Goto, CloseDialing
  <2>7. DialWaitersAreServed'
    BY <1>9, <2>0 DEF TypeOK, DialWaitersAreServed, FirstIsOpen, Dialing, Redialing, FallBack, NoteDialFailure, ShareFirst, Use, Goto, CloseDialing
  <2> QED BY <2>1, <2>2, <2>3, <2>4, <2>5, <2>6, <2>7
<1>10. ASSUME NEW w \in Workers, OpReturns(w) PROVE Inv'
  <2>1. TypeOK'
    BY <1>10 DEF TypeOK, PCs, Dialing, Redialing, OpReturns, Fail, Return, Goto
  <2>2. Rest'
    BY <1>10 DEF TypeOK, DialMuHeld, DialOwnsSlot, AttemptLeft, FirstIsOpen, RedialOwnsClient, DialWaitersAreServed,
       Dialing, Redialing, OpReturns, Fail, Return, Goto
  <2> QED BY <2>1, <2>2
<1>11. ASSUME NEW w \in Workers, OpLost(w) PROVE Inv'
  <2>1. TypeOK'
    BY <1>11 DEF TypeOK, PCs, Dialing, Redialing, OpLost, Fail, Return, Goto
  <2>2. Rest'
    BY <1>11 DEF TypeOK, DialMuHeld, DialOwnsSlot, AttemptLeft, FirstIsOpen, RedialOwnsClient, DialWaitersAreServed,
       Dialing, Redialing, OpLost, Fail, Return, Goto
  <2> QED BY <2>1, <2>2
<1>12. ASSUME NEW w \in Workers, OpCancelled(w) PROVE Inv'
  <2>1. TypeOK'
    BY <1>12 DEF TypeOK, PCs, Dialing, Redialing, OpCancelled, Fail, Return, Goto
  <2>2. Rest'
    BY <1>12 DEF TypeOK, DialMuHeld, DialOwnsSlot, AttemptLeft, FirstIsOpen, RedialOwnsClient, DialWaitersAreServed,
       Dialing, Redialing, OpCancelled, Fail, Return, Goto
  <2> QED BY <2>1, <2>2
<1>13. ASSUME NEW w \in Workers, Backoff(w) PROVE Inv'
  <2>1. TypeOK'
    BY <1>13 DEF TypeOK, PCs, Dialing, Redialing, Backoff, Use, Fail, Return, Goto
  <2>2. Rest'
    BY <1>13 DEF TypeOK, DialMuHeld, DialOwnsSlot, AttemptLeft, FirstIsOpen, RedialOwnsClient, DialWaitersAreServed,
       Dialing, Redialing, Backoff, Use, Fail, Return, Goto
  <2> QED BY <2>1, <2>2
<1>14. ASSUME NEW w \in Workers, Reconnect(w) PROVE Inv'
  <2>1. TypeOK'
    BY <1>14 DEF TypeOK, PCs, Dialing, Redialing, AttemptLeft, Reconnect, Resume, Fail, Return, Goto, BeingRedialed, BudgetSpent, ChargeReconnect
  <2>2. DialMuHeld'
    BY <1>14 DEF TypeOK, DialMuHeld, Dialing, Redialing, Reconnect, Resume, Fail, Return, Goto, BeingRedialed, BudgetSpent, ChargeReconnect
  <2>3. DialOwnsSlot'
    BY <1>14 DEF TypeOK, DialOwnsSlot, Dialing, Redialing, Reconnect, Resume, Fail, Return, Goto, BeingRedialed, BudgetSpent, ChargeReconnect
  <2>4. AttemptLeft'
    BY <1>14 DEF TypeOK, AttemptLeft, Dialing, Redialing, Reconnect, Resume, Fail, Return, Goto, BeingRedialed, BudgetSpent, ChargeReconnect
  <2>5. FirstIsOpen'
    BY <1>14 DEF TypeOK, FirstIsOpen, Dialing, Redialing, Reconnect, Resume, Fail, Return, Goto, BeingRedialed, BudgetSpent, ChargeReconnect
  <2>6. RedialOwnsClient'
    BY <1>14 DEF TypeOK, RedialOwnsClient, Dialing, Redialing, Reconnect, Resume, Fail, Return, Goto, BeingRedialed, BudgetSpent, ChargeReconnect
  <2>7. DialWaitersAreServed'
    BY <1>14 DEF TypeOK, DialWaitersAreServed, Dialing, Redialing, Reconnect, Resume, Fail, Return, Goto, BeingRedialed, BudgetSpent, ChargeReconnect
  <2> QED BY <2>1, <2>2, <2>3, <2>4, <2>5, <2>6, <2>7
<1>15. ASSUME NEW w \in Workers, WaitRedial(w) PROVE Inv'
  <2>1. TypeOK'
    BY <1>15 DEF TypeOK, PCs, Dialing, Redialing, WaitRedial, Fail, Return, Goto
  <2>2. Rest'
    BY <1>15 DEF TypeOK, DialMuHeld, DialOwnsSlot, AttemptLeft, FirstIsOpen, RedialOwnsClient, DialWaitersAreServed,
       Dialing, Redialing, WaitRedial, Fail, Return, Goto
  <2> QED BY <2>1, <2>2
<1>16. ASSUME NEW w \in Workers, RedialWait(w) PROVE Inv'
  <2>1. TypeOK'
    BY <1>16 DEF TypeOK, PCs, Dialing, Redialing, RedialWait, Goto
  <2>2. Rest'
    BY <1>16 DEF TypeOK, DialMuHeld, DialOwnsSlot, AttemptLeft, FirstIsOpen, RedialOwnsClient, DialWaitersAreServed,
       Dialing, Redialing, RedialWait, Goto
  <2> QED BY <2>1, <2>2
<1>17. ASSUME NEW w \in Workers, LockRedial(w) PROVE Inv'
  <2>1. TypeOK'
    BY <1>17 DEF TypeOK, PCs, Dialing, Redialing, LockRedial, Goto, DialMuFree
  <2>2. Rest'
    BY <1>17 DEF TypeOK, DialMuHeld, DialOwnsSlot, AttemptLeft, FirstIsOpen, RedialOwnsClient, DialWaitersAreServed,
       Dialing, Redialing, LockRedial, Goto, DialMuFree
  <2> QED BY <2>1, <2>2
<1>18. ASSUME NEW w \in Workers, RedialEnds(w) PROVE Inv'
  <2>1. TypeOK'
    BY <1>18 DEF TypeOK, PCs, Dialing, Redialing, RedialEnds, Goto
  <2>2. Rest'
    BY <1>18 DEF TypeOK, DialMuHeld, DialOwnsSlot, AttemptLeft, FirstIsOpen, RedialOwnsClient, DialWaitersAreServed,
       Dialing, Redialing, RedialEnds, Goto
  <2> QED BY <2>1, <2>2
<1>19. ASSUME NEW w \in Workers, InstallRedial(w) PROVE Inv'
  <2>1. TypeOK'
    BY <1>19 DEF TypeOK, PCs, Dialing, Redialing, AttemptLeft, InstallRedial, Resume, Fail, Return, Goto
  <2>2. DialMuHeld'
    BY <1>19 DEF TypeOK, DialMuHeld, Dialing, Redialing, InstallRedial, Resume, Fail, Return, Goto
  <2>3. DialOwnsSlot'
    BY <1>19 DEF TypeOK, DialOwnsSlot, Dialing, Redialing, InstallRedial, Resume, Fail, Return, Goto
  <2>4. AttemptLeft'
    BY <1>19 DEF TypeOK, AttemptLeft, Dialing, Redialing, InstallRedial, Resume, Fail, Return, Goto
  <2>5. FirstIsOpen'
    BY <1>19 DEF TypeOK, FirstIsOpen, Dialing, Redialing, InstallRedial, Resume, Fail, Return, Goto
  <2>6. RedialOwnsClient'
    BY <1>19 DEF TypeOK, RedialOwnsClient, Dialing, Redialing, InstallRedial, Resume, Fail, Return, Goto
  <2>7. DialWaitersAreServed'
    BY <1>19 DEF TypeOK, DialWaitersAreServed, Dialing, Redialing, InstallRedial, Resume, Fail, Return, Goto
  <2> QED BY <2>1, <2>2, <2>3, <2>4, <2>5, <2>6, <2>7
<1>20. ASSUME Fire PROVE Inv'
  <2>1. TypeOK'
    BY <1>20 DEF TypeOK, PCs, Dialing, Redialing, Fire
  <2>2. Rest'
    BY <1>20 DEF TypeOK, DialMuHeld, DialOwnsSlot, AttemptLeft, FirstIsOpen, RedialOwnsClient, DialWaitersAreServed,
       Dialing, Redialing, Fire
  <2> QED BY <2>1, <2>2
<1>21. ASSUME CloseSSHSnapshot PROVE Inv'
  <2>1. TypeOK'
    BY <1>21 DEF TypeOK, PCs, Dialing, Redialing, CloseSSHSnapshot, OpenConns
  <2>2. Rest'
    BY <1>21 DEF TypeOK, DialMuHeld, DialOwnsSlot, AttemptLeft, FirstIsOpen, RedialOwnsClient, DialWaitersAreServed,
       Dialing, Redialing, CloseSSHSnapshot, OpenConns
  <2> QED BY <2>1, <2>2
<1>22. ASSUME CloseSSH PROVE Inv'
  <2>1. TypeOK'
    BY <1>22 DEF TypeOK, PCs, Dialing, Redialing, CloseSSH
  <2>2. Rest'
    BY <1>22 DEF TypeOK, DialMuHeld, DialOwnsSlot, AttemptLeft, FirstIsOpen, RedialOwnsClient, DialWaitersAreServed,
       Dialing, Redialing, CloseSSH
  <2> QED BY <2>1, <2>2
<1>23. ASSUME Observe PROVE Inv'
  <2>1. TypeOK'
    BY <1>23 DEF TypeOK, PCs, Dialing, Redialing, Observe, Least
  <2>2. Rest'
    BY <1>23 DEF TypeOK, DialMuHeld, DialOwnsSlot, AttemptLeft, FirstIsOpen, RedialOwnsClient, DialWaitersAreServed,
       Dialing, Redialing, Observe, Least
  <2> QED BY <2>1, <2>2
<1>24. ASSUME Apply PROVE Inv'
  <2>1. TypeOK'
    BY <1>24 DEF TypeOK, PCs, Dialing, Redialing, Apply, SetSpread, Least
  <2>2. Rest'
    BY <1>24 DEF TypeOK, DialMuHeld, DialOwnsSlot, AttemptLeft, FirstIsOpen, RedialOwnsClient, DialWaitersAreServed,
       Dialing, Redialing, Apply, SetSpread, Least
  <2> QED BY <2>1, <2>2
<1>25. ASSUME NEW c \in Slots, Drop(c) PROVE Inv'
  <2>1. TypeOK'
    BY <1>25 DEF TypeOK, PCs, Dialing, Redialing, Drop
  <2>2. Rest'
    BY <1>25 DEF TypeOK, DialMuHeld, DialOwnsSlot, AttemptLeft, FirstIsOpen, RedialOwnsClient, DialWaitersAreServed,
       Dialing, Redialing, Drop
  <2> QED BY <2>1, <2>2
<1>26. ASSUME Interrupt PROVE Inv'
  <2>1. TypeOK'
    BY <1>26 DEF TypeOK, PCs, Dialing, Redialing, Interrupt
  <2>2. Rest'
    BY <1>26 DEF TypeOK, DialMuHeld, DialOwnsSlot, AttemptLeft, FirstIsOpen, RedialOwnsClient, DialWaitersAreServed,
       Dialing, Redialing, Interrupt
  <2> QED BY <2>1, <2>2
<1>27. CASE Ended \/ UNCHANGED vars
  BY <1>27 DEF TypeOK, DialMuHeld, DialOwnsSlot, AttemptLeft, FirstIsOpen, RedialOwnsClient, DialWaitersAreServed, Ended
<1> QED
  BY <1>1, <1>2, <1>3, <1>4, <1>5, <1>6, <1>7, <1>8, <1>9, <1>10, <1>11, <1>12, <1>13, <1>14, <1>15, <1>16, <1>17, <1>18, <1>19, <1>20, <1>21, <1>22, <1>23, <1>24, <1>25, <1>26, <1>27
     DEF Next, Code

\* The inductive invariant holds in every reachable state.
THEOREM SessionInv == Spec => []Inv
  BY InitInv, NextInv, PTL DEF Spec

\* Type correctness of the session: in particular the spread stays within the
\* allocated slots through every refusal, and no upload starts more attempts
\* than the retries input allows.
THEOREM SessionTypeOK == Spec => []TypeOK
<1>1. Inv => TypeOK
  BY DEF Inv
<1> QED BY <1>1, SessionInv, PTL

\* One handshake at a time, for any number of workers and slots.
THEOREM SessionOneHandshake == Spec => []OneHandshake
<1>1. Inv => OneHandshake
  BY NamesAssumption DEF Inv, DialMuHeld, OneHandshake
<1> QED BY <1>1, SessionInv, PTL

\* A worker inside redial owns the connection and the client it is replacing.
THEOREM SessionRedialOwnsClient == Spec => []RedialOwnsClient
<1>1. Inv => RedialOwnsClient
  BY DEF Inv
<1> QED BY <1>1, SessionInv, PTL

\* A slot is dialed by one worker at a time, and only while it is empty.
THEOREM SessionOneDialPerSlot == Spec => []OneDialPerSlot
<1>1. Inv => OneDialPerSlot
  BY DEF Inv, DialOwnsSlot, OneDialPerSlot
<1> QED BY <1>1, SessionInv, PTL

\* No worker waits on a first dial that nobody is making.
THEOREM SessionDialWaitersAreServed == Spec => []DialWaitersAreServed
<1>1. Inv => DialWaitersAreServed
  BY DEF Inv
<1> QED BY <1>1, SessionInv, PTL

-----------------------------------------------------------------------------
\* Only three steps touch what a redial costs: the one that starts it, the one
\* that installs its client and the one that gives it up.
LEMMA WhoPays ==
    ASSUME Inv, [Next]_vars
    PROVE  \/ UNCHANGED <<gen, redialing, reconnects>>
           \/ \E w \in Workers :
                /\ at[w] \in Slots
                /\ redialing[at[w]] = None
                /\ redialing' = [redialing EXCEPT ![at[w]] = w]
                /\ reconnects' = reconnects + 1 /\ gen' = gen
           \/ \E w \in Workers :
                /\ at[w] \in Slots
                /\ redialing[at[w]] = w /\ pc[w] = "redialed" /\ ~Killed(w)
                /\ redialing' = [redialing EXCEPT ![at[w]] = None]
                /\ gen' = [gen EXCEPT ![at[w]] = @ + 1] /\ reconnects' = reconnects
           \/ \E w \in Workers :
                /\ at[w] \in Slots
                /\ redialing' = [redialing EXCEPT ![at[w]] = None]
                /\ gen' = gen /\ reconnects' = reconnects
<1> USE DEF pool, link
<1>1. ASSUME NEW w \in Workers, Reconnect(w)
      PROVE  \/ UNCHANGED <<gen, redialing, reconnects>>
             \/ /\ at[w] \in Slots
                /\ redialing[at[w]] = None
                /\ redialing' = [redialing EXCEPT ![at[w]] = w]
                /\ reconnects' = reconnects + 1 /\ gen' = gen
  BY <1>1 DEF Reconnect, BeingRedialed, ChargeReconnect, Inv, TypeOK
<1>2. ASSUME NEW w \in Workers, InstallRedial(w)
      PROVE  \/ /\ at[w] \in Slots
                /\ redialing[at[w]] = w /\ pc[w] = "redialed" /\ ~Killed(w)
                /\ redialing' = [redialing EXCEPT ![at[w]] = None]
                /\ gen' = [gen EXCEPT ![at[w]] = @ + 1] /\ reconnects' = reconnects
             \/ /\ at[w] \in Slots
                /\ redialing' = [redialing EXCEPT ![at[w]] = None]
                /\ gen' = gen /\ reconnects' = reconnects
  BY <1>2 DEF InstallRedial, MayInstall, Inv, TypeOK, RedialOwnsClient, Redialing
<1>3. ASSUME NEW w \in Workers,
             \/ StartFile(w) \/ StartOp(w) \/ Acquire(w) \/ WaitDial(w) \/ LockDial(w)
             \/ DialEnds(w) \/ InstallDial(w) \/ FallBack(w) \/ OpReturns(w) \/ OpLost(w)
             \/ OpCancelled(w) \/ Backoff(w) \/ WaitRedial(w) \/ RedialWait(w)
             \/ LockRedial(w) \/ RedialEnds(w)
      PROVE  UNCHANGED <<gen, redialing, reconnects>>
  BY <1>3 DEF StartFile, StartOp, Acquire, WaitDial, LockDial, DialEnds, InstallDial, FallBack, NoteDialFailure, ShareFirst,
              OpReturns, OpLost, OpCancelled, Backoff, WaitRedial, RedialWait, LockRedial, RedialEnds
<1>4. ASSUME \/ StartRecovery \/ Fire \/ CloseSSHSnapshot \/ CloseSSH \/ Observe \/ Apply
             \/ (\E c \in Slots : Drop(c)) \/ Interrupt \/ Ended \/ UNCHANGED vars
      PROVE  UNCHANGED <<gen, redialing, reconnects>>
  BY <1>4 DEF StartRecovery, Fire, CloseSSHSnapshot, CloseSSH, Observe, Apply, Drop, Interrupt,
              Ended, vars
<1> QED BY <1>1, <1>2, <1>3, <1>4 DEF Next, Code

PaidInv == IsFiniteSet(Redialed) /\ RedialsArePaidFor

LEMMA PaidStep == ASSUME Inv, PaidInv, [Next]_vars PROVE PaidInv'
<1> DEFINE flying == BeingRedialedNow
<1> USE DEF PaidInv
<1>0. /\ gen \in [Slots -> Nat] /\ redialing \in [Slots -> Workers \cup {None}]
      /\ reconnects \in Nat /\ None \notin Workers
  BY NamesAssumption, SizesAssumption DEF Inv, TypeOK
<1>1. /\ IsFiniteSet(flying) /\ Cardinality(flying) \in Nat /\ Cardinality(Redialed) \in Nat
  BY SlotsFacts, FS_Subset, FS_CardinalityType DEF BeingRedialedNow
<1>2. CASE UNCHANGED <<gen, redialing, reconnects>>
  BY <1>2 DEF RedialsArePaidFor, Redialed, BeingRedialedNow
<1>3. ASSUME NEW w \in Workers, at[w] \in Slots, redialing[at[w]] = None,
             redialing' = [redialing EXCEPT ![at[w]] = w],
             reconnects' = reconnects + 1, gen' = gen
      PROVE  PaidInv'
  <2>1. flying' = flying \cup {at[w]} /\ at[w] \notin flying
    BY <1>0, <1>3 DEF BeingRedialedNow
  <2>2. Redialed' = Redialed
    BY <1>3 DEF Redialed
  <2>3. Cardinality(flying') = Cardinality(flying) + 1
    BY <1>1, <2>1, FS_AddElement
  <2> QED BY <1>0, <1>1, <1>3, <2>2, <2>3 DEF RedialsArePaidFor
<1>4. ASSUME NEW w \in Workers, at[w] \in Slots, redialing[at[w]] = w,
             redialing' = [redialing EXCEPT ![at[w]] = None],
             gen' = [gen EXCEPT ![at[w]] = @ + 1], reconnects' = reconnects
      PROVE  PaidInv'
  <2> DEFINE new == <<at[w], gen[at[w]] + 1>>
  <2>1. flying' = flying \ {at[w]} /\ at[w] \in flying
    BY <1>0, <1>4 DEF BeingRedialedNow
  <2>2. Redialed' = Redialed \cup {new} /\ new \notin Redialed
    <3>1. \A p : p \in Redialed <=> \E c \in Slots : \E g \in 1 .. gen[c] : p = <<c, g>>
      BY DEF Redialed
    <3>2. \A p : p \in Redialed' <=> \E c \in Slots : \E g \in 1 .. gen'[c] : p = <<c, g>>
      BY DEF Redialed
    <3>3. \A c \in Slots : gen'[c] = IF c = at[w] THEN gen[c] + 1 ELSE gen[c]
      BY <1>0, <1>4
    <3>4. new \notin Redialed
      BY <1>0, <1>4, <3>1
    <3>5. ASSUME NEW p, p \in Redialed' PROVE p \in Redialed \cup {new}
      BY <1>0, <1>4, <3>1, <3>2, <3>3, <3>5
    <3>6. new \in Redialed'
      BY <1>0, <1>4, <3>2, <3>3
    <3>7. ASSUME NEW p \in Redialed PROVE p \in Redialed'
      BY <1>0, <1>4, <3>1, <3>2, <3>3
    <3> QED BY <3>4, <3>5, <3>6, <3>7
  <2>3. Cardinality(flying') = Cardinality(flying) - 1
    BY <1>1, <2>1, FS_RemoveElement
  <2>4. IsFiniteSet(Redialed') /\ Cardinality(Redialed') = Cardinality(Redialed) + 1
    BY <2>2, FS_AddElement
  <2> QED BY <1>0, <1>1, <1>4, <2>3, <2>4 DEF RedialsArePaidFor
<1>5. ASSUME NEW w \in Workers, at[w] \in Slots,
             redialing' = [redialing EXCEPT ![at[w]] = None],
             gen' = gen, reconnects' = reconnects
      PROVE  PaidInv'
  <2>1. flying' \subseteq flying
    BY <1>0, <1>5 DEF BeingRedialedNow
  <2>2. Redialed' = Redialed
    BY <1>5 DEF Redialed
  <2>3. Cardinality(flying') <= Cardinality(flying) /\ Cardinality(flying') \in Nat
    BY <1>1, <2>1, FS_Subset, FS_CardinalityType
  <2> QED BY <1>0, <1>1, <1>5, <2>2, <2>3 DEF RedialsArePaidFor
<1> QED BY <1>2, <1>3, <1>4, <1>5, WhoPays

\* The retries input bounds the redials of the whole pool, whatever the number
\* of connections and however their failures interleave.
THEOREM SessionRedialsArePaidFor == Spec => []RedialsArePaidFor
<1>1. Init => PaidInv
  <2> SUFFICES ASSUME Init PROVE PaidInv
    OBVIOUS
  <2>1. Redialed = {}
    BY SizesAssumption DEF Init, Redialed
  <2>2. BeingRedialedNow = {}
    BY DEF Init, BeingRedialedNow
  <2> QED BY <2>1, <2>2, FS_EmptySet DEF PaidInv, RedialsArePaidFor, Init
<1>2. Inv /\ PaidInv /\ [Next]_vars => PaidInv'
  BY PaidStep
<1>3. PaidInv => RedialsArePaidFor
  BY DEF PaidInv
<1> QED BY <1>1, <1>2, <1>3, SessionInv, PTL DEF Spec

\* A run killed by the watchdog installs no redialed client, except for the
\* recovery manifest's documented one.
THEOREM SessionNoRedialAfterKill == Spec => NoRedialAfterKill
<1>1. ASSUME Inv, [Next]_vars, NEW c \in Slots, gen'[c] > gen[c], fired
      PROVE  redialing[c] = Recovery /\ unwatched
  <2>1. gen \in [Slots -> Nat]
    BY <1>1 DEF Inv, TypeOK
  <2>2. PICK w \in Workers :
            /\ at[w] \in Slots
            /\ redialing[at[w]] = w /\ pc[w] = "redialed" /\ ~Killed(w)
            /\ gen' = [gen EXCEPT ![at[w]] = @ + 1]
    BY <1>1, <2>1, WhoPays
  <2>3. c = at[w]
    BY <1>1, <2>1, <2>2
  <2> QED BY <1>1, <2>2, <2>3 DEF Killed, Watched
<1>2. Inv /\ [Next]_vars
        => [\A c \in Slots :
              gen'[c] > gen[c] /\ fired => redialing[c] = Recovery /\ unwatched]_vars
  BY <1>1
<1> QED BY <1>2, SessionInv, PTL DEF Spec, NoRedialAfterKill
============================================================================
