------------------------- MODULE TransactionProofs -------------------------
(***************************************************************************)
(* Theorems about the journal protocol of module Transaction, for any      *)
(* number of processes, worktrees, paths and transactions: its safety      *)
(* first, then what it publishes.  Contents stay in the worktree they were *)
(* written for, Transact implements the atomic commit of module            *)
(* AtomicCommit, and what a person saves into a record meanwhile is set    *)
(* aside.                                                                  *)
(***************************************************************************)
EXTENDS Transaction, TLAPS

USE HomeAssumption, NoneAssumption, BoundsAssumption, ChangesAssumption

-----------------------------------------------------------------------------
(* Types.                                                                  *)

Operation == [seen : [Paths -> Content], left : SUBSET Paths,
              plan : [Paths -> {"keep", "write", "delete"}],
              cur : TxIds \cup {0}, mine : TxIds \cup {0}]

Journal == [worktree : Worktrees \cup {None},
            old : [Paths -> Content], new : [Paths -> Content]]

LEMMA ContentTypes ==
    /\ Absent \in Content /\ Original \in Content
    /\ \A t \in TxIds : Written(t) \in Content
    /\ \A n \in 1 .. MaxEdits : Edited(n) \in Content
BY DEF Content

LEMMA NoOperationType == NoOperation \in Operation
BY ContentTypes DEF NoOperation, Operation, Nothing, Keep

LEMMA NoJournalType == NoJournal \in Journal
BY ContentTypes DEF NoJournal, Journal, Nothing

\* Steps of a process that works on one transaction.
Publishing == {"check", "swap", "displaced", "sync", "verify"}
Working == Publishing \cup {"marksync", "stage", "journalsync"}

(* Types of lock, pc and op; whoever works on a transaction has one.       *)
ProcTypes ==
    /\ lock \in Procs \cup {None}
    /\ pc \in [Procs -> Step]
    /\ op \in [Procs -> Operation]
    /\ \A p \in Procs : pc[p] \in Working => op[p].cur \in TxIds

DurableTypes ==
    /\ disk \in [Worktrees -> [Paths -> Content]]
    /\ stable \in [Worktrees -> [Paths -> Content]]
    /\ temp \in [Worktrees -> [Paths -> Content]]
    /\ phase \in [TxIds -> Phase]
    /\ stablePhase \in [TxIds -> Phase]
    /\ journal \in [TxIds -> Journal]
    /\ staged \in [TxIds -> SUBSET Paths]

FaultTypes ==
    /\ acked \subseteq TxIds
    /\ crashes \in 0 .. MaxCrashes
    /\ edits \in 0 .. MaxEdits

TypeInv == ProcTypes /\ DurableTypes /\ FaultTypes

LEMMA TypeParts == TypeInv => TypeOK
  BY DEF TypeInv, TypeOK, ProcTypes, DurableTypes, FaultTypes, Operation, Journal

LEMMA ReleaseType ==
  ASSUME ProcTypes, NEW p \in Procs, Release(p) PROVE ProcTypes'
  BY NoOperationType DEF ProcTypes, Release, Goto, Step, Working, Publishing

LEMMA TypeInit == Init => TypeInv
<1> SUFFICES ASSUME Init PROVE ProcTypes /\ DurableTypes /\ FaultTypes
    BY DEF TypeInv
<1> USE DEF Init
<1>1. ProcTypes
    BY NoOperationType DEF ProcTypes, Step, Working, Publishing
<1>2. DurableTypes
  <2>1. disk \in [Worktrees -> [Paths -> Content]]
    BY ContentTypes
  <2>2. temp \in [Worktrees -> [Paths -> Content]]
    BY ContentTypes DEF Nothing
  <2> QED BY <2>1, <2>2, NoJournalType DEF DurableTypes, Phase
<1>3. FaultTypes
    BY DEF FaultTypes
<1> QED BY <1>1, <1>2, <1>3

LEMMA TypeStep == TypeInv /\ [Next]_vars => TypeInv'
<1> SUFFICES ASSUME ProcTypes, DurableTypes, FaultTypes, [Next]_vars
             PROVE  ProcTypes' /\ DurableTypes' /\ FaultTypes'
    BY DEF TypeInv
<1> USE ContentTypes, NoOperationType, ReleaseType
   DEF durableVars, procVars, faultVars
<1>0. CASE UNCHANGED vars BY <1>0 DEF vars, ProcTypes, DurableTypes, FaultTypes
<1>1. ASSUME NEW p \in Procs, StartScan(p)
       PROVE  ProcTypes' /\ DurableTypes' /\ FaultTypes'
  <2>1. ProcTypes'
    BY <1>1 DEF StartScan, ProcTypes, Operation, Goto, Release, Step, Working,
           Publishing
  <2>2. DurableTypes'
    BY <1>1 DEF StartScan, DurableTypes, ProcTypes, Operation, Journal, Phase
  <2>3. FaultTypes'
    BY <1>1 DEF StartScan, FaultTypes, ProcTypes, Operation
  <2> QED BY <2>1, <2>2, <2>3
<1>2. ASSUME NEW p \in Procs, ScanPath(p)
       PROVE  ProcTypes' /\ DurableTypes' /\ FaultTypes'
  <2>1. ProcTypes'
    BY <1>2 DEF ScanPath, IsNext, IsFirst, Here, ProcTypes, Operation, Goto,
           Release, Step, Working, Publishing
  <2>2. DurableTypes'
    BY <1>2 DEF ScanPath, IsNext, IsFirst, Here, DurableTypes, ProcTypes,
           Operation, Journal, Phase
  <2>3. FaultTypes'
    BY <1>2 DEF ScanPath, IsNext, IsFirst, Here, FaultTypes, ProcTypes, Operation
  <2> QED BY <2>1, <2>2, <2>3
<1>3. ASSUME NEW p \in Procs, EndScan(p)
       PROVE  ProcTypes' /\ DurableTypes' /\ FaultTypes'
  <2>1. ProcTypes'
    <3>1. CASE InspectOK(Home[p])
      BY <1>3, <3>1 DEF EndScan, ProcTypes, Goto, Step, Working, Publishing
    <3>2. CASE ~InspectOK(Home[p])
      BY <1>3, <3>2 DEF EndScan, ProcTypes, Goto, Step, Working, Publishing
    <3> QED BY <3>1, <3>2
  <2>2. DurableTypes'
    BY <1>3 DEF EndScan, DurableTypes, ProcTypes, Operation, Journal, Phase
  <2>3. FaultTypes'
    BY <1>3 DEF EndScan, FaultTypes, ProcTypes, Operation
  <2> QED BY <2>1, <2>2, <2>3
<1>4. ASSUME NEW p \in Procs, Request(p)
       PROVE  ProcTypes' /\ DurableTypes' /\ FaultTypes'
  <2>1. ProcTypes'
    <3>1. PICK change \in [Paths -> Changes \cup {"keep"}] :
              op' = [op EXCEPT ![p].plan = change]
      BY <1>4 DEF Request
    <3>2. change \in [Paths -> {"keep", "write", "delete"}]
      OBVIOUS
    <3>3. op' \in [Procs -> Operation]
      BY <3>1, <3>2 DEF ProcTypes, Operation
    <3> QED BY <1>4, <3>3 DEF Request, ProcTypes, Goto, Step, Working, Publishing
  <2>2. DurableTypes'
    BY <1>4 DEF Request, Keep, DurableTypes, ProcTypes, Operation, Journal, Phase
  <2>3. FaultTypes'
    BY <1>4 DEF Request, Keep, FaultTypes, ProcTypes, Operation
  <2> QED BY <2>1, <2>2, <2>3
<1>5. ASSUME NEW p \in Procs, Discard(p)
       PROVE  ProcTypes' /\ DurableTypes' /\ FaultTypes'
  <2>1. ProcTypes'
    BY <1>5 DEF Discard, ProcTypes, Operation, Goto, Release, Step, Working,
           Publishing
  <2>2. DurableTypes'
    BY <1>5 DEF Discard, DurableTypes, ProcTypes, Operation, Journal, Phase
  <2>3. FaultTypes'
    BY <1>5 DEF Discard, FaultTypes, ProcTypes, Operation
  <2> QED BY <2>1, <2>2, <2>3
<1>6. ASSUME NEW p \in Procs, Recover(p)
       PROVE  ProcTypes' /\ DurableTypes' /\ FaultTypes'
  <2>1. ProcTypes'
    BY <1>6 DEF Recover, ProcTypes, Operation, Goto, Release, Step, Working,
           Publishing
  <2>2. DurableTypes'
    BY <1>6 DEF Recover, DurableTypes, ProcTypes, Operation, Journal, Phase
  <2>3. FaultTypes'
    BY <1>6 DEF Recover, FaultTypes, ProcTypes, Operation
  <2> QED BY <2>1, <2>2, <2>3
<1>7. ASSUME NEW p \in Procs, Acquire(p)
       PROVE  ProcTypes' /\ DurableTypes' /\ FaultTypes'
  <2>1. ProcTypes'
    BY <1>7 DEF Acquire, Removed, Nothing, ProcTypes, Operation, Goto,
           Release, Step, Working, Publishing
  <2>2. DurableTypes'
    BY <1>7 DEF Acquire, Removed, Nothing, DurableTypes, ProcTypes, Operation,
           Journal, Phase
  <2>3. FaultTypes'
    BY <1>7 DEF Acquire, Removed, Nothing, FaultTypes, ProcTypes, Operation
  <2> QED BY <2>1, <2>2, <2>3
<1>8. ASSUME NEW p \in Procs, Load(p)
       PROVE  ProcTypes' /\ DurableTypes' /\ FaultTypes'
  <2>1. ProcTypes'
    <3>1. CASE Goto(p, "advance") /\ UNCHANGED <<lock, op>>
      BY <3>1 DEF ProcTypes, Goto, Step, Working, Publishing
    <3>2. CASE Release(p)
      BY <3>2
    <3> QED BY <1>8, <3>1, <3>2 DEF Load
  <2>2. DurableTypes'
    BY <1>8 DEF Load, DurableTypes, ProcTypes, Operation, Journal, Phase
  <2>3. FaultTypes'
    BY <1>8 DEF Load, FaultTypes, ProcTypes, Operation
  <2> QED BY <2>1, <2>2, <2>3
<1>9. ASSUME NEW p \in Procs, Advance(p)
       PROVE  ProcTypes' /\ DurableTypes' /\ FaultTypes'
  <2>1. ProcTypes'
    <3>1. PICK t \in TxIds : op' = [op EXCEPT ![p].cur = t, ![p].left = Entries(t)]
      BY <1>9 DEF Advance, Pending
    <3>2. op' \in [Procs -> Operation]
      BY <3>1 DEF ProcTypes, Operation, Entries
    <3>3. op'[p].cur = t /\ \A r \in Procs \ {p} : op'[r] = op[r]
      BY <3>1 DEF ProcTypes, Operation
    <3> QED BY <1>9, <3>2, <3>3
       DEF Advance, ProcTypes, Goto, Step, Working, Publishing
  <2>2. DurableTypes'
    BY <1>9 DEF Advance, Entries, IsFirst, Pending, DurableTypes, ProcTypes,
           Operation, Journal, Phase
  <2>3. FaultTypes'
    BY <1>9 DEF Advance, Entries, IsFirst, Pending, FaultTypes, ProcTypes,
           Operation
  <2> QED BY <2>1, <2>2, <2>3
<1>10. ASSUME NEW p \in Procs, NothingPending(p)
       PROVE  ProcTypes' /\ DurableTypes' /\ FaultTypes'
  <2>1. ProcTypes'
    BY <1>10 DEF NothingPending, ProcTypes, Operation, Goto, Release, Step,
           Working, Publishing
  <2>2. DurableTypes'
    BY <1>10 DEF NothingPending, DurableTypes, ProcTypes, Operation, Journal,
           Phase
  <2>3. FaultTypes'
    BY <1>10 DEF NothingPending, FaultTypes, ProcTypes, Operation
  <2> QED BY <2>1, <2>2, <2>3
<1>11. ASSUME NEW p \in Procs, CheckEntry(p)
       PROVE  ProcTypes' /\ DurableTypes' /\ FaultTypes'
  <2>1. ProcTypes'
    <3>1. PICK q \in op[p].left :
            \/ PassNext(p, q) /\ UNCHANGED <<lock, pc>>
            \/ Goto(p, "swap") /\ UNCHANGED <<lock, op>>
            \/ Release(p)
      BY <1>11 DEF CheckEntry
    <3>2. CASE PassNext(p, q) /\ UNCHANGED <<lock, pc>>
      BY <3>2 DEF PassNext, ProcTypes, Operation, Working, Publishing
    <3>3. CASE Goto(p, "swap") /\ UNCHANGED <<lock, op>>
      BY <1>11, <3>3 DEF CheckEntry, Goto, ProcTypes, Step, Working, Publishing
    <3>4. CASE Release(p)
      BY <3>4
    <3> QED BY <3>1, <3>2, <3>3, <3>4
  <2>2. DurableTypes'
    BY <1>11 DEF CheckEntry, PassNext, DurableTypes, ProcTypes, Operation,
           Journal, Phase
  <2>3. FaultTypes'
    BY <1>11 DEF CheckEntry, PassNext, FaultTypes, ProcTypes, Operation
  <2> QED BY <2>1, <2>2, <2>3
<1>12. ASSUME NEW p \in Procs, Swap(p)
       PROVE  ProcTypes' /\ DurableTypes' /\ FaultTypes'
  <2>1. ProcTypes'
    <3>1. pc[p] = "swap"
      BY <1>12 DEF Swap
    <3>2. CASE Goto(p, "sync") /\ UNCHANGED <<lock, op>>
      BY <3>1, <3>2 DEF ProcTypes, Goto, Step, Working, Publishing
    <3>3. CASE Goto(p, "displaced") /\ UNCHANGED <<lock, op>>
      BY <3>1, <3>3 DEF ProcTypes, Goto, Step, Working, Publishing
    <3>4. CASE Release(p)
      BY <3>4
    <3> QED BY <1>12, <3>2, <3>3, <3>4
            DEF Swap, LinkNew, Exchange, Unlink, SwapFails
  <2>2. DurableTypes'
    <3>1. PICK q \in Paths :
            LinkNew(p, q) \/ Exchange(p, q) \/ Unlink(p, q) \/ SwapFails(p, q)
      BY <1>12 DEF Swap, ProcTypes, Operation
    <3>2. Will(p)[q] \in Content /\ Here(p)[q] \in Content
      BY <1>12 DEF Swap, Here, Will, ProcTypes, DurableTypes,
                   Operation, Journal, Working, Publishing
    <3>3. UNCHANGED <<stable, phase, stablePhase, journal, staged>>
      BY <1>12 DEF Swap
    <3>4. CASE LinkNew(p, q)
      BY <3>2, <3>3, <3>4, ContentTypes DEF LinkNew, SetDisk, DurableTypes
    <3>5. CASE Exchange(p, q)
      BY <3>2, <3>3, <3>5, ContentTypes
         DEF Exchange, SetDisk, SetTemp, DurableTypes
    <3>6. CASE Unlink(p, q)
      BY <3>2, <3>3, <3>6, ContentTypes DEF Unlink, SetDisk, DurableTypes
    <3>7. CASE SwapFails(p, q)
      BY <3>2, <3>3, <3>7, ContentTypes DEF SwapFails, SetDisk, DurableTypes
    <3> QED BY <3>1, <3>4, <3>5, <3>6, <3>7
  <2>3. FaultTypes'
    BY <1>12 DEF Swap, LinkNew, Exchange, Unlink, SwapFails, SetDisk, SetTemp,
           Here, Will, IsNext, IsFirst, FaultTypes, ProcTypes, Operation
  <2> QED BY <2>1, <2>2, <2>3
<1>13. ASSUME NEW p \in Procs, Displaced(p)
       PROVE  ProcTypes' /\ DurableTypes' /\ FaultTypes'
  <2>1. ProcTypes'
    BY <1>13 DEF Displaced, KeepExchange, ExchangeBack, ExchangeStuck,
           SetTemp, SetDisk, SetStable, IsNext, IsFirst, Here, ProcTypes,
           Operation, Goto, Release, Step, Working, Publishing
  <2>2. DurableTypes'
    <3>1. PICK q \in Paths :
            KeepExchange(p, q) \/ ExchangeBack(p, q) \/ ExchangeStuck(p, q)
      BY <1>13 DEF Displaced, ProcTypes, Operation
    <3> DEFINE back == temp[Home[p]][q]
               aside == IF Here(p)[q] = Will(p)[q] THEN Absent ELSE Here(p)[q]
    <3>2. back \in Content /\ aside \in Content
      BY DEF Here, DurableTypes
    <3>3. CASE KeepExchange(p, q)
      BY <1>13, <3>3 DEF Displaced, KeepExchange, SetTemp, DurableTypes
    <3>4. CASE ExchangeBack(p, q)
      <4>1. /\ disk' = [disk EXCEPT ![Home[p]][q] = back]
            /\ stable' = [stable EXCEPT ![Home[p]][q] = back]
            /\ temp' = [temp EXCEPT ![Home[p]][q] = aside]
        BY <3>4 DEF ExchangeBack, SetDisk, SetStable, SetTemp
      <4> HIDE DEF back, aside
      <4> QED BY <1>13, <3>2, <4>1 DEF Displaced, DurableTypes
    <3>5. CASE ExchangeStuck(p, q)
      BY <1>13, <3>5 DEF Displaced, ExchangeStuck, DurableTypes
    <3> QED BY <3>1, <3>3, <3>4, <3>5
  <2>3. FaultTypes'
    BY <1>13 DEF Displaced, KeepExchange, ExchangeBack, ExchangeStuck,
           SetTemp, SetDisk, SetStable, IsNext, IsFirst, Here, FaultTypes,
           ProcTypes, Operation
  <2> QED BY <2>1, <2>2, <2>3
<1>14. ASSUME NEW p \in Procs, SyncEntry(p)
       PROVE  ProcTypes' /\ DurableTypes' /\ FaultTypes'
  <2>1. ProcTypes'
    BY <1>14 DEF SyncEntry, IsNext, IsFirst, SetStable, Here, ProcTypes,
           Operation, Goto, Release, Step, Working, Publishing
  <2>2. DurableTypes'
    BY <1>14 DEF SyncEntry, IsNext, IsFirst, SetStable, Here, DurableTypes,
           ProcTypes, Operation, Journal, Phase
  <2>3. FaultTypes'
    BY <1>14 DEF SyncEntry, IsNext, IsFirst, SetStable, Here, FaultTypes,
           ProcTypes, Operation
  <2> QED BY <2>1, <2>2, <2>3
<1>15. ASSUME NEW p \in Procs, VerifyEntry(p)
       PROVE  ProcTypes' /\ DurableTypes' /\ FaultTypes'
  <2>1. ProcTypes'
    <3>1. PICK q \in op[p].left :
            \/ PassNext(p, q) /\ Goto(p, "check") /\ UNCHANGED lock
            \/ Release(p)
      BY <1>15 DEF VerifyEntry
    <3>2. CASE PassNext(p, q) /\ Goto(p, "check") /\ UNCHANGED lock
      <4>1. op' \in [Procs -> Operation] /\ op'[p].cur = op[p].cur
        BY <3>2 DEF PassNext, ProcTypes, Operation
      <4>2. \A r \in Procs \ {p} : op'[r] = op[r]
        BY <3>2 DEF PassNext, ProcTypes
      <4> QED BY <1>15, <3>2, <4>1, <4>2
              DEF VerifyEntry, Goto, ProcTypes, Step, Working, Publishing
    <3>3. CASE Release(p)
      BY <3>3
    <3> QED BY <3>1, <3>2, <3>3
  <2>2. DurableTypes'
    BY <1>15 DEF VerifyEntry, PassNext, DurableTypes, ProcTypes, Operation,
           Journal, Phase
  <2>3. FaultTypes'
    BY <1>15 DEF VerifyEntry, PassNext, FaultTypes, ProcTypes, Operation
  <2> QED BY <2>1, <2>2, <2>3
<1>16. ASSUME NEW p \in Procs, MarkCommitted(p)
       PROVE  ProcTypes' /\ DurableTypes' /\ FaultTypes'
  <2>1. ProcTypes'
    BY <1>16 DEF MarkCommitted, ProcTypes, Operation, Goto, Release, Step,
           Working, Publishing
  <2>2. DurableTypes'
    BY <1>16 DEF MarkCommitted, DurableTypes, ProcTypes, Operation, Journal, Phase
  <2>3. FaultTypes'
    BY <1>16 DEF MarkCommitted, FaultTypes, ProcTypes, Operation
  <2> QED BY <2>1, <2>2, <2>3
<1>17. ASSUME NEW p \in Procs, SyncMark(p)
       PROVE  ProcTypes' /\ DurableTypes' /\ FaultTypes'
  <2>1. ProcTypes'
    BY <1>17 DEF SyncMark, ProcTypes, Operation, Goto, Release, Step, Working,
           Publishing
  <2>2. DurableTypes'
    BY <1>17 DEF SyncMark, DurableTypes, ProcTypes, Operation, Journal, Phase
  <2>3. FaultTypes'
    BY <1>17 DEF SyncMark, FaultTypes, ProcTypes, Operation
  <2> QED BY <2>1, <2>2, <2>3
<1>18. ASSUME NEW p \in Procs, UnlinkJournal(p)
       PROVE  ProcTypes' /\ DurableTypes' /\ FaultTypes'
  <2>1. ProcTypes'
    BY <1>18 DEF UnlinkJournal, ProcTypes, Operation, Goto, Release, Step,
           Working, Publishing
  <2>2. DurableTypes'
    BY <1>18 DEF UnlinkJournal, Committed, DurableTypes, Phase
  <2>3. FaultTypes'
    BY <1>18 DEF UnlinkJournal, FaultTypes, ProcTypes, Operation
  <2> QED BY <2>1, <2>2, <2>3
<1>19. ASSUME NEW p \in Procs, RemoveDirectory(p)
       PROVE  ProcTypes' /\ DurableTypes' /\ FaultTypes'
  <2>1. ProcTypes'
    BY <1>19 DEF RemoveDirectory, ProcTypes, Operation, Goto, Release, Step,
           Working, Publishing
  <2>2. DurableTypes'
    BY <1>19 DEF RemoveDirectory, Unlinked, DurableTypes, Phase
  <2>3. FaultTypes'
    BY <1>19 DEF RemoveDirectory, FaultTypes, ProcTypes, Operation
  <2> QED BY <2>1, <2>2, <2>3
<1>20. ASSUME NEW p \in Procs, Finish(p)
       PROVE  ProcTypes' /\ DurableTypes' /\ FaultTypes'
  <2>1. ProcTypes'
    BY <1>20 DEF Finish, ProcTypes, Operation, Goto, Release, Step, Working,
           Publishing
  <2>2. DurableTypes'
    BY <1>20 DEF Finish, DurableTypes, ProcTypes, Operation, Journal, Phase
  <2>3. FaultTypes'
    BY <1>20 DEF Finish, FaultTypes, ProcTypes, Operation
  <2> QED BY <2>1, <2>2, <2>3
<1>21. ASSUME NEW p \in Procs, Proceed(p)
       PROVE  ProcTypes' /\ DurableTypes' /\ FaultTypes'
  <2>1. ProcTypes'
    BY <1>21 DEF Proceed, ProcTypes, Operation, Goto, Release, Step, Working,
           Publishing
  <2>2. DurableTypes'
    BY <1>21 DEF Proceed, DurableTypes, ProcTypes, Operation, Journal, Phase
  <2>3. FaultTypes'
    BY <1>21 DEF Proceed, FaultTypes, ProcTypes, Operation
  <2> QED BY <2>1, <2>2, <2>3
<1>22. ASSUME NEW p \in Procs, Prepare(p)
       PROVE  ProcTypes' /\ DurableTypes' /\ FaultTypes'
  <2>1. ProcTypes'
    <3>1. PICK t \in TxIds : op' = [op EXCEPT ![p].cur = t, ![p].mine = t]
      BY <1>22 DEF Prepare, Free
    <3>2. op' \in [Procs -> Operation]
      BY <3>1 DEF ProcTypes, Operation
    <3>3. op'[p].cur = t /\ \A r \in Procs \ {p} : op'[r] = op[r]
      BY <3>1 DEF ProcTypes, Operation
    <3> QED BY <1>22, <3>2, <3>3
       DEF Prepare, ProcTypes, Goto, Step, Working, Publishing
  <2>2. DurableTypes'
    <3>1. PICK t \in TxIds :
            /\ phase' = [phase EXCEPT ![t] = "open"]
            /\ stablePhase' = [stablePhase EXCEPT ![t] = "open"]
            /\ journal' = [journal EXCEPT ![t] =
                  [worktree |-> Home[p], old |-> Here(p), new |-> NewContent(p, t)]]
      BY <1>22 DEF Prepare, Free
    <3>2. Here(p) \in [Paths -> Content]
      BY DEF Here, DurableTypes
    <3>3. NewContent(p, t) \in [Paths -> Content]
      BY <3>2 DEF NewContent
    <3>4. [worktree |-> Home[p], old |-> Here(p), new |-> NewContent(p, t)] \in Journal
      BY <3>2, <3>3 DEF Journal
    <3> QED BY <1>22, <3>1, <3>4 DEF Prepare, DurableTypes, Phase
  <2>3. FaultTypes'
    BY <1>22 DEF Prepare, Free, IsFirst, Here, NewContent, FaultTypes,
           ProcTypes, Operation
  <2> QED BY <2>1, <2>2, <2>3
<1>23. ASSUME NEW p \in Procs, Refuse(p)
       PROVE  ProcTypes' /\ DurableTypes' /\ FaultTypes'
  <2>1. ProcTypes'
    BY <1>23 DEF Refuse, ProcTypes, Operation, Goto, Release, Step, Working,
           Publishing
  <2>2. DurableTypes'
    BY <1>23 DEF Refuse, DurableTypes, ProcTypes, Operation, Journal, Phase
  <2>3. FaultTypes'
    BY <1>23 DEF Refuse, FaultTypes, ProcTypes, Operation
  <2> QED BY <2>1, <2>2, <2>3
<1>24. ASSUME NEW p \in Procs, Stage(p)
       PROVE  ProcTypes' /\ DurableTypes' /\ FaultTypes'
  <2>1. ProcTypes'
    BY <1>24 DEF Stage, Unstaged, Staging, Entries, IsFirst, ProcTypes,
           Operation, Goto, Release, Step, Working, Publishing
  <2>2. DurableTypes'
    <3>1. PICK q \in Paths : staged' = [staged EXCEPT ![op[p].cur] = @ \cup {q}]
      BY <1>24 DEF Stage, Unstaged, Staging, Entries
    <3> QED BY <1>24, <3>1 DEF Stage, DurableTypes
  <2>3. FaultTypes'
    BY <1>24 DEF Stage, Unstaged, Staging, Entries, IsFirst, FaultTypes,
           ProcTypes, Operation
  <2> QED BY <2>1, <2>2, <2>3
<1>25. ASSUME NEW p \in Procs, PublishJournal(p)
       PROVE  ProcTypes' /\ DurableTypes' /\ FaultTypes'
  <2>1. ProcTypes'
    BY <1>25 DEF PublishJournal, ProcTypes, Operation, Goto, Release, Step,
           Working, Publishing
  <2>2. DurableTypes'
    BY <1>25 DEF PublishJournal, DurableTypes, ProcTypes, Operation, Journal,
           Phase
  <2>3. FaultTypes'
    BY <1>25 DEF PublishJournal, FaultTypes, ProcTypes, Operation
  <2> QED BY <2>1, <2>2, <2>3
<1>26. ASSUME NEW p \in Procs, SyncJournal(p)
       PROVE  ProcTypes' /\ DurableTypes' /\ FaultTypes'
  <2>1. ProcTypes'
    <3>1. op' = [op EXCEPT ![p].plan = Keep]
      BY <1>26 DEF SyncJournal
    <3>2. op' \in [Procs -> Operation]
      BY <3>1 DEF Keep, ProcTypes, Operation
    <3>3. \A r \in Procs : op'[r].cur = op[r].cur
      BY <3>1 DEF ProcTypes, Operation
    <3> QED BY <1>26, <3>2, <3>3
            DEF SyncJournal, ProcTypes, Goto, Step, Working, Publishing
  <2>2. DurableTypes'
    BY <1>26 DEF SyncJournal, Keep, DurableTypes, ProcTypes, Operation,
           Journal, Phase
  <2>3. FaultTypes'
    BY <1>26 DEF SyncJournal, Keep, FaultTypes, ProcTypes, Operation
  <2> QED BY <2>1, <2>2, <2>3
<1>27. ASSUME NEW p \in Procs, Kill(p)
       PROVE  ProcTypes' /\ DurableTypes' /\ FaultTypes'
  <2>1. ProcTypes'
    BY <1>27 DEF Kill, ProcTypes, Operation, Goto, Release, Step, Working,
           Publishing
  <2>2. DurableTypes'
    BY <1>27 DEF Kill, DurableTypes, ProcTypes, Operation, Journal, Phase
  <2>3. FaultTypes'
    BY <1>27 DEF Kill, FaultTypes, ProcTypes, Operation
  <2> QED BY <2>1, <2>2, <2>3
<1>90. CASE PowerLoss
  <2>1. ProcTypes' BY <1>90 DEF PowerLoss, ProcTypes, Step, Working, Publishing
  <2>2. DurableTypes' BY <1>90 DEF PowerLoss, DurableTypes
  <2>3. FaultTypes' BY <1>90 DEF PowerLoss, FaultTypes
  <2> QED BY <2>1, <2>2, <2>3
<1>91. ASSUME NEW w \in Worktrees, NEW q \in Paths, Edit(w, q) PROVE ProcTypes' /\ DurableTypes' /\ FaultTypes'
  <2>1. ProcTypes' BY <1>91 DEF Edit, ProcTypes
  <2>2. DurableTypes' BY <1>91 DEF Edit, DurableTypes, FaultTypes
  <2>3. FaultTypes' BY <1>91 DEF Edit, FaultTypes
  <2> QED BY <2>1, <2>2, <2>3
<1> QED
    BY <1>0, <1>90, <1>91, <1>1, <1>2, <1>3, <1>4, <1>5, <1>6, <1>7, <1>8,
           <1>9, <1>10, <1>11, <1>12, <1>13, <1>14, <1>15, <1>16, <1>17,
           <1>18, <1>19, <1>20, <1>21, <1>22, <1>23, <1>24, <1>25, <1>26,
           <1>27
    DEF Next, Client, Tool, Publish, Prune, Persist
(* Every reachable state has the types of TypeOK.  TypeOK alone is not     *)
(* inductive: a process that publishes must know which transaction.        *)
THEOREM TypeCorrect == Spec => []TypeOK
  BY TypeInit, TypeStep, TypeParts, PTL DEF Spec

-----------------------------------------------------------------------------
(* The lock and the phases of the transactions its holder works on.        *)

LockHeld == \A p \in Procs : lock = p <=> pc[p] \in Locked

CurPhase == \A p \in Procs :
    /\ pc[p] \in Publishing => phase[op[p].cur] = "prepared"
    /\ pc[p] = "marksync" => phase[op[p].cur] = "committed"
    /\ pc[p] = "stage" => phase[op[p].cur] = "open"
    /\ pc[p] = "journalsync" => phase[op[p].cur] = "prepared"

\* A crash can set a transaction back only to these phases.
PhasePair == \A t \in TxIds :
    \/ phase[t] = stablePhase[t]
    \/ phase[t] = "prepared" /\ stablePhase[t] = "open"
    \/ phase[t] = "committed" /\ stablePhase[t] \in {"open", "prepared"}

ProtocolInv == TypeInv /\ LockHeld /\ CurPhase /\ PhasePair /\ StagedComplete

(* What a step of p must satisfy to leave the invariant alone when it      *)
(* touches no transaction.                                                 *)
Quiet(p) ==
    /\ UNCHANGED <<phase, stablePhase, journal, staged>>
    /\ \A r \in Procs \ {p} : /\ pc'[r] = pc[r] /\ op'[r] = op[r]
                              /\ lock' = r <=> lock = r
    /\ lock' = p <=> pc'[p] \in Locked
    /\ pc'[p] \in Working =>
          {pc[p], pc'[p]} \subseteq Publishing /\ op'[p].cur = op[p].cur

LEMMA QuietStep ==
  ASSUME ProtocolInv, TypeInv', NEW p \in Procs, Quiet(p)
  PROVE  ProtocolInv'
<1>1. LockHeld'
  BY DEF Quiet, ProtocolInv, LockHeld
<1>2. CurPhase'
  BY DEF Quiet, ProtocolInv, CurPhase, Working, Publishing
<1>3. PhasePair' /\ StagedComplete'
  BY DEF Quiet, ProtocolInv, PhasePair, StagedComplete, Staging, Entries
<1> QED BY <1>1, <1>2, <1>3 DEF ProtocolInv

LEMMA QuietActions ==
  ASSUME ProtocolInv, NEW p \in Procs,
         \/ StartScan(p) \/ ScanPath(p) \/ EndScan(p) \/ Request(p)
         \/ Discard(p) \/ Recover(p)
         \/ Load(p) \/ NothingPending(p) \/ CheckEntry(p) \/ Swap(p)
         \/ Displaced(p) \/ SyncEntry(p) \/ VerifyEntry(p)
         \/ Finish(p) \/ Proceed(p) \/ Refuse(p) \/ Kill(p)
  PROVE  Quiet(p)
<1> USE DEF ProtocolInv, TypeInv, ProcTypes, Operation, LockHeld, durableVars,
       procVars, Goto, Release
<1> USE DEF Quiet, Locked, Step, Working, Publishing
<1>1. CASE StartScan(p)
  BY <1>1 DEF StartScan
<1>2. CASE ScanPath(p)
  BY <1>2 DEF ScanPath
<1>3. CASE EndScan(p)
  BY <1>3 DEF EndScan
<1>4. CASE Request(p)
  BY <1>4 DEF Request
<1>5. CASE Discard(p)
  BY <1>5 DEF Discard
<1>6. CASE Recover(p)
  BY <1>6 DEF Recover
<1>7. CASE Load(p)
  BY <1>7 DEF Load
<1>8. CASE NothingPending(p)
  BY <1>8 DEF NothingPending
<1>9. CASE CheckEntry(p)
  BY <1>9 DEF CheckEntry, PassNext
<1>10. CASE Swap(p)
  <2>1. \/ pc[p] = "swap" /\ Goto(p, "sync") /\ UNCHANGED <<lock, op>>
        \/ pc[p] = "swap" /\ Goto(p, "displaced") /\ UNCHANGED <<lock, op>>
        \/ pc[p] = "swap" /\ Release(p)
    BY <1>10 DEF Swap, LinkNew, Exchange, Unlink, SwapFails
  <2>2. UNCHANGED <<phase, stablePhase, journal, staged>>
    BY <1>10 DEF Swap
  <2> QED BY <2>1, <2>2
<1>11. CASE Displaced(p)
  <2>1. \/ pc[p] = "displaced" /\ Goto(p, "sync") /\ UNCHANGED <<lock, op>>
        \/ pc[p] = "displaced" /\ Release(p)
    BY <1>11 DEF Displaced, KeepExchange, ExchangeBack, ExchangeStuck
  <2>2. UNCHANGED <<phase, stablePhase, journal, staged>>
    BY <1>11 DEF Displaced
  <2> QED BY <2>1, <2>2
<1>12. CASE SyncEntry(p)
  BY <1>12 DEF SyncEntry
<1>13. CASE VerifyEntry(p)
  <2>1. PICK q \in op[p].left :
          \/ PassNext(p, q) /\ Goto(p, "check") /\ UNCHANGED lock
          \/ Release(p)
    BY <1>13 DEF VerifyEntry
  <2>2. pc[p] = "verify" /\ UNCHANGED <<phase, stablePhase, journal, staged>>
    BY <1>13 DEF VerifyEntry
  <2>3. CASE PassNext(p, q) /\ Goto(p, "check") /\ UNCHANGED lock
    <3>1. op'[p].cur = op[p].cur /\ \A r \in Procs \ {p} : op'[r] = op[r]
      BY <2>3 DEF PassNext
    <3>2. pc'[p] = "check" /\ \A r \in Procs \ {p} : pc'[r] = pc[r]
      BY <2>3
    <3> QED BY <2>2, <2>3, <3>1, <3>2
  <2>4. CASE Release(p)
    BY <2>2, <2>4
  <2> QED BY <2>1, <2>3, <2>4
<1>14. CASE Finish(p)
  BY <1>14 DEF Finish
<1>15. CASE Proceed(p)
  BY <1>15 DEF Proceed
<1>16. CASE Refuse(p)
  BY <1>16 DEF Refuse
<1>17. CASE Kill(p)
  BY <1>17 DEF Kill
<1> QED BY <1>1, <1>2, <1>3, <1>4, <1>5, <1>6, <1>7, <1>8, <1>9, <1>10, <1>11,
       <1>12, <1>13, <1>14, <1>15, <1>16, <1>17

(* Whoever takes or holds the lock works alone.                            *)
LEMMA OthersWait ==
  ASSUME ProtocolInv, NEW p \in Procs,
         \/ Acquire(p) \/ Advance(p) \/ MarkCommitted(p) \/ SyncMark(p)
         \/ UnlinkJournal(p) \/ RemoveDirectory(p)
         \/ Prepare(p) \/ Stage(p) \/ PublishJournal(p) \/ SyncJournal(p)
  PROVE  \A r \in Procs \ {p} : /\ pc'[r] = pc[r] /\ op'[r] = op[r]
                                /\ pc[r] \notin Locked
<1>1. lock \in {None, p}
  BY DEF ProtocolInv, LockHeld, Locked, Step, Acquire, Advance, MarkCommitted,
         SyncMark, UnlinkJournal, RemoveDirectory, Prepare, Stage,
         PublishJournal, SyncJournal
<1>2. \A r \in Procs \ {p} : pc[r] \notin Locked
  BY <1>1 DEF ProtocolInv, LockHeld
<1>3. \A r \in Procs \ {p} : pc'[r] = pc[r]
  BY DEF ProtocolInv, TypeInv, ProcTypes, Goto, procVars, Acquire, Advance,
         MarkCommitted, SyncMark, UnlinkJournal, RemoveDirectory, Prepare,
         Stage, PublishJournal, SyncJournal
<1>4. \A r \in Procs \ {p} : op'[r] = op[r]
  <2>1. CASE Advance(p)
    <3>1. PICK t \in TxIds : op' = [op EXCEPT ![p].cur = t, ![p].left = Entries(t)]
      BY <2>1 DEF Advance, Pending
    <3> QED BY <3>1 DEF ProtocolInv, TypeInv, ProcTypes
  <2>2. CASE Prepare(p)
    <3>1. PICK t \in TxIds : op' = [op EXCEPT ![p].cur = t, ![p].mine = t]
      BY <2>2 DEF Prepare, Free
    <3> QED BY <3>1 DEF ProtocolInv, TypeInv, ProcTypes
  <2>3. CASE SyncJournal(p)
    BY <2>3 DEF SyncJournal, ProtocolInv, TypeInv, ProcTypes
  <2>4. ASSUME ~Advance(p), ~Prepare(p), ~SyncJournal(p) PROVE UNCHANGED op
    BY <2>4 DEF procVars, Acquire, MarkCommitted, SyncMark, UnlinkJournal,
           RemoveDirectory, Stage, PublishJournal
  <2> QED BY <2>1, <2>2, <2>3, <2>4
<1> QED BY <1>2, <1>3, <1>4

LEMMA ProtocolInit == Init => ProtocolInv
<1> SUFFICES ASSUME Init PROVE ProtocolInv
    OBVIOUS
<1>1. TypeInv
    BY TypeInit
<1>2. LockHeld /\ CurPhase
    BY DEF Init, LockHeld, CurPhase, Locked, Step, Publishing
<1>3. PhasePair /\ StagedComplete
    BY DEF Init, PhasePair, StagedComplete
<1> QED BY <1>1, <1>2, <1>3 DEF ProtocolInv

LEMMA ProtocolStep == ProtocolInv /\ [Next]_vars => ProtocolInv'
<1> SUFFICES ASSUME ProtocolInv, [Next]_vars PROVE ProtocolInv'
    OBVIOUS
<1>0. TypeInv'
    BY TypeStep DEF ProtocolInv
<1> USE <1>0 DEF ProtocolInv
<1>1. CASE UNCHANGED vars
    BY <1>1 DEF vars, LockHeld, CurPhase, PhasePair, StagedComplete, Staging,
           Entries
<1>2. ASSUME NEW p \in Procs, Quiet(p) PROVE ProtocolInv'
    BY <1>2, QuietStep
<1>3. ASSUME NEW p \in Procs, Acquire(p) PROVE ProtocolInv'
  <2>0. \A r \in Procs \ {p} : /\ pc'[r] = pc[r] /\ op'[r] = op[r]
                                /\ pc[r] \notin Locked
    BY <1>3, OthersWait
  <2> USE <1>3 DEF Acquire, Unjournaled, Removed, TypeInv, ProcTypes,
         DurableTypes, Operation, durableVars, procVars
  <2>1. LockHeld'
    BY DEF LockHeld, Goto, Locked, Step
  <2>2. CurPhase'
    <3>1. \A r \in Procs \ {p} : /\ pc'[r] = pc[r] /\ op'[r] = op[r]
                                /\ pc[r] \notin Working
      BY <2>0 DEF Locked, Step, Working, Publishing
    <3>2. pc'[p] = "load"
      BY DEF Goto
    <3> QED BY <3>1, <3>2 DEF CurPhase, Working, Publishing
  <2>3. PhasePair'
    BY DEF PhasePair, CurPhase, Publishing, Working, Phase
  <2>4. StagedComplete'
    BY DEF StagedComplete, PhasePair, Staging, Entries, CurPhase, Publishing,
           Working
  <2> QED BY <2>1, <2>2, <2>3, <2>4
<1>4. ASSUME NEW p \in Procs, Advance(p) PROVE ProtocolInv'
  <2>0. \A r \in Procs \ {p} : /\ pc'[r] = pc[r] /\ op'[r] = op[r]
                                /\ pc[r] \notin Locked
    BY <1>4, OthersWait
  <2> USE <1>4 DEF Advance, Pending, TypeInv, ProcTypes, DurableTypes,
         Operation, durableVars, procVars
  <2>1. LockHeld'
    BY DEF LockHeld, Goto, Locked, Step
  <2>2. CurPhase'
    <3>1. \A r \in Procs \ {p} : /\ pc'[r] = pc[r] /\ op'[r] = op[r]
                                /\ pc[r] \notin Working
      BY <2>0 DEF Locked, Step, Working, Publishing
    <3>2. phase[op'[p].cur] = "prepared" /\ pc'[p] = "check"
      BY DEF Goto
    <3>3. UNCHANGED phase
      OBVIOUS
    <3> QED BY <3>1, <3>2, <3>3 DEF CurPhase, Working, Publishing
  <2>3. PhasePair'
    BY DEF PhasePair, CurPhase, Publishing, Working, Phase
  <2>4. StagedComplete'
    BY DEF StagedComplete, PhasePair, Staging, Entries, CurPhase, Publishing,
           Working
  <2> QED BY <2>1, <2>2, <2>3, <2>4
<1>5. ASSUME NEW p \in Procs, MarkCommitted(p) PROVE ProtocolInv'
  <2>0. \A r \in Procs \ {p} : /\ pc'[r] = pc[r] /\ op'[r] = op[r]
                                /\ pc[r] \notin Locked
    BY <1>5, OthersWait
  <2> USE <1>5 DEF MarkCommitted, TypeInv, ProcTypes, DurableTypes, Operation,
         durableVars, procVars
  <2>1. LockHeld'
    BY DEF LockHeld, Goto, Locked, Step
  <2>2. CurPhase'
    <3>1. \A r \in Procs \ {p} : /\ pc'[r] = pc[r] /\ op'[r] = op[r]
                                /\ pc[r] \notin Working
      BY <2>0 DEF Locked, Step, Working, Publishing
    <3>2. phase'[op'[p].cur] = "committed" /\ pc'[p] = "marksync"
      BY DEF Goto, Working, Publishing
    <3> QED BY <3>1, <3>2 DEF CurPhase, Working, Publishing
  <2>3. PhasePair'
    BY DEF PhasePair, CurPhase, Publishing, Working, Phase
  <2>4. StagedComplete'
    BY DEF StagedComplete, PhasePair, Staging, Entries, CurPhase, Publishing,
           Working
  <2> QED BY <2>1, <2>2, <2>3, <2>4
<1>6. ASSUME NEW p \in Procs, SyncMark(p) PROVE ProtocolInv'
  <2>0. \A r \in Procs \ {p} : /\ pc'[r] = pc[r] /\ op'[r] = op[r]
                                /\ pc[r] \notin Locked
    BY <1>6, OthersWait
  <2> USE <1>6 DEF SyncMark, TypeInv, ProcTypes, DurableTypes, Operation,
         durableVars, procVars
  <2>1. LockHeld'
    BY DEF LockHeld, Goto, Locked, Step
  <2>2. CurPhase'
    BY DEF LockHeld, CurPhase, Goto, Locked, Step, Publishing, Working, Phase
  <2>3. PhasePair'
    BY DEF PhasePair, CurPhase, Publishing, Working, Phase
  <2>4. StagedComplete'
    BY DEF StagedComplete, PhasePair, Staging, Entries, CurPhase, Publishing,
           Working
  <2> QED BY <2>1, <2>2, <2>3, <2>4
<1>7. ASSUME NEW p \in Procs, UnlinkJournal(p) PROVE ProtocolInv'
  <2>0. \A r \in Procs \ {p} : /\ pc'[r] = pc[r] /\ op'[r] = op[r]
                                /\ pc[r] \notin Locked
    BY <1>7, OthersWait
  <2> USE <1>7 DEF UnlinkJournal, Committed, TypeInv, ProcTypes, DurableTypes,
         Operation, durableVars, procVars
  <2>1. LockHeld'
    BY DEF LockHeld, Goto, Locked, Step
  <2>2. CurPhase'
    BY DEF LockHeld, CurPhase, Goto, Locked, Step, Publishing, Working, Phase
  <2>3. PhasePair'
    BY DEF PhasePair, CurPhase, Publishing, Working, Phase
  <2>4. StagedComplete'
    BY DEF StagedComplete, PhasePair, Staging, Entries, CurPhase, Publishing,
           Working
  <2> QED BY <2>1, <2>2, <2>3, <2>4
<1>8. ASSUME NEW p \in Procs, RemoveDirectory(p) PROVE ProtocolInv'
  <2>0. \A r \in Procs \ {p} : /\ pc'[r] = pc[r] /\ op'[r] = op[r]
                                /\ pc[r] \notin Locked
    BY <1>8, OthersWait
  <2> USE <1>8 DEF RemoveDirectory, Unlinked, TypeInv, ProcTypes,
         DurableTypes, Operation, durableVars, procVars
  <2>1. LockHeld'
    BY DEF LockHeld, Goto, Locked, Step
  <2>2. CurPhase'
    BY DEF LockHeld, CurPhase, Goto, Locked, Step, Publishing, Working, Phase
  <2>3. PhasePair'
    BY DEF PhasePair, CurPhase, Publishing, Working, Phase
  <2>4. StagedComplete'
    BY DEF StagedComplete, PhasePair, Staging, Entries, CurPhase, Publishing,
           Working
  <2> QED BY <2>1, <2>2, <2>3, <2>4
<1>9. ASSUME NEW p \in Procs, Prepare(p) PROVE ProtocolInv'
  <2>0. \A r \in Procs \ {p} : /\ pc'[r] = pc[r] /\ op'[r] = op[r]
                                /\ pc[r] \notin Locked
    BY <1>9, OthersWait
  <2> USE <1>9 DEF Prepare, Free, TypeInv, ProcTypes, DurableTypes, Operation,
         durableVars, procVars
  <2>1. LockHeld'
    BY DEF LockHeld, Goto, Locked, Step
  <2>2. CurPhase'
    <3>1. \A r \in Procs \ {p} : /\ pc'[r] = pc[r] /\ op'[r] = op[r]
                                /\ pc[r] \notin Working
      BY <2>0 DEF Locked, Step, Working, Publishing
    <3>2. phase'[op'[p].cur] = "open" /\ pc'[p] = "stage"
      BY DEF Goto
    <3> QED BY <3>1, <3>2 DEF CurPhase, Working, Publishing
  <2>3. PhasePair'
    BY DEF PhasePair, CurPhase, Publishing, Working, Phase
  <2>4. StagedComplete'
    BY DEF StagedComplete, PhasePair, Staging, Entries, CurPhase, Publishing,
           Working
  <2> QED BY <2>1, <2>2, <2>3, <2>4
<1>10. ASSUME NEW p \in Procs, Stage(p) PROVE ProtocolInv'
  <2>0. \A r \in Procs \ {p} : /\ pc'[r] = pc[r] /\ op'[r] = op[r]
                                /\ pc[r] \notin Locked
    BY <1>10, OthersWait
  <2> USE <1>10
     DEF Stage, Unstaged, TypeInv, ProcTypes, DurableTypes, Operation,
         durableVars, procVars
  <2>1. LockHeld'
    BY DEF LockHeld, Goto, Locked, Step
  <2>2. CurPhase'
    <3>1. \A r \in Procs \ {p} : /\ pc'[r] = pc[r] /\ op'[r] = op[r]
                                /\ pc[r] \notin Working
      BY <2>0 DEF Locked, Step, Working, Publishing
    <3>2. phase'[op'[p].cur] = "open" /\ pc'[p] = "stage"
      BY DEF Goto, CurPhase, Working
    <3> QED BY <3>1, <3>2 DEF CurPhase, Working, Publishing
  <2>3. PhasePair'
    BY DEF PhasePair, CurPhase, Publishing, Working, Phase
  <2>4. StagedComplete'
    BY DEF StagedComplete, PhasePair, Staging, Entries, CurPhase, Publishing,
           Working
  <2> QED BY <2>1, <2>2, <2>3, <2>4
<1>11. ASSUME NEW p \in Procs, PublishJournal(p) PROVE ProtocolInv'
  <2>0. \A r \in Procs \ {p} : /\ pc'[r] = pc[r] /\ op'[r] = op[r]
                                /\ pc[r] \notin Locked
    BY <1>11, OthersWait
  <2> USE <1>11
     DEF PublishJournal, Unstaged, TypeInv, ProcTypes, DurableTypes, Operation,
         durableVars, procVars
  <2>1. LockHeld'
    BY DEF LockHeld, Goto, Locked, Step
  <2>2. CurPhase'
    <3>1. \A r \in Procs \ {p} : /\ pc'[r] = pc[r] /\ op'[r] = op[r]
                                /\ pc[r] \notin Working
      BY <2>0 DEF Locked, Step, Working, Publishing
    <3>2. phase'[op'[p].cur] = "prepared" /\ pc'[p] = "journalsync"
      BY DEF Goto, CurPhase, Working
    <3> QED BY <3>1, <3>2 DEF CurPhase, Working, Publishing
  <2>3. PhasePair'
    BY DEF PhasePair, CurPhase, Publishing, Working, Phase
  <2>4. StagedComplete'
    BY DEF StagedComplete, PhasePair, Staging, Entries, CurPhase, Publishing,
           Working
  <2> QED BY <2>1, <2>2, <2>3, <2>4
<1>12. ASSUME NEW p \in Procs, SyncJournal(p) PROVE ProtocolInv'
  <2>0. \A r \in Procs \ {p} : /\ pc'[r] = pc[r] /\ op'[r] = op[r]
                                /\ pc[r] \notin Locked
    BY <1>12, OthersWait
  <2> USE <1>12
     DEF SyncJournal, TypeInv, ProcTypes, DurableTypes, Operation, durableVars,
         procVars
  <2>1. LockHeld'
    BY DEF LockHeld, Goto, Locked, Step
  <2>2. CurPhase'
    BY DEF LockHeld, CurPhase, Goto, Locked, Step, Publishing, Working, Phase
  <2>3. PhasePair'
    BY DEF PhasePair, CurPhase, Publishing, Working, Phase
  <2>4. StagedComplete'
    BY DEF StagedComplete, PhasePair, Staging, Entries, CurPhase, Publishing,
           Working
  <2> QED BY <2>1, <2>2, <2>3, <2>4
<1>13. CASE PowerLoss
  <2> USE <1>13 DEF PowerLoss
  <2>1. LockHeld' /\ CurPhase'
    BY DEF LockHeld, CurPhase, Locked, Step, Publishing
  <2>2. PhasePair'
    BY DEF PhasePair
  <2>3. StagedComplete'
    BY DEF StagedComplete, Staging, Entries
  <2> QED BY <2>1, <2>2, <2>3
<1>14. ASSUME NEW w \in Worktrees, NEW q \in Paths, Edit(w, q) PROVE ProtocolInv'
    BY <1>14 DEF Edit, procVars, LockHeld, CurPhase, PhasePair,
           StagedComplete, Staging, Entries
<1> QED BY <1>1, <1>2, <1>3, <1>4, <1>5, <1>6, <1>7, <1>8, <1>9, <1>10, <1>11,
       <1>12, <1>13, <1>14, QuietActions
        DEF Next, Client, Tool, Publish, Prune, Persist

(* A journal never promises bytes that are not staged, whatever crashes.   *)
THEOREM StagedBeforeJournal == Spec => []StagedComplete
  BY ProtocolInit, ProtocolStep, PTL DEF Spec, ProtocolInv

-----------------------------------------------------------------------------
(* One prepared journal per worktree.  With kills and power losses in one  *)
(* run it does not hold: a killed process may leave a commit mark that is  *)
(* not yet durable, and a power loss then takes the mark back.             *)

\* Nothing is pending where recovery is over, and the journal at work is here.
RecoveredHere == \A p \in Procs :
    /\ pc[p] \in {"prune", "prepare", "stage", "marksync"} => Pending(Home[p]) = {}
    /\ pc[p] \in Working => journal[op[p].cur].worktree = Home[p]

\* Without kills only the holder of the lock has a phase that is not durable.
Synced == "power" \in Faults =>
    \A t \in TxIds : phase[t] # stablePhase[t] =>
        \E p \in Procs : pc[p] \in {"journalsync", "marksync"} /\ op[p].cur = t

AloneInv == ProtocolInv /\ OnePrepared /\ RecoveredHere /\ Synced

\* A quiet step that starts to prune only where nothing is pending.
QuietHere(p) ==
    /\ Quiet(p)
    /\ pc'[p] \in {"prune", "prepare"} => pc[p] = "prune" \/ Pending(Home[p]) = {}
    /\ pc[p] \in {"journalsync", "marksync"} => "power" \notin Faults

LEMMA QuietHereStep ==
  ASSUME AloneInv, ProtocolInv', NEW p \in Procs, QuietHere(p)
  PROVE  AloneInv'
<1> USE DEF QuietHere, Quiet, AloneInv
<1>1. OnePrepared'
  BY DEF OnePrepared
<1>2. RecoveredHere'
  BY DEF RecoveredHere, Pending, Working, Publishing
<1>3. Synced'
  BY DEF Synced
<1> QED BY <1>1, <1>2, <1>3

LEMMA QuietHereActions ==
  ASSUME AloneInv, ~({"kill", "power"} \subseteq Faults), NEW p \in Procs,
         \/ StartScan(p) \/ ScanPath(p) \/ EndScan(p) \/ Request(p)
         \/ Discard(p) \/ Recover(p)
         \/ Load(p) \/ NothingPending(p) \/ CheckEntry(p) \/ Swap(p)
         \/ Displaced(p) \/ SyncEntry(p) \/ VerifyEntry(p)
         \/ Finish(p) \/ Proceed(p) \/ Refuse(p) \/ Kill(p)
  PROVE  QuietHere(p)
<1>1. Quiet(p)
  BY QuietActions DEF AloneInv
<1>2. pc \in [Procs -> Step]
  BY DEF AloneInv, ProtocolInv, TypeInv, ProcTypes
<1> USE <1>1, <1>2 DEF QuietHere, Goto, Release
<1>3. CASE StartScan(p)
  BY <1>3 DEF StartScan
<1>4. CASE ScanPath(p)
  BY <1>4 DEF ScanPath
<1>5. CASE EndScan(p)
  BY <1>5 DEF EndScan
<1>6. CASE Request(p)
  BY <1>6 DEF Request
<1>7. CASE Discard(p)
  BY <1>7 DEF Discard
<1>8. CASE Recover(p)
  BY <1>8 DEF Recover
<1>9. CASE Load(p)
  BY <1>9 DEF Load
<1>10. CASE NothingPending(p)
  BY <1>10 DEF NothingPending
<1>11. CASE CheckEntry(p)
  BY <1>11 DEF CheckEntry, PassNext
<1>12. CASE Swap(p)
  BY <1>12 DEF Swap, LinkNew, Exchange, Unlink, SwapFails
<1>13. CASE Displaced(p)
  BY <1>13 DEF Displaced, KeepExchange, ExchangeBack, ExchangeStuck
<1>14. CASE SyncEntry(p)
  BY <1>14 DEF SyncEntry
<1>15. CASE VerifyEntry(p)
  BY <1>15 DEF VerifyEntry, PassNext
<1>16. CASE Finish(p)
  BY <1>16 DEF Finish
<1>17. CASE Proceed(p)
  BY <1>17 DEF Proceed
<1>18. CASE Refuse(p)
  BY <1>18 DEF Refuse
<1>19. CASE Kill(p)
  BY <1>19 DEF Kill
<1> QED BY <1>3, <1>4, <1>5, <1>6, <1>7, <1>8, <1>9, <1>10, <1>11, <1>12,
       <1>13, <1>14, <1>15, <1>16, <1>17, <1>18, <1>19

LEMMA AloneInit == Init => AloneInv
  BY ProtocolInit
     DEF Init, AloneInv, OnePrepared, RecoveredHere, Synced, Working, Publishing

LEMMA AloneStep ==
  ASSUME ~({"kill", "power"} \subseteq Faults)
  PROVE  AloneInv /\ [Next]_vars => AloneInv'
<1> SUFFICES ASSUME AloneInv, [Next]_vars PROVE AloneInv'
    OBVIOUS
<1>0. ProtocolInv'
    BY ProtocolStep DEF AloneInv
<1> USE <1>0 DEF AloneInv
<1>1. CASE UNCHANGED vars
    BY <1>1 DEF vars, OnePrepared, RecoveredHere, Synced, Pending
<1>2. ASSUME NEW p \in Procs, QuietHere(p) PROVE AloneInv'
    BY <1>2, QuietHereStep
<1>3. ASSUME NEW p \in Procs, Acquire(p) PROVE AloneInv'
  <2>0. \A r \in Procs \ {p} : /\ pc'[r] = pc[r] /\ op'[r] = op[r]
                                /\ pc[r] \notin Locked
    BY <1>3, OthersWait
  <2> USE <1>3 DEF Acquire, Unjournaled, Removed, ProtocolInv, TypeInv,
         ProcTypes, DurableTypes, Operation, durableVars, procVars
  <2>1. OnePrepared'
    BY DEF OnePrepared, RecoveredHere, Pending, CurPhase
  <2>2. RecoveredHere'
    <3>1. \A r \in Procs \ {p} :
            /\ pc'[r] = pc[r] /\ op'[r] = op[r]
            /\ pc[r] \notin Working \cup {"prune", "prepare"}
      BY <2>0 DEF Locked, Step, Working, Publishing
    <3> QED
      BY <3>1 DEF RecoveredHere, Pending, CurPhase, Publishing, Working, Goto,
             Phase, OnePrepared
  <2>3. Synced'
    BY DEF Synced, Goto
  <2> QED BY <2>1, <2>2, <2>3
<1>4. ASSUME NEW p \in Procs, Advance(p) PROVE AloneInv'
  <2>0. \A r \in Procs \ {p} : /\ pc'[r] = pc[r] /\ op'[r] = op[r]
                                /\ pc[r] \notin Locked
    BY <1>4, OthersWait
  <2> USE <1>4 DEF Advance, ProtocolInv, TypeInv, ProcTypes, DurableTypes,
         Operation, durableVars, procVars
  <2>1. OnePrepared'
    BY DEF OnePrepared, RecoveredHere, Pending, CurPhase
  <2>2. RecoveredHere'
    <3>1. \A r \in Procs \ {p} :
            /\ pc'[r] = pc[r] /\ op'[r] = op[r]
            /\ pc[r] \notin Working \cup {"prune", "prepare"}
      BY <2>0 DEF Locked, Step, Working, Publishing
    <3> QED
      BY <3>1 DEF RecoveredHere, Pending, CurPhase, Publishing, Working, Goto,
             Phase, OnePrepared
  <2>3. Synced'
    <3>1. \A r \in Procs \ {p} : pc[r] \notin {"journalsync", "marksync"}
      BY <2>0 DEF Locked, Step
    <3>2. "power" \in Faults => \A t \in TxIds : phase[t] = stablePhase[t]
      BY <3>1 DEF Synced
    <3> QED BY <3>2 DEF Synced
  <2> QED BY <2>1, <2>2, <2>3
<1>5. ASSUME NEW p \in Procs, MarkCommitted(p) PROVE AloneInv'
  <2>0. \A r \in Procs \ {p} : /\ pc'[r] = pc[r] /\ op'[r] = op[r]
                                /\ pc[r] \notin Locked
    BY <1>5, OthersWait
  <2> USE <1>5 DEF MarkCommitted, ProtocolInv, TypeInv, ProcTypes,
         DurableTypes, Operation, durableVars, procVars
  <2>1. OnePrepared'
    BY DEF OnePrepared, RecoveredHere, Pending, CurPhase
  <2>2. RecoveredHere'
    <3>1. \A r \in Procs \ {p} :
            /\ pc'[r] = pc[r] /\ op'[r] = op[r]
            /\ pc[r] \notin Working \cup {"prune", "prepare"}
      BY <2>0 DEF Locked, Step, Working, Publishing
    <3> QED
      BY <3>1 DEF RecoveredHere, Pending, CurPhase, Publishing, Working, Goto,
             Phase, OnePrepared
  <2>3. Synced'
    BY DEF Synced, Goto
  <2> QED BY <2>1, <2>2, <2>3
<1>6. ASSUME NEW p \in Procs, SyncMark(p) PROVE AloneInv'
  <2>0. \A r \in Procs \ {p} : /\ pc'[r] = pc[r] /\ op'[r] = op[r]
                                /\ pc[r] \notin Locked
    BY <1>6, OthersWait
  <2> USE <1>6 DEF SyncMark, ProtocolInv, TypeInv, ProcTypes, DurableTypes,
         Operation, durableVars, procVars
  <2>1. OnePrepared'
    BY DEF OnePrepared, RecoveredHere, Pending, CurPhase
  <2>2. RecoveredHere'
    <3>1. \A r \in Procs \ {p} :
            /\ pc'[r] = pc[r] /\ op'[r] = op[r]
            /\ pc[r] \notin Working \cup {"prune", "prepare"}
      BY <2>0 DEF Locked, Step, Working, Publishing
    <3> QED
      BY <3>1 DEF RecoveredHere, Pending, CurPhase, Publishing, Working, Goto,
             Phase, OnePrepared
  <2>3. Synced'
    <3>1. \A r \in Procs \ {p} : pc[r] \notin {"journalsync", "marksync"}
      BY <2>0 DEF Locked, Step
    <3>2. "power" \in Faults =>
            \A t \in TxIds \ {op[p].cur} : phase[t] = stablePhase[t]
      BY <3>1 DEF Synced
    <3>3. phase[op[p].cur] = "committed"
      BY DEF CurPhase
    <3> QED BY <3>2, <3>3 DEF Synced
  <2> QED BY <2>1, <2>2, <2>3
<1>7. ASSUME NEW p \in Procs, UnlinkJournal(p) PROVE AloneInv'
  <2>0. \A r \in Procs \ {p} : /\ pc'[r] = pc[r] /\ op'[r] = op[r]
                                /\ pc[r] \notin Locked
    BY <1>7, OthersWait
  <2> USE <1>7 DEF UnlinkJournal, Committed, ProtocolInv, TypeInv, ProcTypes,
         DurableTypes, Operation, durableVars, procVars
  <2>1. OnePrepared'
    BY DEF OnePrepared, RecoveredHere, Pending, CurPhase
  <2>2. RecoveredHere'
    <3>1. \A r \in Procs \ {p} :
            /\ pc'[r] = pc[r] /\ op'[r] = op[r]
            /\ pc[r] \notin Working \cup {"prune", "prepare"}
      BY <2>0 DEF Locked, Step, Working, Publishing
    <3> QED
      BY <3>1 DEF RecoveredHere, Pending, CurPhase, Publishing, Working, Goto,
             Phase, OnePrepared
  <2>3. Synced'
    BY DEF Synced, Goto
  <2> QED BY <2>1, <2>2, <2>3
<1>8. ASSUME NEW p \in Procs, RemoveDirectory(p) PROVE AloneInv'
  <2>0. \A r \in Procs \ {p} : /\ pc'[r] = pc[r] /\ op'[r] = op[r]
                                /\ pc[r] \notin Locked
    BY <1>8, OthersWait
  <2> USE <1>8 DEF RemoveDirectory, Unlinked, ProtocolInv, TypeInv, ProcTypes,
         DurableTypes, Operation, durableVars, procVars
  <2>1. OnePrepared'
    BY DEF OnePrepared, RecoveredHere, Pending, CurPhase
  <2>2. RecoveredHere'
    <3>1. \A r \in Procs \ {p} :
            /\ pc'[r] = pc[r] /\ op'[r] = op[r]
            /\ pc[r] \notin Working \cup {"prune", "prepare"}
      BY <2>0 DEF Locked, Step, Working, Publishing
    <3> QED
      BY <3>1 DEF RecoveredHere, Pending, CurPhase, Publishing, Working, Goto,
             Phase, OnePrepared
  <2>3. Synced'
    BY DEF Synced, Goto
  <2> QED BY <2>1, <2>2, <2>3
<1>9. ASSUME NEW p \in Procs, Prepare(p) PROVE AloneInv'
  <2>0. \A r \in Procs \ {p} : /\ pc'[r] = pc[r] /\ op'[r] = op[r]
                                /\ pc[r] \notin Locked
    BY <1>9, OthersWait
  <2> USE <1>9 DEF Prepare, Free, ProtocolInv, TypeInv, ProcTypes,
         DurableTypes, Operation, durableVars, procVars
  <2>1. OnePrepared'
    BY DEF OnePrepared, RecoveredHere, Pending, CurPhase
  <2>2. RecoveredHere'
    <3>1. \A r \in Procs \ {p} :
            /\ pc'[r] = pc[r] /\ op'[r] = op[r]
            /\ pc[r] \notin Working \cup {"prune", "prepare"}
      BY <2>0 DEF Locked, Step, Working, Publishing
    <3> QED
      BY <3>1 DEF RecoveredHere, Pending, CurPhase, Publishing, Working, Goto,
             Phase, OnePrepared
  <2>3. Synced'
    <3>1. \A r \in Procs \ {p} : pc[r] \notin {"journalsync", "marksync"}
      BY <2>0 DEF Locked, Step
    <3>2. "power" \in Faults => \A t \in TxIds : phase[t] = stablePhase[t]
      BY <3>1 DEF Synced
    <3> QED BY <3>2 DEF Synced
  <2> QED BY <2>1, <2>2, <2>3
<1>10. ASSUME NEW p \in Procs, Stage(p) PROVE AloneInv'
  <2>0. \A r \in Procs \ {p} : /\ pc'[r] = pc[r] /\ op'[r] = op[r]
                                /\ pc[r] \notin Locked
    BY <1>10, OthersWait
  <2> USE <1>10
     DEF Stage, Unstaged, ProtocolInv, TypeInv, ProcTypes, DurableTypes,
         Operation, durableVars, procVars
  <2>1. OnePrepared'
    BY DEF OnePrepared, RecoveredHere, Pending, CurPhase
  <2>2. RecoveredHere'
    <3>1. \A r \in Procs \ {p} :
            /\ pc'[r] = pc[r] /\ op'[r] = op[r]
            /\ pc[r] \notin Working \cup {"prune", "prepare"}
      BY <2>0 DEF Locked, Step, Working, Publishing
    <3> QED
      BY <3>1 DEF RecoveredHere, Pending, CurPhase, Publishing, Working, Goto,
             Phase, OnePrepared
  <2>3. Synced'
    BY DEF Synced, Goto
  <2> QED BY <2>1, <2>2, <2>3
<1>11. ASSUME NEW p \in Procs, PublishJournal(p) PROVE AloneInv'
  <2>0. \A r \in Procs \ {p} : /\ pc'[r] = pc[r] /\ op'[r] = op[r]
                                /\ pc[r] \notin Locked
    BY <1>11, OthersWait
  <2> USE <1>11
     DEF PublishJournal, Unstaged, ProtocolInv, TypeInv, ProcTypes,
         DurableTypes, Operation, durableVars, procVars
  <2>1. OnePrepared'
    <3>1. /\ journal[op[p].cur].worktree = Home[p]
          /\ \A t \in TxIds : phase[t] = "prepared" => journal[t].worktree # Home[p]
      BY DEF RecoveredHere, Pending, Working
    <3>2. \A t \in TxIds \ {op[p].cur} : phase'[t] = phase[t]
      OBVIOUS
    <3> QED BY <3>1, <3>2 DEF OnePrepared
  <2>2. RecoveredHere'
    <3>1. \A r \in Procs \ {p} :
            /\ pc'[r] = pc[r] /\ op'[r] = op[r]
            /\ pc[r] \notin Working \cup {"prune", "prepare"}
      BY <2>0 DEF Locked, Step, Working, Publishing
    <3> QED
      BY <3>1 DEF RecoveredHere, Pending, CurPhase, Publishing, Working, Goto,
             Phase, OnePrepared
  <2>3. Synced'
    BY DEF Synced, Goto
  <2> QED BY <2>1, <2>2, <2>3
<1>12. ASSUME NEW p \in Procs, SyncJournal(p) PROVE AloneInv'
  <2>0. \A r \in Procs \ {p} : /\ pc'[r] = pc[r] /\ op'[r] = op[r]
                                /\ pc[r] \notin Locked
    BY <1>12, OthersWait
  <2> USE <1>12
     DEF SyncJournal, ProtocolInv, TypeInv, ProcTypes, DurableTypes, Operation,
         durableVars, procVars
  <2>1. OnePrepared'
    BY DEF OnePrepared, RecoveredHere, Pending, CurPhase
  <2>2. RecoveredHere'
    <3>1. \A r \in Procs \ {p} :
            /\ pc'[r] = pc[r] /\ op'[r] = op[r]
            /\ pc[r] \notin Working \cup {"prune", "prepare"}
      BY <2>0 DEF Locked, Step, Working, Publishing
    <3> QED
      BY <3>1 DEF RecoveredHere, Pending, CurPhase, Publishing, Working, Goto,
             Phase, OnePrepared
  <2>3. Synced'
    <3>1. \A r \in Procs \ {p} : pc[r] \notin {"journalsync", "marksync"}
      BY <2>0 DEF Locked, Step
    <3>2. "power" \in Faults =>
            \A t \in TxIds \ {op[p].cur} : phase[t] = stablePhase[t]
      BY <3>1 DEF Synced
    <3>3. phase[op[p].cur] = "prepared"
      BY DEF CurPhase
    <3> QED BY <3>2, <3>3 DEF Synced
  <2> QED BY <2>1, <2>2, <2>3
<1>13. CASE PowerLoss
  <2> USE <1>13 DEF PowerLoss
  <2>1. OnePrepared'
    <3>1. SUFFICES ASSUME NEW t \in TxIds, NEW u \in TxIds, t # u,
                          phase'[t] = "prepared", phase'[u] = "prepared",
                          journal[t].worktree = journal[u].worktree,
                          phase[t] # "prepared"
                   PROVE  FALSE
      BY DEF OnePrepared
    <3>2. \A v \in TxIds : phase'[v] \in {phase[v], stablePhase[v]}
      OBVIOUS
    <3>3. "power" \in Faults
      OBVIOUS
    <3>4. ASSUME NEW v \in TxIds, phase'[v] = "prepared", phase[v] # "prepared"
          PROVE  \E p \in Procs : pc[p] = "marksync" /\ op[p].cur = v
      BY <3>2, <3>3, <3>4 DEF Synced, CurPhase, ProtocolInv
    <3>5. PICK p \in Procs : pc[p] = "marksync" /\ op[p].cur = t
      BY <3>1, <3>4
    <3>6. journal[t].worktree = Home[p] /\ Pending(Home[p]) = {}
      BY <3>5 DEF RecoveredHere, Working
    <3>7. phase[u] # "prepared"
      BY <3>1, <3>6 DEF Pending
    <3>8. PICK r \in Procs : pc[r] = "marksync" /\ op[r].cur = u
      BY <3>1, <3>4, <3>7
    <3>9. r = p
      BY <3>5, <3>8 DEF ProtocolInv, LockHeld, Locked, Step
    <3> QED BY <3>1, <3>5, <3>8, <3>9
  <2>2. RecoveredHere' /\ Synced'
    BY DEF RecoveredHere, Synced, Working, Publishing
  <2> QED BY <2>1, <2>2
<1>14. ASSUME NEW w \in Worktrees, NEW q \in Paths, Edit(w, q) PROVE AloneInv'
    BY <1>14 DEF Edit, procVars, OnePrepared, RecoveredHere, Synced, Pending
<1> QED BY <1>1, <1>2, <1>3, <1>4, <1>5, <1>6, <1>7, <1>8, <1>9, <1>10, <1>11,
       <1>12, <1>13, <1>14, QuietHereActions
        DEF Next, Client, Tool, Publish, Prune, Persist

(* Unless processes die and the power fails in one run, a worktree never   *)
(* has two prepared journals.                                              *)
THEOREM NeverTwoPrepared ==
  ASSUME ~({"kill", "power"} \subseteq Faults)
  PROVE  Spec => []OnePrepared
  BY AloneInit, AloneStep, PTL DEF Spec, AloneInv

-----------------------------------------------------------------------------
(* Optimistic concurrency: what a prepared journal replaces is what its    *)
(* caller read.                                                            *)

Preparing == {"stage", "journalsync"}

\* What a step of the tool must satisfy to keep the revisions held.
KeepsRevisions ==
    \A r \in Procs : pc'[r] \in Preparing =>
        /\ pc[r] \in Preparing
        /\ op'[r].cur = op[r].cur /\ op'[r].seen = op[r].seen
        /\ UNCHANGED <<disk, journal>>

LEMMA KeepsRevisionsStep ==
  ASSUME RevisionHeld, KeepsRevisions PROVE RevisionHeld'
  BY DEF RevisionHeld, KeepsRevisions, Preparing, Entries

LEMMA RevisionStep ==
  ASSUME "edit" \notin Faults
  PROVE  ProtocolInv /\ RevisionHeld /\ [Next]_vars => RevisionHeld'
<1> SUFFICES ASSUME ProtocolInv, RevisionHeld, [Next]_vars PROVE RevisionHeld'
    OBVIOUS
<1>1. CASE UNCHANGED vars
    BY <1>1, KeepsRevisionsStep DEF vars, KeepsRevisions
<1>2. ASSUME NEW p \in Procs, Quiet(p),
             UNCHANGED <<disk, journal>> \/ pc[p] \in {"swap", "displaced"}
      PROVE  RevisionHeld'
  <2>1. ASSUME NEW r \in Procs, pc'[r] \in Preparing PROVE r # p /\ pc[r] \in Preparing
    BY <1>2, <2>1 DEF Quiet, Preparing, Working, Publishing
  <2>2. ASSUME NEW r \in Procs, pc'[r] \in Preparing PROVE UNCHANGED <<disk, journal>>
    BY <1>2, <2>1, <2>2 DEF ProtocolInv, LockHeld, Locked, Step, Preparing
  <2> QED BY <1>2, <2>1, <2>2, KeepsRevisionsStep DEF Quiet, KeepsRevisions
<1>3. ASSUME NEW p \in Procs,
             \/ StartScan(p) \/ ScanPath(p) \/ EndScan(p) \/ Request(p)
             \/ Discard(p) \/ Recover(p)
             \/ Load(p) \/ NothingPending(p) \/ CheckEntry(p) \/ Swap(p)
             \/ Displaced(p) \/ SyncEntry(p) \/ VerifyEntry(p)
             \/ Finish(p) \/ Proceed(p) \/ Refuse(p) \/ Kill(p)
      PROVE  RevisionHeld'
  <2>1. Quiet(p)
    BY <1>3, QuietActions
  <2>2. UNCHANGED <<disk, journal>> \/ pc[p] \in {"swap", "displaced"}
    BY <1>3 DEF StartScan, ScanPath, EndScan, Request, Discard, Recover, Load,
        NothingPending, CheckEntry, Swap, Displaced, SyncEntry, VerifyEntry,
        Finish, Proceed, Refuse, Kill, durableVars
  <2> QED BY <1>2, <2>1, <2>2
<1>4. ASSUME NEW p \in Procs,
             \/ Acquire(p) \/ Advance(p) \/ MarkCommitted(p) \/ SyncMark(p)
             \/ UnlinkJournal(p) \/ RemoveDirectory(p)
             \/ Stage(p) \/ PublishJournal(p) \/ SyncJournal(p)
      PROVE  RevisionHeld'
  <2> USE <1>4 DEF ProtocolInv, TypeInv, ProcTypes, Operation
  <2>1. UNCHANGED <<disk, journal>>
    BY DEF Acquire, Advance, MarkCommitted, SyncMark, UnlinkJournal,
        RemoveDirectory, Stage, PublishJournal, SyncJournal, durableVars
  <2>2. ASSUME NEW r \in Procs, pc'[r] \in Preparing
        PROVE  /\ pc[r] \in Preparing
               /\ op'[r].cur = op[r].cur /\ op'[r].seen = op[r].seen
    <3>1. CASE r # p
      BY <2>2, <3>1 DEF Acquire, Advance, MarkCommitted, SyncMark, UnlinkJournal,
          RemoveDirectory, Stage, PublishJournal, SyncJournal, Goto, procVars
    <3>2. CASE r = p
      BY <2>2, <3>2 DEF Acquire, Advance, MarkCommitted, SyncMark, UnlinkJournal,
          RemoveDirectory, Stage, PublishJournal, SyncJournal, Goto, procVars,
          Preparing
    <3> QED BY <3>1, <3>2
  <2> QED BY <2>1, <2>2, KeepsRevisionsStep DEF KeepsRevisions
<1>5. ASSUME NEW p \in Procs, Prepare(p) PROVE RevisionHeld'
  <2> USE <1>5 DEF ProtocolInv, TypeInv, ProcTypes, DurableTypes, Operation
  <2>1. PICK t \in TxIds :
          /\ journal' = [journal EXCEPT ![t] =
                [worktree |-> Home[p], old |-> Here(p), new |-> NewContent(p, t)]]
          /\ op' = [op EXCEPT ![p].cur = t, ![p].mine = t]
    BY DEF Prepare, Free
  <2>2. \A r \in Procs \ {p} : pc'[r] \notin Preparing
    BY DEF Prepare, Goto, LockHeld, Locked, Step, Preparing
  <2>3. op'[p].cur = t /\ op'[p].seen = op[p].seen
    BY <2>1
  <2>4. /\ journal'[t].old = Here(p)
        /\ journal'[t].new = NewContent(p, t)
    BY <2>1
  <2>5. UNCHANGED disk /\ Expected(p) /\ journal'[t].worktree = Home[p]
    BY <2>1 DEF Prepare
  <2>6. ASSUME NEW q \in Paths, q \in Entries(t)'
        PROVE  op[p].seen[q] = Here(p)[q]
    BY <2>4, <2>5, <2>6 DEF Entries, NewContent, Expected
  <2>7. ASSUME NEW q \in Paths, journal'[op'[p].cur].old[q] # journal'[op'[p].cur].new[q]
        PROVE  /\ op'[p].seen[q] = disk'[journal'[op'[p].cur].worktree][q]
               /\ journal'[op'[p].cur].old[q] = op'[p].seen[q]
    BY <2>3, <2>4, <2>5, <2>6, <2>7 DEF Entries, Here
  <2> HIDE <1>5 DEF ProtocolInv, TypeInv, ProcTypes, DurableTypes, Operation
  <2> QED
    BY <2>2, <2>7 DEF RevisionHeld, Preparing, Entries
<1>6. CASE PowerLoss
    BY <1>6, KeepsRevisionsStep DEF PowerLoss, KeepsRevisions, Preparing
<1>7. ASSUME NEW w \in Worktrees, NEW q \in Paths, Edit(w, q) PROVE FALSE
    BY <1>7 DEF Edit
<1> QED BY <1>1, <1>3, <1>4, <1>5, <1>6, <1>7
        DEF Next, Client, Tool, Publish, Prune, Persist

(* As long as nobody edits records by hand, a transaction replaces what    *)
(* its caller read: no update of another process is lost.                  *)
THEOREM NoLostUpdate ==
  ASSUME "edit" \notin Faults
  PROVE  Spec => []RevisionHeld
<1>1. Init => RevisionHeld
  BY DEF Init, RevisionHeld
<1> QED BY <1>1, ProtocolInit, ProtocolStep, RevisionStep, PTL DEF Spec

-----------------------------------------------------------------------------
(* Provenance: where a content written by a transaction can be.            *)

\* If a transaction wrote v, it has begun, in worktree w.
Belongs(v, w) == \A t \in TxIds :
    v = Written(t) => phase[t] # "free" /\ journal[t].worktree = w

Provenance ==
    /\ \A w \in Worktrees, q \in Paths :
        Belongs(disk[w][q], w) /\ Belongs(stable[w][q], w) /\ Belongs(temp[w][q], w)
    /\ \A t \in TxIds : phase[t] # "free" =>
        \A q \in Paths : Belongs(journal[t].new[q], journal[t].worktree)

\* Whoever works on a transaction works on one of its own worktree.
WorksHere == \A p \in Procs :
    pc[p] \in Working => journal[op[p].cur].worktree = Home[p]

OwnInv == ProtocolInv /\ Provenance /\ WorksHere

LEMMA WorksHereStep == ProtocolInv /\ WorksHere /\ [Next]_vars => WorksHere'
<1> SUFFICES ASSUME ProtocolInv, WorksHere, [Next]_vars PROVE WorksHere'
    OBVIOUS
<1>1. CASE UNCHANGED vars
    BY <1>1 DEF vars, WorksHere
<1>2. ASSUME NEW p \in Procs, Quiet(p) PROVE WorksHere'
    BY <1>2 DEF Quiet, WorksHere, Working, Publishing
<1>3. ASSUME NEW p \in Procs,
             \/ Acquire(p) \/ Advance(p) \/ MarkCommitted(p) \/ SyncMark(p)
             \/ UnlinkJournal(p) \/ RemoveDirectory(p)
             \/ Prepare(p) \/ Stage(p) \/ PublishJournal(p) \/ SyncJournal(p)
      PROVE  WorksHere'
  <2>0. \A r \in Procs \ {p} : pc'[r] = pc[r] /\ pc[r] \notin Locked
    BY <1>3, OthersWait
  <2>1. \A r \in Procs \ {p} : pc'[r] \notin Working
    BY <2>0 DEF Locked, Step, Working, Publishing
  <2>2. pc'[p] \in Working => journal'[op'[p].cur].worktree = Home[p]
    <3> USE DEF ProtocolInv, TypeInv, ProcTypes, DurableTypes, Operation, Goto,
           durableVars, procVars
    <3>1. CASE Acquire(p)
      BY <3>1 DEF Acquire, Working, Publishing
    <3>2. CASE Advance(p)
      BY <3>2 DEF Advance, Pending
    <3>3. CASE MarkCommitted(p) \/ Stage(p) \/ PublishJournal(p)
      BY <3>3 DEF MarkCommitted, Stage, PublishJournal, WorksHere, Working,
             Publishing
    <3>4. CASE SyncMark(p) \/ UnlinkJournal(p) \/ RemoveDirectory(p) \/ SyncJournal(p)
      BY <3>4 DEF SyncMark, UnlinkJournal, RemoveDirectory, SyncJournal, Working,
             Publishing
    <3>5. CASE Prepare(p)
      BY <3>5 DEF Prepare, Free
    <3> QED BY <1>3, <3>1, <3>2, <3>3, <3>4, <3>5
  <2> QED BY <2>1, <2>2 DEF WorksHere
<1>4. CASE PowerLoss
    BY <1>4 DEF PowerLoss, WorksHere, Working, Publishing
<1>5. ASSUME NEW w \in Worktrees, NEW q \in Paths, Edit(w, q) PROVE WorksHere'
    BY <1>5 DEF Edit, procVars, WorksHere
<1> QED BY <1>1, <1>2, <1>3, <1>4, <1>5, QuietActions
        DEF Next, Client, Tool, Publish, Prune, Persist

\* What a step other than Prepare may put on path q of worktree w.
Known(w, q) ==
    {disk[w][q], stable[w][q], temp[w][q], Absent} \cup {Edited(n) : n \in Nat}
      \cup {journal[t].new[q] : t \in {u \in TxIds :
                /\ phase[u] # "free" /\ journal[u].worktree = w}}

\* A step that begins no transaction and writes nothing new.
Moves ==
    /\ UNCHANGED journal
    /\ \A t \in TxIds : phase'[t] = "free" <=> phase[t] = "free"
    /\ \A w \in Worktrees, q \in Paths :
        {disk'[w][q], stable'[w][q], temp'[w][q]} \subseteq Known(w, q)

LEMMA MovesStep ==
  ASSUME Provenance, Moves PROVE Provenance'
<1>1. ASSUME NEW w \in Worktrees, NEW q \in Paths, NEW v \in Known(w, q)
      PROVE  Belongs(v, w)
  <2>1. CASE v \in {disk[w][q], stable[w][q], temp[w][q]}
    BY <2>1 DEF Provenance
  <2>2. CASE v = Absent
    BY <2>2 DEF Belongs, Absent, Written
  <2>3. CASE \E n \in Nat : v = Edited(n)
    BY <2>3 DEF Belongs, Edited, Written
  <2>4. CASE \E t \in TxIds : /\ phase[t] # "free" /\ journal[t].worktree = w
                              /\ v = journal[t].new[q]
    BY <2>4 DEF Provenance
  <2> QED BY <2>1, <2>2, <2>3, <2>4 DEF Known
<1>2. \A t \in TxIds : phase[t] # "free" => phase'[t] # "free" /\ journal'[t] = journal[t]
  BY DEF Moves
<1>3. ASSUME NEW w \in Worktrees, NEW q \in Paths
      PROVE  /\ Belongs(disk[w][q], w)'
             /\ Belongs(stable[w][q], w)'
             /\ Belongs(temp[w][q], w)'
  <2>1. /\ Belongs(disk'[w][q], w)
        /\ Belongs(stable'[w][q], w)
        /\ Belongs(temp'[w][q], w)
    BY <1>1 DEF Moves
  <2> QED BY <1>2, <2>1 DEF Belongs, Written
<1>4. ASSUME NEW t \in TxIds, phase'[t] # "free", NEW q \in Paths
      PROVE  Belongs(journal[t].new[q], journal[t].worktree)'
  <2>1. Belongs(journal[t].new[q], journal[t].worktree) /\ UNCHANGED journal
    BY <1>4 DEF Provenance, Moves
  <2> QED BY <1>2, <2>1 DEF Belongs, Written
<1> QED BY <1>3, <1>4 DEF Provenance

\* A step that leaves every canonical content and every begun transaction alone.
LEMMA MovesNothing ==
  ASSUME UNCHANGED <<disk, stable, temp, phase, journal>> PROVE Moves
  BY DEF Moves, Known

LEMMA WillIsKnown ==
  ASSUME OwnInv, NEW p \in Procs, pc[p] \in Publishing, NEW q \in Paths
  PROVE  Will(p)[q] \in Known(Home[p], q)
<1>1. /\ op[p].cur \in TxIds /\ phase[op[p].cur] # "free"
      /\ journal[op[p].cur].worktree = Home[p]
  BY DEF OwnInv, ProtocolInv, CurPhase, TypeInv, ProcTypes, WorksHere, Working
<1> QED BY <1>1 DEF Will, Known

LEMMA ContentsAreKnown ==
  \A w \in Worktrees, q \in Paths :
      {disk[w][q], stable[w][q], temp[w][q], Absent} \subseteq Known(w, q)
  BY DEF Known

LEMMA MovesActions ==
  ASSUME OwnInv, NEW p \in Procs,
         Client(p) \/ Kill(p) \/ (Tool(p) /\ ~Prepare(p))
  PROVE  Moves
<1> USE DEF OwnInv, ProtocolInv, TypeInv, ProcTypes, DurableTypes, Operation,
       durableVars, procVars
<1>1. CASE \/ Client(p) \/ Load(p) \/ Advance(p) \/ NothingPending(p)
           \/ CheckEntry(p) \/ VerifyEntry(p) \/ SyncMark(p)
           \/ Finish(p) \/ Proceed(p) \/ Refuse(p) \/ Stage(p)
           \/ SyncJournal(p) \/ Kill(p)
  <2>1. UNCHANGED <<disk, stable, temp, phase, journal>>
    BY <1>1 DEF Client, StartScan, ScanPath, EndScan, Request, Discard, Recover,
        Load, Advance, NothingPending, CheckEntry, VerifyEntry, SyncMark, Finish,
        Proceed, Refuse, Stage, SyncJournal, Kill
  <2> QED BY <2>1, MovesNothing
<1>2. CASE Acquire(p)
  <2>1. \A w \in Worktrees, q \in Paths : temp'[w][q] \in {temp[w][q], Absent}
    BY <1>2 DEF Acquire, Nothing
  <2>2. \A t \in TxIds : phase'[t] = "free" <=> phase[t] = "free"
    BY <1>2 DEF Acquire, Unjournaled, Removed
  <2>3. UNCHANGED <<disk, stable, journal>>
    BY <1>2 DEF Acquire
  <2> QED BY <2>1, <2>2, <2>3 DEF Moves, Known
<1>3. CASE MarkCommitted(p) \/ PublishJournal(p)
  <2>1. pc[p] \in Working /\ op[p].cur \in TxIds /\ phase[op[p].cur] # "free"
    BY <1>3 DEF MarkCommitted, PublishJournal, CurPhase, Working, Publishing
  <2>2. \A t \in TxIds : phase'[t] = "free" <=> phase[t] = "free"
    BY <1>3, <2>1 DEF MarkCommitted, PublishJournal
  <2>3. UNCHANGED <<disk, stable, temp, journal>>
    BY <1>3 DEF MarkCommitted, PublishJournal
  <2> QED BY <2>2, <2>3 DEF Moves, Known
<1>4. CASE UnlinkJournal(p) \/ RemoveDirectory(p)
  <2>1. \A t \in TxIds : phase'[t] = "free" <=> phase[t] = "free"
    BY <1>4 DEF UnlinkJournal, RemoveDirectory, Committed, Unlinked
  <2>2. UNCHANGED <<disk, stable, temp, journal>>
    BY <1>4 DEF UnlinkJournal, RemoveDirectory
  <2> QED BY <2>1, <2>2 DEF Moves, Known
<1>5. CASE Swap(p)
  <2>1. PICK q \in Paths :
          LinkNew(p, q) \/ Exchange(p, q) \/ Unlink(p, q) \/ SwapFails(p, q)
    BY <1>5 DEF Swap
  <2>2. UNCHANGED <<stable, phase, journal>> /\ pc[p] \in Publishing
    BY <1>5 DEF Swap, Publishing
  <2>3. Will(p)[q] \in Known(Home[p], q)
    BY <2>2, WillIsKnown
  <2>4. Absent \in Known(Home[p], q) /\ Here(p)[q] \in Known(Home[p], q)
    BY DEF Known, Here
  <2>5. \E v \in Known(Home[p], q) : disk' = disk \/ SetDisk(p, q, v)
    BY <2>1, <2>3, <2>4 DEF LinkNew, Exchange, Unlink, SwapFails
  <2>6. \E v \in Known(Home[p], q) : temp' = temp \/ SetTemp(p, q, v)
    BY <2>1, <2>3, <2>4 DEF LinkNew, Exchange, Unlink, SwapFails
  <2>7. \A w \in Worktrees, r \in Paths : disk'[w][r] \in Known(w, r)
    <3>1. PICK v \in Known(Home[p], q) :
              disk' = disk \/ disk' = [disk EXCEPT ![Home[p]][q] = v]
      BY <2>5 DEF SetDisk
    <3>2. \A w \in Worktrees, r \in Paths :
              \/ disk'[w][r] = disk[w][r]
              \/ w = Home[p] /\ r = q /\ disk'[w][r] = v
      BY <3>1
    <3> QED BY <3>1, <3>2, ContentsAreKnown
  <2>8. \A w \in Worktrees, r \in Paths : temp'[w][r] \in Known(w, r)
    <3>1. PICK v \in Known(Home[p], q) :
              temp' = temp \/ temp' = [temp EXCEPT ![Home[p]][q] = v]
      BY <2>6 DEF SetTemp
    <3>2. \A w \in Worktrees, r \in Paths :
              \/ temp'[w][r] = temp[w][r]
              \/ w = Home[p] /\ r = q /\ temp'[w][r] = v
      BY <3>1
    <3> QED BY <3>1, <3>2, ContentsAreKnown
  <2>9. \A w \in Worktrees, r \in Paths : stable'[w][r] \in Known(w, r)
    BY <2>2 DEF Known
  <2> QED BY <2>2, <2>7, <2>8, <2>9 DEF Moves
<1>6. CASE Displaced(p)
  <2>1. PICK q \in Paths :
          KeepExchange(p, q) \/ ExchangeBack(p, q) \/ ExchangeStuck(p, q)
    BY <1>6 DEF Displaced
  <2>2. UNCHANGED <<phase, journal>>
    BY <1>6 DEF Displaced
  <2>3. /\ Absent \in Known(Home[p], q) /\ Here(p)[q] \in Known(Home[p], q)
        /\ temp[Home[p]][q] \in Known(Home[p], q)
    BY DEF Known, Here
  <2>4. \E v \in Known(Home[p], q) : disk' = disk \/ SetDisk(p, q, v)
    BY <2>1, <2>3 DEF KeepExchange, ExchangeBack, ExchangeStuck
  <2>5. \E v \in Known(Home[p], q) : stable' = stable \/ SetStable(p, q, v)
    BY <2>1, <2>3 DEF KeepExchange, ExchangeBack, ExchangeStuck
  <2>6. \E v \in Known(Home[p], q) : temp' = temp \/ SetTemp(p, q, v)
    <3>1. (IF Here(p)[q] = Will(p)[q] THEN Absent ELSE Here(p)[q])
              \in Known(Home[p], q)
      BY <2>3
    <3> QED BY <2>1, <2>3, <3>1 DEF KeepExchange, ExchangeBack, ExchangeStuck
  <2>7. \A w \in Worktrees, r \in Paths : disk'[w][r] \in Known(w, r)
    <3>1. PICK v \in Known(Home[p], q) :
              disk' = disk \/ disk' = [disk EXCEPT ![Home[p]][q] = v]
      BY <2>4 DEF SetDisk
    <3>2. \A w \in Worktrees, r \in Paths :
              \/ disk'[w][r] = disk[w][r]
              \/ w = Home[p] /\ r = q /\ disk'[w][r] = v
      BY <3>1
    <3> QED BY <3>1, <3>2, ContentsAreKnown
  <2>8. \A w \in Worktrees, r \in Paths : temp'[w][r] \in Known(w, r)
    <3>1. PICK v \in Known(Home[p], q) :
              temp' = temp \/ temp' = [temp EXCEPT ![Home[p]][q] = v]
      BY <2>6 DEF SetTemp
    <3>2. \A w \in Worktrees, r \in Paths :
              \/ temp'[w][r] = temp[w][r]
              \/ w = Home[p] /\ r = q /\ temp'[w][r] = v
      BY <3>1
    <3> QED BY <3>1, <3>2, ContentsAreKnown
  <2>9. \A w \in Worktrees, r \in Paths : stable'[w][r] \in Known(w, r)
    <3>1. PICK v \in Known(Home[p], q) :
              stable' = stable \/ stable' = [stable EXCEPT ![Home[p]][q] = v]
      BY <2>5 DEF SetStable
    <3>2. \A w \in Worktrees, r \in Paths :
              \/ stable'[w][r] = stable[w][r]
              \/ w = Home[p] /\ r = q /\ stable'[w][r] = v
      BY <3>1
    <3> QED BY <3>1, <3>2, ContentsAreKnown
  <2> QED BY <2>2, <2>7, <2>8, <2>9 DEF Moves
<1>7. CASE SyncEntry(p)
  <2>1. PICK q \in Paths : SetStable(p, q, Here(p)[q])
    BY <1>7 DEF SyncEntry
  <2>2. \A w \in Worktrees, r \in Paths : stable'[w][r] \in Known(w, r)
    BY <2>1, ContentsAreKnown DEF SetStable, Here
  <2>3. UNCHANGED <<disk, temp, phase, journal>>
    BY <1>7 DEF SyncEntry
  <2> QED BY <2>2, <2>3, ContentsAreKnown DEF Moves
<1> QED BY <1>1, <1>2, <1>3, <1>4, <1>5, <1>6, <1>7
        DEF Tool, Publish, Prune, Persist

LEMMA OwnInit == Init => OwnInv
<1> SUFFICES ASSUME Init PROVE Provenance /\ WorksHere
    BY ProtocolInit DEF OwnInv
<1> QED BY DEF Init, Provenance, Belongs, WorksHere, Working, Publishing,
           Nothing, Absent, Original, Written

LEMMA OwnStep == OwnInv /\ [Next]_vars => OwnInv'
<1> SUFFICES ASSUME OwnInv, [Next]_vars PROVE Provenance'
    BY ProtocolStep, WorksHereStep DEF OwnInv
<1> USE DEF OwnInv
<1>1. CASE UNCHANGED vars
    BY <1>1, MovesNothing, MovesStep DEF vars
<1>2. ASSUME NEW p \in Procs, Client(p) \/ Kill(p) \/ (Tool(p) /\ ~Prepare(p))
      PROVE  Provenance'
    BY <1>2, MovesActions, MovesStep
<1>3. ASSUME NEW p \in Procs, Prepare(p) PROVE Provenance'
  <2> USE DEF ProtocolInv, TypeInv, ProcTypes, DurableTypes, Operation
  <2>1. PICK t \in TxIds :
          /\ phase[t] = "free"
          /\ phase' = [phase EXCEPT ![t] = "open"]
          /\ journal' = [journal EXCEPT ![t] =
                [worktree |-> Home[p], old |-> Here(p), new |-> NewContent(p, t)]]
    BY <1>3 DEF Prepare, Free
  <2>2. UNCHANGED <<disk, stable, temp>>
    BY <1>3 DEF Prepare
  <2>3. /\ phase'[t] = "open"
        /\ journal'[t].worktree = Home[p]
        /\ journal'[t].new = NewContent(p, t)
        /\ \A u \in TxIds \ {t} : phase'[u] = phase[u] /\ journal'[u] = journal[u]
    BY <2>1
  <2>4. \A u \in TxIds : phase[u] # "free" =>
            phase'[u] # "free" /\ journal'[u] = journal[u]
    BY <2>1, <2>3
  <2>5. ASSUME NEW q \in Paths
        PROVE  \/ NewContent(p, t)[q] \in {Written(t), Absent}
               \/ NewContent(p, t)[q] = disk[Home[p]][q]
    BY DEF NewContent, Here
  <2> HIDE DEF ProtocolInv, TypeInv, ProcTypes, DurableTypes, Operation
  <2>6. ASSUME NEW w \in Worktrees, NEW q \in Paths
        PROVE  /\ Belongs(disk[w][q], w)'
               /\ Belongs(stable[w][q], w)'
               /\ Belongs(temp[w][q], w)'
    <3>1. /\ Belongs(disk[w][q], w)
          /\ Belongs(stable[w][q], w)
          /\ Belongs(temp[w][q], w)
      BY DEF Provenance
    <3> QED BY <2>2, <2>4, <3>1 DEF Belongs, Written
  <2>7. ASSUME NEW q \in Paths PROVE Belongs(journal[t].new[q], journal[t].worktree)'
    <3>1. Belongs(disk[Home[p]][q], Home[p])
      BY DEF Provenance
    <3> QED BY <2>3, <2>4, <2>5, <3>1 DEF Belongs, Written, Absent
  <2>8. ASSUME NEW u \in TxIds \ {t}, phase'[u] # "free", NEW q \in Paths
        PROVE  Belongs(journal[u].new[q], journal[u].worktree)'
    <3>1. Belongs(journal[u].new[q], journal[u].worktree) /\ journal'[u] = journal[u]
      BY <2>3, <2>8 DEF Provenance
    <3> QED BY <2>4, <3>1 DEF Belongs, Written
  <2> QED BY <2>6, <2>7, <2>8 DEF Provenance
<1>4. CASE PowerLoss
  <2>1. UNCHANGED journal
    BY <1>4 DEF PowerLoss
  <2>2. \A t \in TxIds : phase'[t] = "free" <=> phase[t] = "free"
    BY <1>4 DEF PowerLoss, ProtocolInv, PhasePair
  <2>3. ASSUME NEW w \in Worktrees, NEW q \in Paths
        PROVE  /\ disk'[w][q] \in {disk[w][q], stable[w][q]}
               /\ stable'[w][q] = disk'[w][q]
               /\ temp'[w][q] \in {temp[w][q], Absent}
    BY <1>4 DEF PowerLoss
  <2>4. Moves
    BY <2>1, <2>2, <2>3 DEF Moves, Known
  <2> QED BY <2>4, MovesStep
<1>5. ASSUME NEW w \in Worktrees, NEW q \in Paths, Edit(w, q) PROVE Provenance'
  <2>1. PICK v \in {Absent, Edited(edits + 1)} :
          /\ disk' = [disk EXCEPT ![w][q] = v]
          /\ stable' = [stable EXCEPT ![w][q] = v]
    BY <1>5 DEF Edit
  <2>2. v \in Known(w, q)
    BY DEF Known, ProtocolInv, TypeInv, FaultTypes
  <2>3. UNCHANGED <<temp, phase, journal>>
    BY <1>5 DEF Edit
  <2>4. Moves
    BY <2>1, <2>2, <2>3
       DEF Moves, Known, ProtocolInv, TypeInv, DurableTypes
  <2> QED BY <2>4, MovesStep
<1> QED BY <1>1, <1>2, <1>3, <1>4, <1>5 DEF Next

(* A content that Transact wrote for one linked worktree is never in       *)
(* another one, whatever crashes, fails or is edited by hand: recovery     *)
(* takes up only the journals of its own worktree.                         *)
THEOREM WorktreesStayApart == Spec => []OwnWorktree
<1>1. OwnInv => OwnWorktree
  BY DEF OwnInv, Provenance, Belongs, OwnWorktree
<1> QED BY <1>1, OwnInit, OwnStep, PTL DEF Spec

-----------------------------------------------------------------------------
(* What a process that works on a transaction relies on.                   *)

\* A plan fits what was read, and is made after the scan.
Asked(p) ==
    /\ pc[p] \in {"idle", "scan", "ready"} => op[p].plan = Keep
    /\ pc[p] = "prepare" => op[p].plan # Keep
    /\ \A q \in Paths : op[p].plan[q] = "delete" => op[p].seen[q] # Absent

\* The transaction a request became is durable once its journal was synced.
Named(p) == op[p].mine # 0 =>
    /\ pc[p] \in Locked
    /\ IF pc[p] \in Preparing
       THEN op[p].cur = op[p].mine
       ELSE {phase[op[p].mine], stablePhase[op[p].mine]} \subseteq Journaled

\* A journal under preparation changes something, to its own new contents.
Drafted(p) == pc[p] \in Preparing =>
    /\ op[p].mine # 0 /\ stablePhase[op[p].cur] = "open"
    /\ Entries(op[p].cur) # {}
    /\ \A q \in Entries(op[p].cur) : Will(p)[q] \in {Written(op[p].cur), Absent}

\* Publication goes through the entries in order and skips none.
Published(p) ==
    /\ pc[p] \in Publishing =>
        /\ op[p].left \subseteq Entries(op[p].cur)
        /\ \A q \in Entries(op[p].cur) \ op[p].left : Here(p)[q] = Will(p)[q]
    /\ pc[p] = "marksync" =>
        /\ \A q \in Entries(op[p].cur) : Here(p)[q] = Will(p)[q]
        /\ "power" \in Faults => stablePhase[op[p].cur] = "prepared"
    /\ \A q \in Paths : IsNext(p, q) =>
        /\ pc[p] = "swap" => Here(p)[q] = Was(p)[q]
        /\ pc[p] \in {"displaced", "sync", "verify"} => Here(p)[q] = Will(p)[q]
        /\ pc[p] = "displaced" =>
              temp[Home[p]][q] = Was(p)[q] /\ Will(p)[q] # Absent

Local(p) == Asked(p) /\ Named(p) /\ Drafted(p) /\ Published(p)

\* Process p is publishing the content of path q of worktree w.
InFlight(p, w, q) ==
    /\ pc[p] \in {"displaced", "sync"}
    /\ Home[p] = w /\ IsNext(p, q)
    /\ stable[w][q] = Was(p)[q]

\* Without kills, a content that is not durable is being published.
DiskSynced == "power" \in Faults => \A w \in Worktrees, q \in Paths :
    stable[w][q] # disk[w][q] => \E p \in Procs : InFlight(p, w, q)

CommitInv ==
    /\ AloneInv /\ RevisionHeld /\ OwnInv
    /\ \A p \in Procs : Local(p)
    /\ DiskSynced

LEMMA OneNext ==
  ASSUME NEW p \in Procs, NEW q \in Paths, NEW r \in Paths,
         IsNext(p, q), IsNext(p, r), op[p].left \subseteq Paths
  PROVE  q = r
  BY PathsAssumption DEF IsNext, IsFirst

LEMMA OneHolder ==
  ASSUME ProtocolInv, NEW p \in Procs, NEW r \in Procs,
         pc[p] \in Locked, pc[r] \in Locked
  PROVE  p = r
  BY DEF ProtocolInv, LockHeld

LEMMA IdleLocal ==
  ASSUME NEW p \in Procs, pc'[p] = "idle", op'[p] = NoOperation
  PROVE  Local(p)'
<1>1. Asked(p)'
  BY DEF Asked, NoOperation, Keep
<1>2. Named(p)' /\ Drafted(p)' /\ Published(p)'
  BY DEF Named, Drafted, Published, NoOperation, Preparing, Publishing
<1> QED BY <1>1, <1>2 DEF Local

\* A process that does not hold the lock relies on nothing that is shared.
LEMMA OthersLocal ==
  ASSUME NEW r \in Procs, Local(r), pc'[r] = pc[r], op'[r] = op[r],
         pc[r] \notin Locked \/ UNCHANGED durableVars
  PROVE  Local(r)'
<1>1. Asked(r)'
  BY DEF Local, Asked
<1>2. CASE pc[r] \notin Locked
  <2>1. Named(r)'
    BY <1>2 DEF Local, Named
  <2>2. Drafted(r)' /\ Published(r)'
    BY <1>2 DEF Drafted, Published, Locked, Step, Preparing, Publishing
  <2> QED BY <1>1, <2>1, <2>2 DEF Local
<1>3. CASE UNCHANGED durableVars
  <2>1. Named(r)'
    BY <1>3 DEF durableVars, Local, Named
  <2>2. Drafted(r)'
    BY <1>3 DEF durableVars, Local, Drafted, Entries, Will
  <2>3. Published(r)'
    BY <1>3 DEF durableVars, Local, Published, Entries, Here, Will, Was, IsNext
  <2> QED BY <1>1, <2>1, <2>2, <2>3 DEF Local
<1> QED BY <1>2, <1>3

LEMMA ClientLocal ==
  ASSUME CommitInv, NEW p \in Procs, Client(p) \/ Kill(p) PROVE Local(p)'
<1> USE DEF CommitInv, OwnInv, ProtocolInv, TypeInv, ProcTypes, Operation, Goto,
       durableVars
<1>0. Local(p)
  OBVIOUS
<1>1. CASE Discard(p) \/ Kill(p)
  BY <1>1, IdleLocal DEF Discard, Kill
<1>2. CASE EndScan(p) /\ ~InspectOK(Home[p])
  BY <1>2, IdleLocal DEF EndScan
<1>3. ASSUME /\ pc'[p] \in {"scan", "ready", "wait"}
             /\ op'[p].mine = op[p].mine /\ pc[p] \notin Locked
             /\ pc'[p] \in {"scan", "ready"} => op'[p].plan = Keep
             /\ \A q \in Paths : op'[p].plan[q] = "delete" => op'[p].seen[q] # Absent
      PROVE  Local(p)'
  <2>1. Asked(p)'
    BY <1>3 DEF Asked
  <2>2. Named(p)' /\ Drafted(p)' /\ Published(p)'
    BY <1>0, <1>3 DEF Local, Named, Drafted, Published, Preparing, Publishing
  <2> QED BY <2>1, <2>2 DEF Local
<1>4. CASE StartScan(p)
  BY <1>0, <1>3, <1>4 DEF StartScan, Locked, Step, Local, Asked
<1>5. CASE ScanPath(p)
  <2>1. PICK q \in Paths :
          op' = [op EXCEPT ![p].seen[q] = Here(p)[q], ![p].left = @ \ {q}]
    BY <1>5 DEF ScanPath
  <2>2. pc[p] = "scan" /\ pc'[p] = "scan"
    BY <1>5 DEF ScanPath
  <2>3. op'[p].plan = Keep /\ op'[p].mine = op[p].mine
    BY <1>0, <2>1, <2>2 DEF Local, Asked
  <2> QED BY <1>3, <2>2, <2>3 DEF Locked, Step, Keep
<1>6. CASE EndScan(p) /\ InspectOK(Home[p])
  BY <1>0, <1>3, <1>6 DEF EndScan, Locked, Step, Local, Asked
<1>7. CASE Request(p)
  <2>1. PICK change \in [Paths -> Changes \cup {"keep"}] :
          /\ \A q \in Paths : change[q] = "delete" => op[p].seen[q] # Absent
          /\ op' = [op EXCEPT ![p].plan = change]
    BY <1>7 DEF Request
  <2>2. op'[p].plan = change /\ op'[p].seen = op[p].seen /\ op'[p].mine = op[p].mine
    BY <2>1
  <2> QED BY <1>3, <1>7, <2>1, <2>2 DEF Request, Locked, Step
<1>8. CASE Recover(p)
  BY <1>0, <1>3, <1>8 DEF Recover, Locked, Step, Local, Asked
<1> QED BY <1>1, <1>2, <1>4, <1>5, <1>6, <1>7, <1>8 DEF Client

\* Steps after which p is not, or not yet, publishing.
LEMMA AheadLocal ==
  ASSUME CommitInv, NEW p \in Procs,
         \/ Acquire(p) \/ Load(p) \/ NothingPending(p) \/ UnlinkJournal(p)
         \/ RemoveDirectory(p) \/ Finish(p) \/ Proceed(p) \/ Refuse(p)
         \/ SyncJournal(p)
  PROVE  Local(p)'
<1> USE DEF CommitInv, OwnInv, ProtocolInv, TypeInv, ProcTypes, DurableTypes,
       Operation, Goto, durableVars, procVars
<1>0. Local(p)
  OBVIOUS
<1>1. CASE Release(p)
  BY <1>1, IdleLocal DEF Release
<1>2. ASSUME pc'[p] \in {"load", "advance", "prune", "prepare"},
             op'[p].plan \in {op[p].plan, Keep},
             pc'[p] = "prepare" => op'[p].plan # Keep,
             op'[p].seen = op[p].seen,
             op'[p].mine # 0 =>
                 {phase'[op'[p].mine], stablePhase'[op'[p].mine]} \subseteq Journaled
      PROVE  Local(p)'
  <2>1. Asked(p)'
    BY <1>0, <1>2 DEF Local, Asked, Keep
  <2>2. Named(p)'
    BY <1>2 DEF Named, Locked, Step, Preparing
  <2>3. Drafted(p)' /\ Published(p)'
    BY <1>2 DEF Drafted, Published, Preparing, Publishing
  <2> QED BY <2>1, <2>2, <2>3 DEF Local
<1>3. CASE Acquire(p)
  <2>1. pc[p] = "wait" /\ pc'[p] = "load" /\ op' = op
    BY <1>3 DEF Acquire
  <2>2. op[p].mine = 0
    BY <1>0, <2>1 DEF Local, Named, Locked, Step
  <2> QED BY <1>2, <2>1, <2>2
<1>4. CASE (Load(p) /\ ~Release(p)) \/ NothingPending(p) \/ Proceed(p)
  <2>1. /\ pc[p] \in {"load", "advance", "prune"} /\ op' = op
        /\ pc'[p] \in {"advance", "prune", "prepare"}
        /\ pc'[p] = "prepare" => op[p].plan # Keep
        /\ UNCHANGED <<phase, stablePhase>>
    BY <1>4 DEF Load, NothingPending, Proceed
  <2> QED BY <1>0, <1>2, <2>1 DEF Local, Named, Preparing
<1>5. CASE UnlinkJournal(p) \/ RemoveDirectory(p)
  <2>1. pc[p] = "prune" /\ pc'[p] = "prune" /\ op' = op
    BY <1>5 DEF UnlinkJournal, RemoveDirectory
  <2>2. \A t \in TxIds : {phase[t], stablePhase[t]} \subseteq Journaled =>
            {phase'[t], stablePhase'[t]} \subseteq Journaled
    BY <1>5 DEF UnlinkJournal, RemoveDirectory, Committed, Unlinked, Journaled
  <2>3. op[p].mine \in TxIds \cup {0}
    OBVIOUS
  <2> QED BY <1>0, <1>2, <2>1, <2>2, <2>3 DEF Local, Named, Preparing
<1>6. CASE SyncJournal(p)
  <2>1. /\ pc[p] = "journalsync" /\ pc'[p] = "load" /\ phase' = phase
        /\ op' = [op EXCEPT ![p].plan = Keep]
        /\ stablePhase' = [stablePhase EXCEPT ![op[p].cur] = "prepared"]
    BY <1>6 DEF SyncJournal
  <2>2. op'[p].plan = Keep /\ op'[p].seen = op[p].seen /\ op'[p].mine = op[p].mine
    BY <2>1
  <2>3. op[p].mine = op[p].cur
    BY <1>0, <2>1 DEF Local, Named, Drafted, Preparing
  <2>4. op[p].cur \in TxIds /\ phase[op[p].cur] = "prepared"
    BY <2>1 DEF CurPhase, Working
  <2> QED BY <1>2, <2>1, <2>2, <2>3, <2>4 DEF Journaled
<1> QED BY <1>1, <1>3, <1>4, <1>5, <1>6 DEF Load, Finish, Refuse

\* A request that changes something makes a journal that does.
LEMMA PrepareLocal ==
  ASSUME CommitInv, NEW p \in Procs, Prepare(p) PROVE Local(p)'
<1> USE DEF CommitInv, OwnInv, ProtocolInv, TypeInv, ProcTypes, DurableTypes,
       Operation, Goto
<1>0. Local(p)
  OBVIOUS
<1>1. PICK t \in TxIds :
        /\ phase[t] = "free"
        /\ stablePhase' = [stablePhase EXCEPT ![t] = "open"]
        /\ journal' = [journal EXCEPT ![t] =
              [worktree |-> Home[p], old |-> Here(p), new |-> NewContent(p, t)]]
        /\ op' = [op EXCEPT ![p].cur = t, ![p].mine = t]
  BY DEF Prepare, Free
<1>2. /\ op'[p].cur = t /\ op'[p].mine = t
      /\ op'[p].plan = op[p].plan /\ op'[p].seen = op[p].seen
  BY <1>1
<1>3. journal'[t].old = Here(p) /\ journal'[t].new = NewContent(p, t)
  BY <1>1
<1>4. pc[p] = "prepare" /\ pc'[p] = "stage" /\ Expected(p)
  BY DEF Prepare
<1>5. Asked(p)'
  BY <1>0, <1>2, <1>4 DEF Local, Asked
<1>6. Named(p)'
  BY <1>2, <1>4 DEF Named, Locked, Step, Preparing
<1>7. Published(p)'
  BY <1>4 DEF Published, Publishing
<1>8. ASSUME NEW q \in Paths, op[p].plan[q] = "keep" PROVE q \notin Entries(t)'
  BY <1>3, <1>8 DEF Entries, NewContent
<1>9. ASSUME NEW q \in Paths, op[p].plan[q] # "keep"
      PROVE  q \in Entries(t)' /\ NewContent(p, t)[q] \in {Written(t), Absent}
  <2>1. op[p].plan[q] \in {"write", "delete"}
    BY <1>9
  <2>2. CASE op[p].plan[q] = "write"
    <3>1. Here(p)[q] # Written(t)
      BY <1>1 DEF Provenance, Belongs, Here
    <3> QED BY <1>3, <2>2, <3>1 DEF Entries, NewContent
  <2>3. CASE op[p].plan[q] = "delete"
    <3>1. Here(p)[q] # Absent
      BY <1>0, <1>4, <2>3 DEF Local, Asked, Expected
    <3> QED BY <1>3, <2>3, <3>1 DEF Entries, NewContent
  <2> QED BY <2>1, <2>2, <2>3
<1>10. \E q \in Paths : op[p].plan[q] # "keep"
  BY <1>0, <1>4 DEF Local, Asked, Keep
<1>11. Drafted(p)'
  <2>1. op'[p].mine # 0 /\ stablePhase'[t] = "open"
    BY <1>1, <1>2 DEF TxIds
  <2>2. Entries(t)' # {}
    BY <1>9, <1>10
  <2>3. ASSUME NEW q \in Entries(t)' PROVE journal'[t].new[q] \in {Written(t), Absent}
    BY <1>3, <1>8, <1>9 DEF Entries
  <2>4. Entries(op[p].cur)' = Entries(t)'
    BY <1>2 DEF Entries
  <2> QED BY <1>2, <2>1, <2>2, <2>3, <2>4 DEF Drafted, Will, Written, Entries
<1> QED BY <1>5, <1>6, <1>7, <1>11 DEF Local

LEMMA DraftLocal ==
  ASSUME CommitInv, NEW p \in Procs, Stage(p) \/ PublishJournal(p)
  PROVE  Local(p)'
<1> USE DEF CommitInv, OwnInv, ProtocolInv, TypeInv, ProcTypes, Goto, procVars
<1>0. Local(p)
  OBVIOUS
<1>1. /\ pc[p] = "stage" /\ pc'[p] \in {"stage", "journalsync"} /\ op' = op
      /\ UNCHANGED <<journal, stablePhase>>
  BY DEF Stage, PublishJournal
<1>2. Asked(p)' /\ Named(p)' /\ Published(p)'
  BY <1>0, <1>1 DEF Local, Asked, Named, Published, Locked, Step, Preparing,
     Publishing
<1>3. Drafted(p)'
  BY <1>0, <1>1 DEF Local, Drafted, Preparing, Entries, Will
<1> QED BY <1>2, <1>3 DEF Local

\* Asked and Named during publication.
LEMMA PublishNamed ==
  ASSUME CommitInv, NEW p \in Procs, pc[p] \in Locked \ Preparing,
         pc'[p] \in Publishing \cup {"marksync", "advance"},
         op'[p].plan = op[p].plan, op'[p].seen = op[p].seen,
         op'[p].mine = op[p].mine,
         \A t \in TxIds : {phase[t], stablePhase[t]} \subseteq Journaled =>
             {phase'[t], stablePhase'[t]} \subseteq Journaled
  PROVE  Asked(p)' /\ Named(p)' /\ Drafted(p)'
<1>0. Local(p) /\ op[p].mine \in TxIds \cup {0}
  BY DEF CommitInv, OwnInv, ProtocolInv, TypeInv, ProcTypes, Operation
<1>1. Asked(p)'
  BY <1>0 DEF Local, Asked, Publishing
<1>2. Named(p)'
  BY <1>0 DEF Local, Named, Publishing, Preparing, Locked, Step
<1>3. Drafted(p)'
  BY DEF Drafted, Publishing, Preparing
<1> QED BY <1>1, <1>2, <1>3

LEMMA EntryTypes ==
  ASSUME TypeInv, NEW p \in Procs, op[p].cur \in TxIds
  PROVE  /\ Will(p) \in [Paths -> Content] /\ Was(p) \in [Paths -> Content]
         /\ Entries(op[p].cur) = {q \in Paths : Was(p)[q] # Will(p)[q]}
         /\ Home[p] \in Worktrees /\ op[p].left \subseteq Paths
  BY DEF TypeInv, DurableTypes, ProcTypes, Operation, Journal, Will, Was, Entries

\* The exchange is kept: nobody else touches the files under the lock.
LEMMA ExchangeKept ==
  ASSUME CommitInv, NEW p \in Procs, Displaced(p)
  PROVE  \E q \in Paths : IsNext(p, q) /\ KeepExchange(p, q)
<1>1. PICK q \in op[p].left :
        /\ IsNext(p, q)
        /\ KeepExchange(p, q) \/ ExchangeBack(p, q) \/ ExchangeStuck(p, q)
  BY DEF Displaced
<1>2. op[p].cur \in TxIds /\ pc[p] = "displaced" /\ Local(p)
  BY DEF Displaced, CommitInv, OwnInv, ProtocolInv, TypeInv, ProcTypes, Working,
     Publishing
<1>3. TypeInv
  BY DEF CommitInv, OwnInv, ProtocolInv
<1>4. q \in Paths
  BY <1>2, <1>3, EntryTypes
<1>5. ExchangeGood(p, q)
  BY <1>1, <1>2, <1>4 DEF Local, Published, ExchangeGood
<1>7. ~ExchangeBack(p, q)
  BY <1>5 DEF ExchangeBack
<1>8. ~ExchangeStuck(p, q)
  BY <1>1, <1>2, <1>4, <1>5 DEF ExchangeStuck, ExchangeGood, Local, Published
<1> QED BY <1>1, <1>4, <1>7, <1>8

\* Publication follows the journal, entry by entry.
LEMMA PublishLocal ==
  ASSUME CommitInv, NEW p \in Procs, Advance(p) \/ Publish(p) PROVE Local(p)'
<1> USE DEF CommitInv, OwnInv, ProtocolInv, TypeInv, ProcTypes, DurableTypes,
       Operation, Goto, durableVars, procVars
<1>0. Local(p)
  OBVIOUS
<1>1. CASE Release(p)
  BY <1>1, IdleLocal DEF Release
<1>2. CASE Advance(p)
  <2>1. PICK t \in TxIds : op' = [op EXCEPT ![p].cur = t, ![p].left = Entries(t)]
    BY <1>2 DEF Advance, Pending
  <2>2. /\ op'[p].cur = t /\ op'[p].left = Entries(t)
        /\ op'[p].plan = op[p].plan /\ op'[p].seen = op[p].seen
        /\ op'[p].mine = op[p].mine
    BY <2>1 DEF Entries
  <2>3. /\ pc[p] = "advance" /\ pc'[p] = "check"
        /\ UNCHANGED <<phase, stablePhase, journal>>
    BY <1>2 DEF Advance
  <2>4. Asked(p)' /\ Named(p)' /\ Drafted(p)'
    BY <2>2, <2>3, PublishNamed DEF Publishing, Locked, Step, Preparing
  <2>5. Published(p)'
    BY <2>2, <2>3 DEF Published, Entries, Publishing
  <2> QED BY <2>4, <2>5 DEF Local
\* The journal at hand is one of p, and the next entry is an entry of it.
<1>3. ASSUME pc[p] \in Publishing
      PROVE  /\ op[p].cur \in TxIds /\ phase[op[p].cur] = "prepared"
             /\ op[p].left \subseteq Entries(op[p].cur)
             /\ \A q \in Entries(op[p].cur) \ op[p].left : Here(p)[q] = Will(p)[q]
  BY <1>0, <1>3 DEF Local, Published, Working, CurPhase
<1>4. CASE CheckEntry(p) \/ VerifyEntry(p)
  <2>1. pc[p] \in {"check", "verify"} /\ UNCHANGED durableVars
    BY <1>4 DEF CheckEntry, VerifyEntry
  <2>2. CASE pc'[p] = "swap" /\ op' = op
    <3>1. PICK q \in op[p].left : IsNext(p, q) /\ Here(p)[q] = Was(p)[q]
      BY <1>4, <2>2 DEF CheckEntry, VerifyEntry, PassNext, Release
    <3>2. Asked(p)' /\ Named(p)' /\ Drafted(p)'
      BY <2>1, <2>2, PublishNamed DEF Publishing, Locked, Step, Preparing
    <3>3. ASSUME NEW r \in Paths, IsNext(p, r) PROVE Here(p)[r] = Was(p)[r]
      BY <3>1, <3>3, OneNext
    <3>4. Published(p)'
      BY <1>3, <2>1, <2>2, <3>3
         DEF Published, Publishing, Entries, Here, Will, Was, IsNext
    <3> QED BY <3>2, <3>4 DEF Local
  <2>3. CASE pc'[p] = "check"
    <3>1. PICK q \in op[p].left : IsNext(p, q) /\ Here(p)[q] = Will(p)[q] /\ PassNext(p, q)
      BY <1>4, <2>3 DEF CheckEntry, VerifyEntry, Release
    <3>2. /\ op'[p].left = op[p].left \ {q} /\ op'[p].cur = op[p].cur
          /\ op'[p].plan = op[p].plan /\ op'[p].seen = op[p].seen
          /\ op'[p].mine = op[p].mine
      BY <3>1 DEF PassNext
    <3>3. Asked(p)' /\ Named(p)' /\ Drafted(p)'
      BY <2>1, <2>3, <3>2, PublishNamed DEF Publishing, Locked, Step, Preparing
    <3>4. Published(p)'
      BY <1>3, <2>1, <2>3, <3>1, <3>2
         DEF Published, Publishing, Entries, Here, Will
    <3> QED BY <3>3, <3>4 DEF Local
  <2> QED BY <1>1, <1>4, <2>1, <2>2, <2>3 DEF CheckEntry, VerifyEntry
<1>5. CASE Swap(p)
  <2>1. PICK q \in op[p].left :
          /\ IsNext(p, q)
          /\ LinkNew(p, q) \/ Exchange(p, q) \/ Unlink(p, q) \/ SwapFails(p, q)
    BY <1>5 DEF Swap
  <2>2. pc[p] = "swap" /\ UNCHANGED <<phase, stablePhase, journal>>
    BY <1>5 DEF Swap
  <2>3. CASE LinkNew(p, q) \/ Exchange(p, q) \/ Unlink(p, q)
    <3>1. op' = op /\ pc'[p] \in {"sync", "displaced"} /\ SetDisk(p, q, Will(p)[q])
      BY <2>3 DEF LinkNew, Exchange, Unlink
    <3>2. Asked(p)' /\ Named(p)' /\ Drafted(p)'
      BY <2>2, <3>1, PublishNamed DEF Publishing, Locked, Step, Preparing
    <3>3. q \in Paths /\ Home[p] \in Worktrees
      OBVIOUS
    <3>4. \A r \in Paths : disk'[Home[p]][r] = IF r = q THEN Will(p)[q] ELSE Here(p)[r]
      BY <3>1, <3>3 DEF SetDisk, Here
    <3>5. pc'[p] = "displaced" => /\ temp'[Home[p]][q] = Here(p)[q]
                                  /\ Will(p)[q] # Absent
      BY <2>3, <3>3 DEF LinkNew, Exchange, Unlink, SetTemp
    <3>6. Here(p)[q] = Was(p)[q]
      BY <1>0, <2>1, <2>2, <3>3 DEF Local, Published
    <3>7. ASSUME NEW r \in Paths, IsNext(p, r) PROVE r = q
      BY <2>1, <3>3, <3>7, OneNext
    <3>8. op[p].left \subseteq Entries(op[p].cur)
      BY <1>3, <2>2 DEF Publishing
    <3>9. \A r \in Entries(op[p].cur) \ op[p].left : disk'[Home[p]][r] = Will(p)[r]
      BY <1>3, <2>1, <2>2, <3>4 DEF Publishing, Entries
    <3>10. \A r \in Paths : IsNext(p, r) =>
              /\ disk'[Home[p]][r] = Will(p)[r]
              /\ pc'[p] = "displaced" =>
                    temp'[Home[p]][r] = Was(p)[r] /\ Will(p)[r] # Absent
      BY <3>4, <3>5, <3>6, <3>7
    <3>11. Published(p)'
      BY <2>2, <3>1, <3>8, <3>9, <3>10
         DEF Published, Entries, Here, Will, Was, IsNext
    <3> QED BY <3>2, <3>11 DEF Local
  <2> QED BY <1>1, <2>1, <2>3 DEF SwapFails
<1>6. CASE Displaced(p)
  <2>1. PICK q \in Paths : IsNext(p, q) /\ KeepExchange(p, q)
    BY <1>6, ExchangeKept
  <2>2. /\ pc[p] = "displaced" /\ pc'[p] = "sync" /\ op' = op
        /\ UNCHANGED <<disk, phase, stablePhase, journal>>
    BY <1>6, <2>1 DEF Displaced, KeepExchange
  <2>3. Asked(p)' /\ Named(p)' /\ Drafted(p)'
    BY <2>2, PublishNamed DEF Publishing, Locked, Step, Preparing
  <2>4. Published(p)'
    BY <1>0, <2>2 DEF Local, Published, Publishing, Entries, Here, Will, IsNext
  <2> QED BY <2>3, <2>4 DEF Local
<1>7. CASE SyncEntry(p)
  <2>1. /\ pc[p] = "sync" /\ pc'[p] = "verify" /\ op' = op
        /\ UNCHANGED <<disk, phase, stablePhase, journal>>
    BY <1>7 DEF SyncEntry
  <2>2. Asked(p)' /\ Named(p)' /\ Drafted(p)'
    BY <2>1, PublishNamed DEF Publishing, Locked, Step, Preparing
  <2>3. Published(p)'
    BY <1>0, <2>1 DEF Local, Published, Publishing, Entries, Here, Will, IsNext
  <2> QED BY <2>2, <2>3 DEF Local
<1>8. CASE MarkCommitted(p)
  <2>1. /\ pc[p] = "check" /\ pc'[p] = "marksync" /\ op' = op
        /\ op[p].left = {}
        /\ phase' = [phase EXCEPT ![op[p].cur] = "committed"]
        /\ UNCHANGED <<disk, stablePhase, journal>>
    BY <1>8 DEF MarkCommitted
  <2>2. \A t \in TxIds : phase'[t] \in {phase[t], "committed"}
    BY <2>1
  <2>3. Asked(p)' /\ Named(p)' /\ Drafted(p)'
    BY <2>1, <2>2, PublishNamed DEF Publishing, Locked, Step, Preparing, Journaled
  <2>4. "power" \in Faults => stablePhase[op[p].cur] = "prepared"
    <3>1. \A r \in Procs : pc[r] \notin {"journalsync", "marksync"}
      BY <2>1, OneHolder DEF Locked, Step
    <3> QED BY <1>3, <2>1, <3>1 DEF AloneInv, Synced, Publishing
  <2>5. Published(p)'
    BY <1>3, <2>1, <2>4 DEF Published, Publishing, Entries, Here, Will, IsNext
  <2> QED BY <2>3, <2>5 DEF Local
<1>9. CASE SyncMark(p)
  <2>1. /\ pc[p] = "marksync" /\ pc'[p] = "advance" /\ op' = op
        /\ stablePhase' = [stablePhase EXCEPT ![op[p].cur] = "committed"]
        /\ UNCHANGED phase
    BY <1>9 DEF SyncMark
  <2>2. \A t \in TxIds : stablePhase'[t] \in {stablePhase[t], "committed"}
    BY <2>1
  <2>3. Asked(p)' /\ Named(p)' /\ Drafted(p)'
    BY <2>1, <2>2, PublishNamed DEF Publishing, Locked, Step, Preparing, Journaled
  <2>4. Published(p)'
    BY <2>1 DEF Published, Publishing
  <2> QED BY <2>3, <2>4 DEF Local
<1> QED BY <1>2, <1>4, <1>5, <1>6, <1>7, <1>8, <1>9 DEF Publish

-----------------------------------------------------------------------------
(* The invariant of the commit.                                            *)

\* The steps of the tool that set a transaction on.
Sets(p) == \/ Acquire(p) \/ Advance(p) \/ MarkCommitted(p) \/ SyncMark(p)
           \/ UnlinkJournal(p) \/ RemoveDirectory(p)
           \/ Prepare(p) \/ Stage(p) \/ PublishJournal(p) \/ SyncJournal(p)

\* A step of one process leaves what the others rely on alone.
LEMMA StepOthers ==
  ASSUME ProtocolInv, NEW p \in Procs, Client(p) \/ Tool(p) \/ Kill(p)
  PROVE  \A r \in Procs \ {p} :
            /\ pc'[r] = pc[r] /\ op'[r] = op[r]
            /\ pc[r] \notin Locked \/ UNCHANGED durableVars
<1>1. CASE Sets(p)
  BY <1>1, OthersWait DEF Sets
<1>2. ASSUME Client(p) \/ Kill(p) \/ (Tool(p) /\ ~Sets(p)) PROVE Quiet(p)
  BY <1>2, QuietActions DEF Client, Tool, Publish, Prune, Persist, Sets
<1>3. CASE Client(p) \/ Kill(p)
  <2>1. UNCHANGED durableVars
    BY <1>3 DEF Client, StartScan, ScanPath, EndScan, Request, Discard, Recover,
       Kill
  <2> QED BY <1>2, <1>3, <2>1 DEF Quiet
<1>4. CASE Tool(p) /\ ~Sets(p)
  <2>1. pc[p] \in Locked
    BY <1>4 DEF Tool, Publish, Prune, Persist, Sets, Load, NothingPending,
       CheckEntry, Swap, Displaced, SyncEntry, VerifyEntry, Finish, Proceed,
       Refuse, Locked, Step
  <2> QED BY <1>2, <1>4, <2>1, OneHolder DEF Quiet
<1> QED BY <1>1, <1>3, <1>4

LEMMA LocalStep ==
  ASSUME CommitInv, NEW p \in Procs, Client(p) \/ Tool(p) \/ Kill(p)
  PROVE  \A r \in Procs : Local(r)'
<1>1. Local(p)'
  BY ClientLocal, AheadLocal, PrepareLocal, DraftLocal, PublishLocal
     DEF Tool, Publish, Prune, Persist
<1>2. ASSUME NEW r \in Procs, r # p PROVE Local(r)'
  BY <1>2, StepOthers, OthersLocal DEF CommitInv, OwnInv
<1> QED BY <1>1, <1>2

\* Where nothing is being published everything is durable.
LEMMA AllDurable ==
  ASSUME CommitInv, "power" \in Faults, NEW p \in Procs, pc[p] \in Locked,
         pc[p] \notin {"displaced", "sync"}, NEW w \in Worktrees, NEW q \in Paths
  PROVE  stable[w][q] = disk[w][q]
<1>1. ASSUME NEW r \in Procs, pc[r] \in {"displaced", "sync"} PROVE FALSE
  BY <1>1, OneHolder DEF CommitInv, OwnInv, Locked, Step
<1> QED BY <1>1 DEF CommitInv, DiskSynced, InFlight

LEMMA DiskSyncedStep ==
  ASSUME ~({"kill", "power"} \subseteq Faults), CommitInv, NEW p \in Procs,
         Client(p) \/ Tool(p) \/ Kill(p)
  PROVE  DiskSynced'
<1> SUFFICES ASSUME "power" \in Faults PROVE DiskSynced'
  BY DEF DiskSynced
<1> USE DEF CommitInv, OwnInv, ProtocolInv, TypeInv, ProcTypes, DurableTypes,
       Operation, Goto, durableVars, procVars
<1>1. ~Kill(p)
  BY DEF Kill
<1>2. \A r \in Procs \ {p} : pc'[r] = pc[r] /\ op'[r] = op[r]
  BY StepOthers
<1>3. ASSUME pc[p] \notin {"displaced", "sync"}, UNCHANGED <<disk, stable, journal>>
      PROVE  DiskSynced'
  <2>1. ASSUME NEW w \in Worktrees, NEW q \in Paths, NEW r \in Procs, InFlight(r, w, q)
        PROVE  InFlight(r, w, q)'
    BY <1>2, <1>3, <2>1 DEF InFlight, IsNext, Was
  <2> QED BY <1>3, <2>1 DEF DiskSynced
<1>4. CASE Client(p)
  BY <1>3, <1>4 DEF Client, StartScan, ScanPath, EndScan, Request, Discard, Recover
<1>5. CASE Tool(p) /\ ~Swap(p) /\ ~Displaced(p) /\ ~SyncEntry(p) /\ ~Prepare(p)
  BY <1>3, <1>5
     DEF Tool, Publish, Prune, Persist, Acquire, Load, Advance, NothingPending,
         CheckEntry, VerifyEntry, MarkCommitted, SyncMark, UnlinkJournal,
         RemoveDirectory, Finish, Proceed, Refuse, Stage, PublishJournal,
         SyncJournal
<1>6. CASE Prepare(p)
  <2>1. \A w \in Worktrees, q \in Paths : stable[w][q] = disk[w][q]
    BY <1>6, AllDurable DEF Prepare, Locked, Step
  <2> QED BY <1>6, <2>1 DEF Prepare, DiskSynced
<1>7. CASE Swap(p)
  <2>1. \A w \in Worktrees, q \in Paths : stable[w][q] = disk[w][q]
    BY <1>7, AllDurable DEF Swap, Locked, Step
  <2>2. UNCHANGED <<stable, journal>> /\ pc[p] = "swap"
    BY <1>7 DEF Swap
  <2>3. PICK q \in op[p].left :
          /\ IsNext(p, q)
          /\ LinkNew(p, q) \/ Exchange(p, q) \/ Unlink(p, q) \/ SwapFails(p, q)
    BY <1>7 DEF Swap
  <2>4. CASE SwapFails(p, q)
    BY <2>1, <2>2, <2>4 DEF SwapFails, DiskSynced
  <2>5. CASE LinkNew(p, q) \/ Exchange(p, q) \/ Unlink(p, q)
    <3>1. op' = op /\ pc'[p] \in {"sync", "displaced"} /\ SetDisk(p, q, Will(p)[q])
      BY <2>5 DEF LinkNew, Exchange, Unlink
    <3>2. Here(p)[q] = Was(p)[q]
      BY <2>2, <2>3 DEF Local, Published
    <3>3. ASSUME NEW w \in Worktrees, NEW r \in Paths, stable'[w][r] # disk'[w][r]
          PROVE  w = Home[p] /\ r = q
      BY <2>1, <2>2, <3>1, <3>3 DEF SetDisk
    <3>4. stable[Home[p]][q] = Was(p)[q]
      BY <2>1, <3>2 DEF Here
    <3>5. InFlight(p, Home[p], q)'
      BY <2>2, <2>3, <3>1, <3>4 DEF InFlight, IsNext, Was
    <3> QED BY <3>3, <3>5 DEF DiskSynced
  <2> QED BY <2>3, <2>4, <2>5
<1>8. CASE Displaced(p)
  <2>1. \E q \in Paths : KeepExchange(p, q)
    BY <1>8, ExchangeKept
  <2>2. pc'[p] = "sync" /\ op' = op /\ UNCHANGED <<disk, stable, journal>>
    BY <1>8, <2>1 DEF Displaced, KeepExchange
  <2>3. ASSUME NEW w \in Worktrees, NEW q \in Paths, NEW r \in Procs, InFlight(r, w, q)
        PROVE  InFlight(r, w, q)'
    BY <1>2, <2>2, <2>3 DEF InFlight, IsNext, Was
  <2> QED BY <2>2, <2>3 DEF DiskSynced
<1>9. CASE SyncEntry(p)
  <2>1. PICK q \in Paths : IsNext(p, q) /\ SetStable(p, q, Here(p)[q])
    BY <1>9 DEF SyncEntry
  <2>2. pc[p] = "sync" /\ UNCHANGED disk
    BY <1>9 DEF SyncEntry
  <2>3. ASSUME NEW w \in Worktrees, NEW r \in Paths, stable[w][r] # disk[w][r]
        PROVE  w = Home[p] /\ r = q
    <3>1. PICK s \in Procs : /\ pc[s] \in {"displaced", "sync"}
                             /\ Home[s] = w /\ IsNext(s, r)
      BY <2>3 DEF DiskSynced, InFlight
    <3>2. s = p
      BY <2>2, <3>1, OneHolder DEF Locked, Step
    <3> QED BY <2>1, <3>1, <3>2, OneNext
  <2>4. ASSUME NEW w \in Worktrees, NEW r \in Paths
        PROVE  stable'[w][r] = disk'[w][r]
    BY <2>1, <2>2, <2>3 DEF SetStable, Here
  <2> QED BY <2>4 DEF DiskSynced
<1> QED BY <1>1, <1>4, <1>5, <1>6, <1>7, <1>8, <1>9

LEMMA CommitInit == Init => CommitInv
<1> SUFFICES ASSUME Init PROVE CommitInv
  OBVIOUS
<1>1. AloneInv /\ OwnInv
  BY AloneInit, OwnInit
<1>2. RevisionHeld /\ DiskSynced
  BY DEF Init, RevisionHeld, DiskSynced
<1>3. ASSUME NEW p \in Procs PROVE Local(p)
  BY DEF Init, Local, Asked, Named, Drafted, Published, NoOperation, Keep,
     Preparing, Publishing
<1> QED BY <1>1, <1>2, <1>3 DEF CommitInv

LEMMA CommitStep ==
  ASSUME "edit" \notin Faults, ~({"kill", "power"} \subseteq Faults)
  PROVE  CommitInv /\ [Next]_vars => CommitInv'
<1> SUFFICES ASSUME CommitInv, [Next]_vars
             PROVE  (\A p \in Procs : Local(p)') /\ DiskSynced'
  BY AloneStep, RevisionStep, OwnStep DEF CommitInv, AloneInv
<1>1. CASE UNCHANGED vars
  <2>1. \A p \in Procs : Local(p)'
    BY <1>1, OthersLocal DEF vars, durableVars, CommitInv
  <2> QED BY <1>1, <2>1 DEF vars, CommitInv, DiskSynced, InFlight, IsNext, Was
<1>2. ASSUME NEW p \in Procs, Client(p) \/ Tool(p) \/ Kill(p)
      PROVE  (\A r \in Procs : Local(r)') /\ DiskSynced'
  BY <1>2, LocalStep, DiskSyncedStep
<1>3. CASE PowerLoss
  <2>1. \A p \in Procs : Local(p)'
    BY <1>3, IdleLocal DEF PowerLoss
  <2> QED BY <1>3, <2>1 DEF PowerLoss, DiskSynced
<1>4. ASSUME NEW w \in Worktrees, NEW q \in Paths, Edit(w, q) PROVE FALSE
  BY <1>4 DEF Edit
<1> QED BY <1>1, <1>2, <1>3, <1>4 DEF Next

-----------------------------------------------------------------------------
(* Transact implements the atomic commit.                                  *)

\* A worktree has at most one journal to roll forward.
DecidingOne == \A t, u \in TxIds :
    /\ Deciding[t] = "prepared" /\ Deciding[u] = "prepared"
    /\ journal[t].worktree = journal[u].worktree
    => t = u

LEMMA OneDecides == CommitInv => DecidingOne
<1> SUFFICES ASSUME CommitInv, NEW t \in TxIds, NEW u \in TxIds, t # u,
                    Deciding[t] = "prepared", Deciding[u] = "prepared",
                    journal[t].worktree = journal[u].worktree
             PROVE  FALSE
  BY DEF DecidingOne
<1> USE DEF CommitInv, AloneInv
<1>1. CASE "power" \notin Faults
  BY <1>1 DEF Deciding, OnePrepared
<1>2. CASE "power" \in Faults
  <2>1. stablePhase[t] = "prepared" /\ stablePhase[u] = "prepared"
    BY <1>2 DEF Deciding
  <2>2. ASSUME NEW v \in {t, u}, phase[v] # "prepared"
        PROVE  \E p \in Procs : pc[p] = "marksync" /\ op[p].cur = v
    BY <1>2, <2>1, <2>2 DEF Synced, ProtocolInv, CurPhase
  <2>3. CASE phase[t] = "prepared" /\ phase[u] = "prepared"
    BY <2>3 DEF OnePrepared
  <2>4. ASSUME NEW v \in {t, u}, phase[v] # "prepared" PROVE FALSE
    <3>1. PICK p \in Procs : pc[p] = "marksync" /\ op[p].cur = v
      BY <2>2, <2>4
    <3>2. journal[v].worktree = Home[p] /\ Pending(Home[p]) = {}
      BY <3>1 DEF RecoveredHere, Working
    <3>3. PICK x \in {t, u} : x # v
      OBVIOUS
    <3>4. phase[x] # "prepared"
      BY <3>2, <3>3 DEF Pending
    <3>5. PICK r \in Procs : pc[r] = "marksync" /\ op[r].cur = x
      BY <2>2, <3>4
    <3>6. r = p
      BY <3>1, <3>5, OneHolder DEF Locked, Step
    <3> QED BY <3>1, <3>3, <3>5, <3>6
  <2> QED BY <2>3, <2>4
<1> QED BY <1>1, <1>2

\* What the logical contents are, where one journal at most is unapplied.
LogicalValue == \A w \in Worktrees, q \in Paths :
    /\ Unapplied(w, q) = {} => Logical[w][q] = disk[w][q]
    /\ \A t \in TxIds : Unapplied(w, q) = {t} => Logical[w][q] = journal[t].new[q]

LEMMA LogicalIs == LogicalValue
  BY DEF LogicalValue, Logical

LEMMA LogicalIsNext == LogicalValue'
  BY LogicalIs, PTL

LEMMA LogicalShape ==
  Logical = [w \in Worktrees |-> [q \in Paths |-> Logical[w][q]]]
  BY DEF Logical

LEMMA UnappliedOne ==
  ASSUME DecidingOne, NEW w \in Worktrees, NEW q \in Paths,
         NEW t \in Unapplied(w, q)
  PROVE  Unapplied(w, q) = {t}
  BY DEF DecidingOne, Unapplied

Done == {t \in TxIds : Deciding[t] \in Journaled}

Stutters == Logical' = Logical /\ Done' = Done /\ acked' = acked

LEMMA SameLogical ==
  ASSUME DecidingOne, UNCHANGED disk,
         \A w \in Worktrees, q \in Paths :
             /\ Unapplied(w, q)' = Unapplied(w, q)
             /\ \A t \in Unapplied(w, q) : journal'[t].new = journal[t].new
  PROVE  Logical' = Logical
<1>1. ASSUME NEW w \in Worktrees, NEW q \in Paths PROVE Logical'[w][q] = Logical[w][q]
  <2>1. CASE Unapplied(w, q) = {}
    BY <2>1, LogicalIs, LogicalIsNext DEF LogicalValue
  <2>2. CASE Unapplied(w, q) # {}
    <3>1. PICK t \in Unapplied(w, q) : Unapplied(w, q) = {t}
      BY <2>2, UnappliedOne
    <3>2. t \in TxIds /\ Unapplied(w, q)' = {t} /\ journal'[t].new = journal[t].new
      BY <3>1 DEF Unapplied
    <3> QED BY <3>1, <3>2, LogicalIs, LogicalIsNext DEF LogicalValue
  <2> QED BY <2>1, <2>2
<1>2. Logical' = [w \in Worktrees |-> [q \in Paths |-> Logical'[w][q]]]
  BY DEF Logical
<1> QED BY <1>1, <1>2, LogicalShape

\* A step that leaves contents alone and commits or takes back nothing.
LEMMA SteadyStep ==
  ASSUME DecidingOne, UNCHANGED <<disk, acked>>,
         \A t \in TxIds :
            /\ Deciding'[t] \in Journaled <=> Deciding[t] \in Journaled
            /\ \/ /\ journal'[t] = journal[t]
                  /\ Deciding'[t] = "prepared" <=> Deciding[t] = "prepared"
               \/ Deciding[t] # "prepared" /\ Deciding'[t] # "prepared"
               \/ /\ journal'[t] = journal[t]
                  /\ \A q \in Entries(t) :
                        disk[journal[t].worktree][q] = journal[t].new[q]
  PROVE  Stutters
<1>1. Done' = Done
  BY DEF Done
<1>2. ASSUME NEW w \in Worktrees, NEW q \in Paths, NEW t \in TxIds
      PROVE  /\ t \in Unapplied(w, q)' <=> t \in Unapplied(w, q)
             /\ t \in Unapplied(w, q) => journal'[t].new = journal[t].new
  <2>1. CASE /\ journal'[t] = journal[t]
             /\ Deciding'[t] = "prepared" <=> Deciding[t] = "prepared"
    BY <2>1 DEF Unapplied, Entries
  <2>2. CASE Deciding[t] # "prepared" /\ Deciding'[t] # "prepared"
    BY <2>2 DEF Unapplied
  <2>3. CASE /\ journal'[t] = journal[t]
             /\ \A r \in Entries(t) :
                   disk[journal[t].worktree][r] = journal[t].new[r]
    BY <2>3 DEF Unapplied, Entries
  <2> QED BY <2>1, <2>2, <2>3
<1>3. ASSUME NEW w \in Worktrees, NEW q \in Paths
      PROVE  /\ Unapplied(w, q)' = Unapplied(w, q)
             /\ \A t \in Unapplied(w, q) : journal'[t].new = journal[t].new
  <2>1. Unapplied(w, q)' \subseteq TxIds /\ Unapplied(w, q) \subseteq TxIds
    BY DEF Unapplied
  <2> QED BY <1>2, <2>1
<1> QED BY <1>1, <1>3, SameLogical DEF Stutters

\* Whoever holds the lock between two phases finds every phase durable.
LEMMA PhasesDurable ==
  ASSUME CommitInv, NEW p \in Procs, pc[p] \in Locked \/ lock = None,
         pc[p] \notin {"journalsync", "marksync"}
  PROVE  \A t \in TxIds : Deciding[t] = phase[t]
<1>1. ASSUME NEW r \in Procs, pc[r] \in {"journalsync", "marksync"} PROVE FALSE
  BY <1>1, OneHolder DEF CommitInv, OwnInv, ProtocolInv, LockHeld, Locked, Step
<1> QED BY <1>1 DEF CommitInv, AloneInv, Synced, Deciding

\* Without a sync under way, what decides is what readers see, before and after.
LEMMA DecidesAsPhase ==
  ASSUME CommitInv, NEW p \in Procs,
         \/ Acquire(p) \/ UnlinkJournal(p) \/ RemoveDirectory(p) \/ Prepare(p)
  PROVE  \A t \in TxIds : Deciding[t] = phase[t] /\ Deciding'[t] = phase'[t]
<1> USE DEF CommitInv, OwnInv, ProtocolInv, TypeInv, ProcTypes, DurableTypes,
       Goto, procVars
<1>1. /\ pc[p] \in Locked \/ lock = None
      /\ pc[p] \notin {"journalsync", "marksync"}
  BY DEF Acquire, UnlinkJournal, RemoveDirectory, Prepare, Locked, Step
<1>2. \A t \in TxIds : Deciding[t] = phase[t]
  BY <1>1, PhasesDurable
<1>3. ASSUME NEW t \in TxIds, "power" \in Faults PROVE stablePhase'[t] = phase'[t]
  <2>1. \A u \in TxIds : stablePhase[u] = phase[u]
    BY <1>2, <1>3 DEF Deciding
  <2>2. CASE Acquire(p)
    BY <2>1, <2>2 DEF Acquire
  <2>3. CASE UnlinkJournal(p)
    BY <2>1, <2>3 DEF UnlinkJournal, Committed
  <2>4. CASE RemoveDirectory(p)
    BY <2>1, <2>4 DEF RemoveDirectory, Unlinked
  <2>5. CASE Prepare(p)
    <3>1. PICK u \in TxIds : /\ phase' = [phase EXCEPT ![u] = "open"]
                             /\ stablePhase' = [stablePhase EXCEPT ![u] = "open"]
      BY <2>5 DEF Prepare, Free
    <3> QED BY <2>1, <3>1
  <2> QED BY <2>2, <2>3, <2>4, <2>5
<1> QED BY <1>2, <1>3 DEF Deciding

LEMMA HousekeepingStutters ==
  ASSUME CommitInv, NEW p \in Procs,
         \/ Acquire(p) \/ UnlinkJournal(p) \/ RemoveDirectory(p) \/ Prepare(p)
  PROVE  Stutters
<1> USE DEF CommitInv, OwnInv, ProtocolInv, TypeInv, ProcTypes, DurableTypes,
       durableVars, procVars
<1>1. DecidingOne /\ UNCHANGED <<disk, acked>>
  BY OneDecides DEF Acquire, UnlinkJournal, RemoveDirectory, Prepare
<1>2. ASSUME NEW t \in TxIds
      PROVE  /\ phase'[t] \in Journaled <=> phase[t] \in Journaled
             /\ \/ /\ journal'[t] = journal[t]
                   /\ phase'[t] = "prepared" <=> phase[t] = "prepared"
                \/ phase[t] # "prepared" /\ phase'[t] # "prepared"
  <2>1. CASE Acquire(p)
    BY <2>1 DEF Acquire, Unjournaled, Removed, Journaled
  <2>2. CASE UnlinkJournal(p)
    BY <2>2 DEF UnlinkJournal, Committed, Journaled
  <2>3. CASE RemoveDirectory(p)
    BY <2>3 DEF RemoveDirectory, Unlinked, Journaled
  <2>4. CASE Prepare(p)
    BY <2>4 DEF Prepare, Free, Journaled
  <2> QED BY <2>1, <2>2, <2>3, <2>4
<1> QED BY <1>1, <1>2, DecidesAsPhase, SteadyStep

LEMMA NothingHappens ==
  ASSUME CommitInv, UNCHANGED <<disk, phase, stablePhase, journal, acked>>
  PROVE  Stutters
<1>1. \A t \in TxIds : Deciding'[t] = Deciding[t]
  BY DEF Deciding
<1> QED BY <1>1, OneDecides, SteadyStep

\* The journal a process publishes decides for its entries.
LEMMA PublishedDecides ==
  ASSUME CommitInv, NEW p \in Procs, pc[p] \in Publishing
  PROVE  /\ op[p].cur \in TxIds /\ Deciding[op[p].cur] = "prepared"
         /\ journal[op[p].cur].worktree = Home[p]
<1>1. /\ op[p].cur \in TxIds /\ phase[op[p].cur] = "prepared"
      /\ journal[op[p].cur].worktree = Home[p]
  BY DEF CommitInv, AloneInv, ProtocolInv, TypeInv, ProcTypes, CurPhase,
     RecoveredHere, Working
<1>2. pc[p] \in Locked /\ pc[p] \notin {"journalsync", "marksync"}
  BY DEF Locked, Step, Publishing
<1> QED BY <1>1, <1>2, PhasesDurable

LEMMA MarkStutters ==
  ASSUME CommitInv, NEW p \in Procs, MarkCommitted(p) \/ SyncMark(p)
  PROVE  Stutters
<1> USE DEF CommitInv, OwnInv, ProtocolInv, TypeInv, ProcTypes, DurableTypes
<1>1. /\ DecidingOne /\ UNCHANGED <<disk, journal, acked>>
      /\ pc[p] \in {"check", "marksync"} /\ op[p].cur \in TxIds
      /\ journal[op[p].cur].worktree = Home[p]
  BY OneDecides DEF MarkCommitted, SyncMark, Working, Publishing, AloneInv,
     RecoveredHere
<1>2. \A q \in Entries(op[p].cur) : Here(p)[q] = Will(p)[q]
  BY DEF MarkCommitted, SyncMark, Local, Published, Publishing
<1>3. ASSUME NEW t \in TxIds, t # op[p].cur PROVE Deciding'[t] = Deciding[t]
  BY <1>3 DEF MarkCommitted, SyncMark, Deciding
<1>4. Deciding[op[p].cur] \in Journaled /\ Deciding'[op[p].cur] \in Journaled
  <2>1. CASE MarkCommitted(p)
    <3>1. Deciding[op[p].cur] = "prepared"
      BY <2>1, PublishedDecides DEF MarkCommitted, Publishing
    <3>2. Deciding'[op[p].cur] \in {Deciding[op[p].cur], "committed"}
      BY <1>1, <2>1 DEF MarkCommitted, Deciding
    <3> QED BY <3>1, <3>2 DEF Journaled
  <2>2. CASE SyncMark(p)
    <3>1. Deciding[op[p].cur] \in {"prepared", "committed"}
      BY <2>2 DEF SyncMark, Local, Published, CurPhase, Deciding
    <3>2. Deciding'[op[p].cur] \in {Deciding[op[p].cur], "committed"}
      BY <1>1, <2>2 DEF SyncMark, Deciding
    <3> QED BY <3>1, <3>2 DEF Journaled
  <2> QED BY <2>1, <2>2
<1>5. \A q \in Entries(op[p].cur) :
          disk[journal[op[p].cur].worktree][q] = journal[op[p].cur].new[q]
  BY <1>1, <1>2 DEF Here, Will
<1> QED BY <1>1, <1>3, <1>4, <1>5, SteadyStep

\* An entry that a journal decides is logically new, whichever it holds.
RollsForward == \A w \in Worktrees, q \in Paths, t \in TxIds :
    /\ Deciding[t] = "prepared" /\ journal[t].worktree = w
    /\ journal[t].old[q] # journal[t].new[q]
    /\ disk[w][q] \in {journal[t].old[q], journal[t].new[q]}
    => Logical[w][q] = journal[t].new[q]

LEMMA RolledForward == DecidingOne => RollsForward
<1> SUFFICES ASSUME DecidingOne, NEW w \in Worktrees, NEW q \in Paths,
                    NEW t \in TxIds,
                    Deciding[t] = "prepared", journal[t].worktree = w,
                    journal[t].old[q] # journal[t].new[q],
                    disk[w][q] \in {journal[t].old[q], journal[t].new[q]}
             PROVE  Logical[w][q] = journal[t].new[q]
  BY DEF RollsForward
<1>1. CASE disk[w][q] = journal[t].old[q]
  <2>1. t \in Unapplied(w, q)
    BY <1>1 DEF Unapplied, Entries
  <2> QED BY <2>1, UnappliedOne, LogicalIs DEF LogicalValue
<1>2. CASE disk[w][q] = journal[t].new[q]
  <2>1. ASSUME NEW u \in Unapplied(w, q) PROVE FALSE
    <3>1. u = t
      BY <2>1 DEF Unapplied, DecidingOne
    <3> QED BY <1>2, <2>1, <3>1 DEF Unapplied
  <2> QED BY <1>2, <2>1, LogicalIs DEF LogicalValue
<1> QED BY <1>1, <1>2

LEMMA RolledForwardNext == DecidingOne' => RollsForward'
  BY RolledForward, PTL

\* One entry of a journal that decides goes from old to new or back.
LEMMA OnePath ==
  ASSUME DecidingOne, UNCHANGED journal,
         \A u \in TxIds : Deciding'[u] = Deciding[u],
         NEW w \in Worktrees, NEW q \in Paths, NEW t \in TxIds,
         Deciding[t] = "prepared", journal[t].worktree = w,
         journal[t].old[q] # journal[t].new[q],
         disk[w][q] \in {journal[t].old[q], journal[t].new[q]},
         disk'[w][q] \in {journal[t].old[q], journal[t].new[q]},
         \A x \in Worktrees, r \in Paths :
             x # w \/ r # q => disk'[x][r] = disk[x][r]
  PROVE  Logical' = Logical
<1>1. DecidingOne'
  BY DEF DecidingOne
<1>2. Logical'[w][q] = Logical[w][q]
  <2>1. Logical[w][q] = journal[t].new[q]
    BY RolledForward DEF RollsForward
  <2>2. Logical'[w][q] = journal'[t].new[q]
    BY <1>1, RolledForwardNext DEF RollsForward
  <2> QED BY <2>1, <2>2
<1>3. ASSUME NEW x \in Worktrees, NEW r \in Paths, x # w \/ r # q
      PROVE  Logical'[x][r] = Logical[x][r]
  <2>1. disk'[x][r] = disk[x][r]
    BY <1>3
  <2>2. Unapplied(x, r)' = Unapplied(x, r)
    BY <2>1 DEF Unapplied, Entries
  <2>3. CASE Unapplied(x, r) = {}
    BY <2>1, <2>2, <2>3, LogicalIs, LogicalIsNext DEF LogicalValue
  <2>4. CASE Unapplied(x, r) # {}
    <3>1. PICK u \in Unapplied(x, r) : Unapplied(x, r) = {u}
      BY <2>4, UnappliedOne
    <3>2. u \in TxIds
      BY <3>1 DEF Unapplied
    <3> QED BY <2>2, <3>1, <3>2, LogicalIs, LogicalIsNext DEF LogicalValue
  <2> QED BY <2>3, <2>4
<1>4. \A x \in Worktrees, r \in Paths : Logical'[x][r] = Logical[x][r]
  BY <1>2, <1>3
<1>5. Logical' = [x \in Worktrees |-> [r \in Paths |-> Logical'[x][r]]]
  BY DEF Logical
<1> QED BY <1>4, <1>5, LogicalShape

\* The entry a process swaps changes, its logical content does not.
LEMMA SwapStutters ==
  ASSUME CommitInv, NEW p \in Procs, Swap(p) PROVE Stutters
<1>1. PICK q \in op[p].left :
        /\ IsNext(p, q)
        /\ LinkNew(p, q) \/ Exchange(p, q) \/ Unlink(p, q) \/ SwapFails(p, q)
  BY DEF Swap
<1>2. pc[p] = "swap" /\ UNCHANGED <<phase, stablePhase, journal, acked>>
  BY DEF Swap
<1>3. CASE SwapFails(p, q)
  BY <1>2, <1>3, NothingHappens DEF SwapFails
<1>4. CASE LinkNew(p, q) \/ Exchange(p, q) \/ Unlink(p, q)
  <2> DEFINE t == op[p].cur
             w == Home[p]
  <2>1. t \in TxIds /\ Deciding[t] = "prepared" /\ journal[t].worktree = w
    BY <1>2, PublishedDecides DEF Publishing
  <2>2. /\ Local(p) /\ op[p].left \subseteq Paths /\ w \in Worktrees
        /\ disk \in [Worktrees -> [Paths -> Content]]
    BY DEF CommitInv, OwnInv, ProtocolInv, TypeInv, ProcTypes, DurableTypes, Operation
  <2>3. /\ q \in Paths /\ disk[w][q] = journal[t].old[q]
        /\ journal[t].old[q] # journal[t].new[q]
    BY <1>1, <1>2, <2>2 DEF Local, Published, Publishing, Entries, Here, Was
  <2>4. disk' = [disk EXCEPT ![w][q] = journal[t].new[q]]
    BY <1>4 DEF LinkNew, Exchange, Unlink, SetDisk, Will
  <2>5. \A u \in TxIds : Deciding'[u] = Deciding[u]
    BY <1>2 DEF Deciding
  <2> HIDE DEF t, w
  <2>6. disk'[w][q] = journal[t].new[q]
    BY <2>2, <2>3, <2>4
  <2>7. \A x \in Worktrees, r \in Paths :
            x # w \/ r # q => disk'[x][r] = disk[x][r]
    BY <2>2, <2>4
  <2>8. Logical' = Logical
    BY <1>2, <2>1, <2>2, <2>3, <2>5, <2>6, <2>7, OneDecides, OnePath
  <2>9. Done' = Done
    BY <2>5 DEF Done
  <2> QED BY <1>2, <2>8, <2>9 DEF Stutters
<1> QED BY <1>1, <1>3, <1>4

\* A journal that begins to decide commits all of its entries at once.
LEMMA JournalCommits ==
  ASSUME CommitInv, NEW p \in Procs, pc[p] \in Preparing,
         UNCHANGED <<disk, journal, acked>>,
         Deciding[op[p].cur] \notin Journaled,
         \A u \in TxIds : Deciding'[u] =
             IF u = op[p].cur THEN "prepared" ELSE Deciding[u],
         \A u \in TxIds : Deciding[u] = "prepared" => journal[u].worktree # Home[p]
  PROVE  Abstract!Next
<1> DEFINE t == op[p].cur
           w == Home[p]
           new == {q \in Entries(t) : journal[t].new[q] = Written(t)}
           gone == {q \in Entries(t) : journal[t].new[q] = Absent}
<1>1. /\ t \in TxIds /\ w \in Worktrees /\ journal[t].worktree = w
      /\ Entries(t) \subseteq Paths
  BY DEF CommitInv, OwnInv, ProtocolInv, TypeInv, ProcTypes, WorksHere, Preparing,
     Working, Entries
<1>2. Entries(t) # {} /\ Entries(t) = new \cup gone
  BY DEF CommitInv, Local, Drafted, Will
<1>3. \A q \in Entries(t) : /\ disk[w][q] = journal[t].old[q]
                            /\ journal[t].old[q] # journal[t].new[q]
  BY <1>1 DEF CommitInv, RevisionHeld, Preparing, Entries
<1>4. DecidingOne /\ DecidingOne'
  <2>1. DecidingOne
    BY OneDecides
  <2>2. DecidingOne'
    BY <1>1, <2>1 DEF DecidingOne
  <2> QED BY <2>1, <2>2
<1>5. t \notin Done /\ Done' = Done \cup {t}
  BY <1>1 DEF Done, Journaled
<1> HIDE DEF t, w
<1>6. ASSUME NEW q \in Paths PROVE Logical[w][q] = disk[w][q]
  <2>1. Unapplied(w, q) = {}
    BY DEF Unapplied, w
  <2> QED BY <1>1, <2>1, LogicalIs DEF LogicalValue
<1>7. ASSUME NEW q \in Entries(t) PROVE Logical'[w][q] = journal[t].new[q]
  <2>1. Deciding'[t] = "prepared"
    BY <1>1 DEF t
  <2> QED BY <1>1, <1>3, <1>4, <2>1, RolledForwardNext DEF RollsForward
<1>8. ASSUME NEW q \in Paths, q \notin Entries(t) PROVE Logical'[w][q] = disk[w][q]
  <2>1. Unapplied(w, q)' = {}
    BY <1>8 DEF Unapplied, Entries, t, w
  <2> QED BY <1>1, <2>1, LogicalIsNext DEF LogicalValue
<1>9. ASSUME NEW x \in Worktrees, x # w, NEW r \in Paths
      PROVE  Logical'[x][r] = Logical[x][r]
  <2>1. Unapplied(x, r)' = Unapplied(x, r)
    BY <1>1, <1>9 DEF Unapplied, Entries, t
  <2>2. CASE Unapplied(x, r) = {}
    BY <2>1, <2>2, LogicalIs, LogicalIsNext DEF LogicalValue
  <2>3. CASE Unapplied(x, r) # {}
    <3>1. PICK u \in Unapplied(x, r) : Unapplied(x, r) = {u}
      BY <1>4, <2>3, UnappliedOne
    <3>2. u \in TxIds
      BY <3>1 DEF Unapplied
    <3> QED BY <2>1, <3>1, <3>2, LogicalIs, LogicalIsNext DEF LogicalValue
  <2> QED BY <2>2, <2>3
<1> HIDE DEF new, gone
<1> DEFINE after == [q \in Paths |-> IF q \in new THEN Written(t)
                        ELSE IF q \in gone THEN Absent ELSE Logical[w][q]]
<1>10. \A q \in Paths : Logical'[w][q] = after[q]
  BY <1>2, <1>6, <1>7, <1>8 DEF new, gone
<1>11. Logical' = [Logical EXCEPT ![w] = after]
  <2> HIDE DEF after
  <2>1. Logical' = [x \in Worktrees |-> [r \in Paths |-> Logical'[x][r]]]
    BY DEF Logical
  <2>2. \A x \in Worktrees : Logical'[x] = [Logical EXCEPT ![w] = after][x]
    <3>1. after = [q \in Paths |-> after[q]]
      BY DEF after
    <3>2. Logical'[w] = after
      BY <1>1, <1>10, <2>1, <3>1
    <3>3. ASSUME NEW x \in Worktrees, x # w PROVE Logical'[x] = Logical[x]
      BY <1>9, <2>1, <3>3, LogicalShape
    <3> QED BY <1>1, <3>2, <3>3, LogicalShape
  <2> QED BY <2>1, <2>2, LogicalShape
<1>12. \A q \in gone : Logical[w][q] # Absent
  BY <1>1, <1>3, <1>6 DEF gone
<1>13. new \cap gone = {}
  BY DEF new, gone, Written, Absent
<1>14. new \in SUBSET Paths /\ gone \in SUBSET Paths
  BY <1>1 DEF new, gone
<1>15. PICK T \in TxIds, W \in Worktrees, N \in SUBSET Paths, G \in SUBSET Paths :
          T = t /\ W = w /\ N = new /\ G = gone
  BY <1>1, <1>14
<1>16. Logical' = [Logical EXCEPT ![W] = [q \in Paths |->
                    IF q \in N THEN Abstract!Written(T)
                    ELSE IF q \in G THEN Abstract!Absent ELSE Logical[W][q]]]
  BY <1>11, <1>15 DEF Abstract!Written, Abstract!Absent, Written, Absent
<1>17. N \cup G # {} /\ N \cap G = {} /\ \A q \in G : Logical[W][q] # Abstract!Absent
  BY <1>2, <1>5, <1>11, <1>12, <1>13, <1>15 DEF Abstract!Absent, Absent
<1>18. Abstract!Commit(T)
  <2>1. T \notin Done /\ Done' = Done \cup {T}
    BY <1>5, <1>15
  <2>2. UNCHANGED acked
    OBVIOUS
  <2> DEFINE After(i, x, n, g) == [Logical EXCEPT ![x] = [q \in Paths |->
                    IF q \in n THEN Abstract!Written(i)
                    ELSE IF q \in g THEN Abstract!Absent ELSE Logical[x][q]]]
             Becomes(i, x, n, g) == /\ n \cup g # {}
                                    /\ n \cap g = {}
                                    /\ \A q \in g : Logical[x][q] # Abstract!Absent
                                    /\ Logical' = After(i, x, n, g)
  <2>3. Becomes(T, W, N, G)
    BY <1>16, <1>17
  <2> HIDE DEF Becomes
  <2>4. \E x \in Worktrees, n, g \in SUBSET Paths : Becomes(T, x, n, g)
    BY <2>3
  <2> QED BY <2>1, <2>2, <2>4, Zenon DEF Becomes, Abstract!Commit, Done
<1> QED BY <1>18 DEF Abstract!Next, Abstract!TxIds, TxIds

\* With power losses, a journal that is not synced does not decide yet.
LEMMA UnsyncedJournal ==
  ASSUME CommitInv, "power" \in Faults, NEW p \in Procs, pc[p] = "journalsync"
  PROVE  /\ op[p].cur \in TxIds /\ phase[op[p].cur] = "prepared"
         /\ Deciding[op[p].cur] = "open"
         /\ \A u \in TxIds \ {op[p].cur} : phase[u] = Deciding[u]
         /\ \A u \in TxIds : Deciding[u] = "prepared" => journal[u].worktree # Home[p]
<1> USE DEF CommitInv, AloneInv
<1>1. /\ op[p].cur \in TxIds /\ phase[op[p].cur] = "prepared"
      /\ journal[op[p].cur].worktree = Home[p]
      /\ stablePhase[op[p].cur] = "open"
  BY DEF ProtocolInv, TypeInv, ProcTypes, CurPhase, RecoveredHere, Working, Local,
     Drafted, Preparing
<1>2. \A u \in TxIds : Deciding[u] = stablePhase[u]
  BY DEF Deciding
<1>3. ASSUME NEW u \in TxIds, u # op[p].cur PROVE phase[u] = stablePhase[u]
  <2>1. ASSUME NEW r \in Procs, pc[r] \in {"journalsync", "marksync"} PROVE r = p
    BY <2>1, OneHolder DEF Locked, Step
  <2> QED BY <1>3, <2>1 DEF Synced
<1>4. ASSUME NEW u \in TxIds, stablePhase[u] = "prepared"
      PROVE  journal[u].worktree # Home[p]
  <2>1. u # op[p].cur /\ phase[u] = "prepared"
    BY <1>1, <1>3, <1>4
  <2> QED BY <1>1, <2>1 DEF OnePrepared
<1> QED BY <1>1, <1>2, <1>3, <1>4

\* Publishing or syncing the journal is the commit.
LEMMA JournalStep ==
  ASSUME CommitInv, NEW p \in Procs, PublishJournal(p) \/ SyncJournal(p)
  PROVE  Abstract!Next \/ Stutters
<1> USE DEF CommitInv, AloneInv
<1>1. /\ pc[p] \in Preparing /\ op[p].cur \in TxIds
      /\ UNCHANGED <<disk, journal, acked>>
      /\ phase \in [TxIds -> Phase] /\ stablePhase \in [TxIds -> Phase]
  BY DEF PublishJournal, SyncJournal, Preparing, Working, ProtocolInv, TypeInv,
     ProcTypes, DurableTypes
<1>2. CASE PublishJournal(p) /\ "power" \notin Faults
  <2>1. Deciding[op[p].cur] \notin Journaled
    BY <1>2 DEF PublishJournal, Deciding, ProtocolInv, CurPhase, Journaled
  <2>2. \A u \in TxIds : Deciding'[u] =
            IF u = op[p].cur THEN "prepared" ELSE Deciding[u]
    BY <1>1, <1>2 DEF PublishJournal, Deciding
  <2>3. \A u \in TxIds : Deciding[u] = "prepared" => journal[u].worktree # Home[p]
    BY <1>2 DEF PublishJournal, Deciding, RecoveredHere, Pending
  <2> QED BY <1>1, <2>1, <2>2, <2>3, JournalCommits
<1>3. CASE SyncJournal(p) /\ "power" \in Faults
  <2>1. pc[p] = "journalsync"
    BY <1>3 DEF SyncJournal
  <2>2. \A u \in TxIds : Deciding'[u] =
            IF u = op[p].cur THEN "prepared" ELSE Deciding[u]
    BY <1>1, <1>3 DEF SyncJournal, Deciding
  <2> QED BY <1>1, <1>3, <2>1, <2>2, UnsyncedJournal, JournalCommits DEF Journaled
<1>4. CASE \/ PublishJournal(p) /\ "power" \in Faults
           \/ SyncJournal(p) /\ "power" \notin Faults
  <2>1. \A u \in TxIds : Deciding'[u] = Deciding[u]
    BY <1>4 DEF PublishJournal, SyncJournal, Deciding
  <2> QED BY <1>1, <2>1, OneDecides, SteadyStep
<1> QED BY <1>2, <1>3, <1>4

\* Only what is done is acknowledged.
LEMMA FinishStep ==
  ASSUME CommitInv, NEW p \in Procs, Finish(p) PROVE Abstract!Next \/ Stutters
<1>1. /\ pc[p] = "prune" /\ acked' = acked \cup ({op[p].mine} \ {0})
      /\ UNCHANGED <<disk, phase, stablePhase, journal>>
  BY DEF Finish, durableVars
<1>2. CASE op[p].mine = 0
  BY <1>1, <1>2, NothingHappens
<1>3. CASE op[p].mine # 0
  <2>1. op[p].mine \in TxIds
    BY <1>3 DEF CommitInv, OwnInv, ProtocolInv, TypeInv, ProcTypes, Operation
  <2>2. Deciding[op[p].mine] \in Journaled
    BY <1>1, <1>3 DEF CommitInv, Local, Named, Preparing, Deciding
  <2>3. Logical' = Logical /\ Done' = Done
    <3>1. \A t \in TxIds : Deciding'[t] = Deciding[t]
      BY <1>1 DEF Deciding
    <3>2. \A w \in Worktrees, q \in Paths : Unapplied(w, q)' = Unapplied(w, q)
      BY <1>1, <3>1 DEF Unapplied, Entries
    <3> QED BY <1>1, <3>1, <3>2, OneDecides, SameLogical DEF Done
  <2>4. PICK t \in TxIds : t = op[p].mine
    BY <2>1
  <2>5. Abstract!Acknowledge(t)
    BY <1>1, <1>3, <2>2, <2>3, <2>4 DEF Abstract!Acknowledge, Done
  <2> QED BY <2>5 DEF Abstract!Next, Abstract!TxIds, TxIds
<1> QED BY <1>2, <1>3

\* A power loss takes back no commit, and may complete one.
LEMMA PowerLossStep ==
  ASSUME CommitInv, PowerLoss PROVE Abstract!Next \/ Stutters
<1> USE DEF CommitInv, AloneInv
<1>1. /\ "power" \in Faults /\ UNCHANGED <<journal, acked>>
      /\ \A t \in TxIds : Deciding[t] = stablePhase[t] /\ Deciding'[t] = phase'[t]
      /\ \A t \in TxIds : phase'[t] \in {phase[t], stablePhase[t]}
      /\ \A w \in Worktrees, q \in Paths : disk'[w][q] \in {disk[w][q], stable[w][q]}
      /\ disk' = [w \in Worktrees |-> [q \in Paths |-> disk'[w][q]]]
      /\ disk = [w \in Worktrees |-> [q \in Paths |-> disk[w][q]]]
  BY DEF PowerLoss, Deciding, ProtocolInv, TypeInv, DurableTypes
<1>2. ASSUME NEW p \in Procs, pc[p] \in {"journalsync", "marksync"}
      PROVE  UNCHANGED disk
  <2>1. \A w \in Worktrees, q \in Paths : stable[w][q] = disk[w][q]
    BY <1>1, <1>2, AllDurable DEF Locked, Step
  <2> QED BY <1>1, <2>1
<1>3. ASSUME NEW p \in Procs, pc[p] = "journalsync" PROVE Abstract!Next \/ Stutters
  <2>1. /\ op[p].cur \in TxIds /\ phase[op[p].cur] = "prepared"
        /\ Deciding[op[p].cur] = "open"
        /\ \A u \in TxIds \ {op[p].cur} : phase[u] = Deciding[u]
        /\ \A u \in TxIds : Deciding[u] = "prepared" => journal[u].worktree # Home[p]
    BY <1>1, <1>3, UnsyncedJournal
  <2>2. CASE phase'[op[p].cur] = "prepared"
    <3>1. \A u \in TxIds : Deciding'[u] =
              IF u = op[p].cur THEN "prepared" ELSE Deciding[u]
      BY <1>1, <2>1, <2>2
    <3> QED BY <1>1, <1>2, <1>3, <2>1, <3>1, JournalCommits
            DEF Preparing, Journaled
  <2>3. CASE phase'[op[p].cur] # "prepared"
    <3>1. \A u \in TxIds : Deciding'[u] = Deciding[u]
      BY <1>1, <2>1, <2>3
    <3> QED BY <1>1, <1>2, <1>3, <3>1, OneDecides, SteadyStep
  <2> QED BY <2>2, <2>3
<1>4. ASSUME NEW p \in Procs, pc[p] = "marksync" PROVE Stutters
  <2>1. /\ op[p].cur \in TxIds /\ phase[op[p].cur] = "committed"
        /\ stablePhase[op[p].cur] = "prepared"
        /\ journal[op[p].cur].worktree = Home[p]
    BY <1>1, <1>4 DEF ProtocolInv, TypeInv, ProcTypes, CurPhase, RecoveredHere,
       Working, Local, Published
  <2>2. \A q \in Entries(op[p].cur) :
            disk[journal[op[p].cur].worktree][q] = journal[op[p].cur].new[q]
    BY <1>4, <2>1 DEF Local, Published, Here, Will
  <2>3. ASSUME NEW u \in TxIds, u # op[p].cur PROVE Deciding'[u] = Deciding[u]
    <3>1. ASSUME NEW r \in Procs, pc[r] \in {"journalsync", "marksync"} PROVE r = p
      BY <1>4, <3>1, OneHolder DEF Locked, Step
    <3>2. phase[u] = stablePhase[u]
      BY <1>1, <2>3, <3>1 DEF Synced
    <3> QED BY <1>1, <3>2
  <2>4. Deciding[op[p].cur] \in Journaled /\ Deciding'[op[p].cur] \in Journaled
    BY <1>1, <2>1 DEF Journaled
  <2> QED BY <1>1, <1>2, <1>4, <2>2, <2>3, <2>4, OneDecides, SteadyStep
<1>5. ASSUME \A p \in Procs : pc[p] \notin {"journalsync", "marksync"}
      PROVE  Stutters
  <2>1. \A t \in TxIds : Deciding'[t] = Deciding[t]
    BY <1>1, <1>5 DEF Synced
  <2>2. CASE UNCHANGED disk
    BY <1>1, <2>1, <2>2, OneDecides, SteadyStep
  <2>3. CASE disk' # disk
    <3>1. PICK w \in Worktrees, q \in Paths : disk'[w][q] # disk[w][q]
      BY <1>1, <2>3
    <3>2. disk'[w][q] = stable[w][q] /\ stable[w][q] # disk[w][q]
      BY <1>1, <3>1
    <3>3. PICK p \in Procs : InFlight(p, w, q)
      BY <1>1, <3>2 DEF DiskSynced
    <3>4. /\ pc[p] \in {"displaced", "sync"} /\ Home[p] = w /\ IsNext(p, q)
          /\ stable[w][q] = Was(p)[q]
      BY <3>3 DEF InFlight
    <3>5. /\ op[p].cur \in TxIds /\ Deciding[op[p].cur] = "prepared"
          /\ journal[op[p].cur].worktree = w
      BY <3>4, PublishedDecides DEF Publishing
    <3>6. Here(p)[q] = Will(p)[q] /\ q \in Entries(op[p].cur)
      BY <3>4 DEF Local, Published, Publishing, IsNext, IsFirst
    <3>7. /\ journal[op[p].cur].old[q] # journal[op[p].cur].new[q]
          /\ disk[w][q] = journal[op[p].cur].new[q]
          /\ disk'[w][q] = journal[op[p].cur].old[q]
      BY <3>2, <3>4, <3>6 DEF Entries, Here, Was, Will
    <3>8. ASSUME NEW x \in Worktrees, NEW r \in Paths, x # w \/ r # q
          PROVE  disk'[x][r] = disk[x][r]
      <4>1. SUFFICES ASSUME stable[x][r] # disk[x][r] PROVE FALSE
        BY <1>1
      <4>2. PICK s \in Procs : InFlight(s, x, r)
        BY <1>1, <4>1 DEF DiskSynced
      <4>3. s = p
        BY <3>4, <4>2, OneHolder DEF InFlight, Locked, Step
      <4>4. op[p].left \subseteq Paths
        BY DEF ProtocolInv, TypeInv, ProcTypes, Operation
      <4> QED BY <3>4, <3>8, <4>2, <4>3, <4>4, OneNext DEF InFlight
    <3>9. Logical' = Logical
      BY <1>1, <2>1, <3>5, <3>7, <3>8, OneDecides, OnePath
    <3>10. Done' = Done
      BY <2>1 DEF Done
    <3> QED BY <1>1, <3>9, <3>10 DEF Stutters
  <2> QED BY <2>2, <2>3
<1> QED BY <1>3, <1>4, <1>5

LEMMA RefineInit == Init => Abstract!Init
<1> SUFFICES ASSUME Init PROVE Abstract!Init
  OBVIOUS
<1>1. \A t \in TxIds : Deciding[t] = "free"
  BY DEF Init, Deciding
<1>2. Done = {}
  BY <1>1 DEF Done, Journaled
<1>3. ASSUME NEW w \in Worktrees, NEW q \in Paths
      PROVE  Logical[w][q] = disk[w][q] /\ disk[w][q] \in {Absent, Original}
  <2>1. Unapplied(w, q) = {}
    BY <1>1 DEF Unapplied
  <2>2. disk \in [Worktrees -> [Paths -> {Absent, Original}]]
    BY DEF Init
  <2> QED BY <2>1, <2>2, LogicalIs DEF LogicalValue
<1>4. Logical \in [Worktrees -> [Paths -> {Absent, Original}]]
  BY <1>3, LogicalShape
<1> QED BY <1>2, <1>4
        DEF Init, Done, Abstract!Init, Abstract!Absent, Abstract!Original, Absent,
            Original

LEMMA RefineStep ==
  ASSUME "edit" \notin Faults
  PROVE  CommitInv /\ [Next]_vars => Abstract!Next \/ Stutters
<1> SUFFICES ASSUME CommitInv, [Next]_vars PROVE Abstract!Next \/ Stutters
  OBVIOUS
<1>1. CASE UNCHANGED vars
  BY <1>1, NothingHappens DEF vars
<1>2. ASSUME NEW p \in Procs,
             \/ Client(p) \/ Kill(p) \/ Load(p) \/ Advance(p) \/ NothingPending(p)
             \/ CheckEntry(p) \/ Displaced(p) \/ SyncEntry(p) \/ VerifyEntry(p)
             \/ Proceed(p) \/ Refuse(p) \/ Stage(p)
      PROVE  Stutters
  <2>1. CASE Displaced(p)
    <3>1. UNCHANGED disk
      BY <2>1, ExchangeKept DEF KeepExchange
    <3> QED BY <2>1, <3>1, NothingHappens DEF Displaced
  <2>2. CASE ~Displaced(p)
    <3>1. UNCHANGED <<disk, phase, stablePhase, journal, acked>>
      BY <1>2, <2>2
         DEF Client, StartScan, ScanPath, EndScan, Request, Discard, Recover, Kill,
             Load, Advance, NothingPending, CheckEntry, SyncEntry, VerifyEntry,
             Proceed, Refuse, Stage, durableVars
    <3> QED BY <3>1, NothingHappens
  <2> QED BY <2>1, <2>2
<1>3. ASSUME NEW w \in Worktrees, NEW q \in Paths, Edit(w, q) PROVE FALSE
  BY <1>3 DEF Edit
<1> QED BY <1>1, <1>2, <1>3, PowerLossStep, JournalStep, FinishStep, SwapStutters,
        MarkStutters, HousekeepingStutters
        DEF Next, Tool, Publish, Prune, Persist

(* Unless records are edited by hand, or processes die and the power fails *)
(* in one run, Store.Transact changes all paths of a request in one step:  *)
(* publishing the journal is the commit, with power losses once it is      *)
(* synced; nothing else the tool does, no crash and no recovery changes    *)
(* the logical contents, and only what has happened is acknowledged.       *)
THEOREM TransactCommitsAtOnce ==
  ASSUME "edit" \notin Faults, ~({"kill", "power"} \subseteq Faults)
  PROVE  Spec => TransactIsAtomic
<1>1. CommitInv /\ [Next]_vars => [Abstract!Next]_(Abstract!vars)
  BY RefineStep DEF Stutters, Done, Abstract!vars
<1> QED BY <1>1, RefineInit, CommitInit, CommitStep, PTL
        DEF Spec, TransactIsAtomic, Abstract!Spec


-----------------------------------------------------------------------------
(* An edit the journals do not know.                                       *)

(* Requests and journals that only write.  Whoever publishes is at an      *)
(* entry of its journal, so what it puts in place is a content of its own. *)
WritesOnly ==
    /\ \A p \in Procs, q \in Paths : op[p].plan[q] # "delete"
    /\ \A t \in TxIds, q \in Paths :
           journal[t].new[q] \in {journal[t].old[q], Written(t)}
    /\ \A p \in Procs :
           pc[p] \in Publishing => op[p].left \subseteq Entries(op[p].cur)

\* A power loss cannot take an edit back.
EditSynced == \A w \in Worktrees, q \in Paths, n \in 1 .. MaxEdits :
    disk[w][q] = Edited(n) => stable[w][q] = Edited(n)

AsideInv == ProtocolInv /\ WritesOnly /\ EditSynced

LEMMA OwnContents == \A t, n :
    /\ Written(t) # Edited(n) /\ Written(t) # Absent
    /\ Absent # Edited(n) /\ Original # Edited(n)
BY DEF Written, Edited, Absent, Original

LEMMA PublishesOwn ==
  ASSUME ProtocolInv, WritesOnly, NEW p \in Procs, pc[p] \in Publishing,
         NEW q \in op[p].left
  PROVE  q \in Paths /\ Will(p)[q] = Written(op[p].cur)
<1>1. op[p].cur \in TxIds
  BY DEF ProtocolInv, TypeInv, ProcTypes, Working
<1>2. q \in Entries(op[p].cur)
  BY DEF WritesOnly
<1> QED BY <1>1, <1>2 DEF WritesOnly, Entries, Will

(* The entries left to publish only become fewer.                          *)
LEMMA LeftShrinks ==
  ASSUME ProtocolInv, NEW p \in Procs,
         Client(p) \/ Kill(p) \/ (Tool(p) /\ ~Prepare(p)),
         ~Advance(p), pc'[p] \in Publishing
  PROVE  pc[p] \in Publishing /\ op'[p].left \subseteq op[p].left
         /\ op'[p].cur = op[p].cur
<1> USE DEF ProtocolInv, TypeInv, ProcTypes, Operation, durableVars, procVars,
       Goto, Release, Publishing
<1>1. CASE Client(p) \/ Kill(p)
  BY <1>1 DEF Client, StartScan, ScanPath, EndScan, Request, Discard, Recover, Kill
<1>2. CASE Acquire(p) \/ Load(p) \/ NothingPending(p) \/ Finish(p) \/ Proceed(p)
           \/ Refuse(p)
  BY <1>2 DEF Acquire, Load, NothingPending, Finish, Proceed, Refuse
<1>3. CASE CheckEntry(p)
  BY <1>3 DEF CheckEntry, PassNext
<1>4. CASE Swap(p)
  BY <1>4 DEF Swap, LinkNew, Exchange, Unlink, SwapFails
<1>5. CASE Displaced(p)
  BY <1>5 DEF Displaced, KeepExchange, ExchangeBack, ExchangeStuck
<1>6. CASE SyncEntry(p)
  BY <1>6 DEF SyncEntry
<1>7. CASE VerifyEntry(p)
  BY <1>7 DEF VerifyEntry, PassNext
<1>8. CASE MarkCommitted(p) \/ SyncMark(p) \/ Prune(p)
  BY <1>8 DEF MarkCommitted, SyncMark, Prune, UnlinkJournal, RemoveDirectory
<1>9. CASE Stage(p) \/ PublishJournal(p) \/ SyncJournal(p)
  BY <1>9 DEF Stage, PublishJournal, SyncJournal
<1> QED BY <1>1, <1>2, <1>3, <1>4, <1>5, <1>6, <1>7, <1>8, <1>9
        DEF Tool, Publish, Persist

LEMMA PlansKept ==
  ASSUME ProtocolInv, NEW p \in Procs, "delete" \notin Changes,
         Client(p) \/ Kill(p) \/ Tool(p), NEW q \in Paths,
         op[p].plan[q] # "delete"
  PROVE  op'[p].plan[q] # "delete"
<1> USE DEF ProtocolInv, TypeInv, ProcTypes, Operation, durableVars, procVars,
       Goto, Release
<1>0. ASSUME \/ op'[p].plan \in {op[p].plan, Keep}
             \/ op' = op
      PROVE  op'[p].plan[q] # "delete"
  BY <1>0 DEF Keep
<1>1. CASE Request(p)
  <2>1. PICK change \in [Paths -> Changes \cup {"keep"}] :
            op' = [op EXCEPT ![p].plan = change]
    BY <1>1 DEF Request
  <2>2. change[q] # "delete"
    OBVIOUS
  <2> QED BY <2>1, <2>2
<1>2. CASE StartScan(p) \/ ScanPath(p)
  <2>1. CASE StartScan(p)
    BY <1>0, <2>1 DEF StartScan
  <2>2. CASE ScanPath(p)
    <3>1. PICK r \in op[p].left :
              op' = [op EXCEPT ![p].seen[r] = Here(p)[r], ![p].left = @ \ {r}]
      BY <2>2 DEF ScanPath
    <3>2. op'[p].plan = op[p].plan
      BY <3>1
    <3> QED BY <1>0, <3>2
  <2> QED BY <1>2, <2>1, <2>2
<1>3. CASE \/ EndScan(p) \/ Discard(p) \/ Recover(p) \/ Kill(p) \/ Load(p)
           \/ Finish(p) \/ Refuse(p)
  <2>1. op' = op \/ op' = [op EXCEPT ![p] = NoOperation]
    BY <1>3 DEF EndScan, Discard, Recover, Kill, Load, Finish, Refuse
  <2>2. op' = op \/ op'[p].plan = Keep
    BY <2>1 DEF NoOperation
  <2> QED BY <1>0, <2>2
<1>4. CASE Acquire(p) \/ NothingPending(p) \/ Proceed(p)
  BY <1>0, <1>4 DEF Acquire, NothingPending, Proceed
<1>5. CASE Advance(p)
  <2>1. PICK t \in TxIds : op' = [op EXCEPT ![p].cur = t, ![p].left = Entries(t)]
    BY <1>5 DEF Advance, Pending
  <2>2. op'[p].plan = op[p].plan
    BY <2>1
  <2> QED BY <1>0, <2>2
<1>6. CASE CheckEntry(p) \/ SyncEntry(p) \/ VerifyEntry(p)
  <2>1. op'[p].plan \in {op[p].plan, Keep}
    BY <1>6 DEF CheckEntry, PassNext, SyncEntry, VerifyEntry, NoOperation
  <2> QED BY <1>0, <2>1
<1>7. CASE Swap(p) \/ Displaced(p)
  <2>1. op' = op \/ Release(p)
    BY <1>7 DEF Swap, LinkNew, Exchange, Unlink, SwapFails, Displaced,
           KeepExchange, ExchangeBack, ExchangeStuck
  <2>2. op'[p].plan \in {op[p].plan, Keep}
    BY <2>1 DEF NoOperation
  <2> QED BY <1>0, <2>2
<1>8. CASE MarkCommitted(p) \/ SyncMark(p) \/ Prune(p) \/ Stage(p) \/ PublishJournal(p)
  BY <1>0, <1>8 DEF MarkCommitted, SyncMark, Prune, UnlinkJournal, RemoveDirectory,
     Stage, PublishJournal
<1>9. CASE Prepare(p) \/ SyncJournal(p)
  <2>1. CASE Prepare(p)
    <3>1. PICK t \in TxIds : op' = [op EXCEPT ![p].cur = t, ![p].mine = t]
      BY <2>1 DEF Prepare, Free
    <3>2. op'[p].plan = op[p].plan
      BY <3>1
    <3> QED BY <1>0, <3>2
  <2>2. CASE SyncJournal(p)
    <3>1. op'[p].plan = Keep
      BY <2>2 DEF SyncJournal
    <3> QED BY <1>0, <3>1
  <2> QED BY <1>9, <2>1, <2>2
<1> QED BY <1>1, <1>2, <1>3, <1>4, <1>5, <1>6, <1>7, <1>8, <1>9
        DEF Client, Tool, Publish, Persist


LEMMA WritesOnlyStep ==
  ASSUME ProtocolInv, WritesOnly, "delete" \notin Changes, [Next]_vars
  PROVE  WritesOnly'
<1> DEFINE Fresh(t, q) == journal[t].new[q] \in {journal[t].old[q], Written(t)}
           AtEntry(p) == pc[p] \in Publishing => op[p].left \subseteq Entries(op[p].cur)
<1>1. CASE UNCHANGED vars
  BY <1>1 DEF vars, WritesOnly, Entries
<1>2. ASSUME NEW p \in Procs, Client(p) \/ Kill(p) \/ (Tool(p) /\ ~Prepare(p))
      PROVE  WritesOnly'
  <2>1. UNCHANGED journal
    <3>1. CASE Client(p) \/ Kill(p)
      BY <3>1 DEF Client, StartScan, ScanPath, EndScan, Request, Discard, Recover,
             Kill, durableVars
    <3>2. CASE Tool(p) /\ ~Prepare(p)
      BY <3>2 DEF Tool, Publish, Prune, Persist, Acquire, Load, Advance,
             NothingPending, CheckEntry, Swap, Displaced, SyncEntry, VerifyEntry,
             MarkCommitted, SyncMark, UnlinkJournal, RemoveDirectory, Finish,
             Proceed, Refuse, Stage, PublishJournal, SyncJournal, durableVars
    <3> QED BY <1>2, <3>1, <3>2
  <2>2. \A r \in Procs \ {p} : pc'[r] = pc[r] /\ op'[r] = op[r]
    <3>1. CASE Quiet(p)
      BY <3>1 DEF Quiet
    <3> QED BY <1>2, <3>1, QuietActions, OthersWait
            DEF Client, Tool, Publish, Prune, Persist
  <2>3. \A q \in Paths : op'[p].plan[q] # "delete"
    BY <1>2, PlansKept DEF WritesOnly
  <2>4. AtEntry(p)'
    <3>1. CASE Advance(p)
      <4>1. PICK t \in TxIds : op' = [op EXCEPT ![p].cur = t, ![p].left = Entries(t)]
        BY <3>1 DEF Advance, Pending
      <4>2. op'[p].cur = t /\ op'[p].left = Entries(t)
        BY <4>1 DEF ProtocolInv, TypeInv, ProcTypes, Operation
      <4> QED BY <2>1, <4>2 DEF Entries
    <3>2. CASE ~Advance(p)
      <4>1. ASSUME pc'[p] \in Publishing
            PROVE  op'[p].left \subseteq Entries(op'[p].cur)
        BY <1>2, <3>2, <4>1, LeftShrinks DEF WritesOnly
      <4> QED BY <2>1, <4>1 DEF Entries
    <3> QED BY <3>1, <3>2
  <2>5. \A r \in Procs \ {p} : AtEntry(r)'
    BY <2>1, <2>2 DEF WritesOnly, Entries
  <2>6. \A r \in Procs, q \in Paths : op'[r].plan[q] # "delete"
    BY <2>2, <2>3 DEF WritesOnly
  <2>7. \A t \in TxIds, q \in Paths : Fresh(t, q)'
    BY <2>1 DEF WritesOnly
  <2> QED BY <2>4, <2>5, <2>6, <2>7 DEF WritesOnly
<1>3. ASSUME NEW p \in Procs, Prepare(p) PROVE WritesOnly'
  <2>1. \A r \in Procs \ {p} : /\ pc'[r] = pc[r] /\ op'[r] = op[r]
                               /\ pc[r] \notin Locked
    BY <1>3, OthersWait
  <2>2. \A r \in Procs, q \in Paths : op'[r].plan[q] # "delete"
    BY <1>3, <2>1, PlansKept DEF WritesOnly, Tool, Persist
  <2>3. pc'[p] = "stage"
    BY <1>3 DEF Prepare, Goto, ProtocolInv, TypeInv, ProcTypes
  <2>4. \A r \in Procs : AtEntry(r)'
    BY <2>1, <2>3 DEF Locked, Step, Publishing
  <2>5. PICK t \in TxIds : journal' = [journal EXCEPT ![t] =
                [worktree |-> Home[p], old |-> Here(p), new |-> NewContent(p, t)]]
    BY <1>3 DEF Prepare, Free
  <2>6. ASSUME NEW q \in Paths
        PROVE  NewContent(p, t)[q] \in {Here(p)[q], Written(t)}
    BY <1>3 DEF NewContent, WritesOnly
  <2>7. /\ journal'[t].old = Here(p) /\ journal'[t].new = NewContent(p, t)
        /\ \A u \in TxIds \ {t} : journal'[u] = journal[u]
    BY <2>5 DEF ProtocolInv, TypeInv, DurableTypes
  <2>8. \A u \in TxIds, q \in Paths : Fresh(u, q)'
    BY <2>6, <2>7 DEF WritesOnly
  <2> QED BY <2>2, <2>4, <2>8 DEF WritesOnly
<1>4. CASE PowerLoss
  <2>1. \A p \in Procs : pc'[p] = "idle" /\ op'[p] = NoOperation
    BY <1>4 DEF PowerLoss
  <2>2. UNCHANGED journal
    BY <1>4 DEF PowerLoss
  <2>3. \A p \in Procs, q \in Paths : op'[p].plan[q] # "delete"
    BY <2>1 DEF NoOperation, Keep
  <2>4. \A p \in Procs : pc'[p] \notin Publishing
    BY <2>1 DEF Publishing
  <2> QED BY <2>2, <2>3, <2>4 DEF WritesOnly
<1>5. ASSUME NEW w \in Worktrees, NEW q \in Paths, Edit(w, q) PROVE WritesOnly'
  BY <1>5 DEF Edit, procVars, WritesOnly, Entries
<1> QED BY <1>1, <1>2, <1>3, <1>4, <1>5 DEF Next

(* What a step does to the edits in the tree: it keeps them there, in the  *)
(* temporary, or lets the person who made them replace them.               *)
KeepsEdits ==
    /\ EditSynced'
    /\ \A w \in Worktrees, q \in Paths, n \in 1 .. MaxEdits :
           edits' = edits /\ disk[w][q] = Edited(n)
               => Edited(n) \in {disk'[w][q], temp'[w][q]}

LEMMA SwapKeepsEdits ==
  ASSUME AsideInv, NEW p \in Procs, Swap(p) PROVE KeepsEdits
<1>1. PICK r \in op[p].left :
          LinkNew(p, r) \/ Exchange(p, r) \/ Unlink(p, r) \/ SwapFails(p, r)
  BY DEF Swap
<1>2. pc[p] \in Publishing /\ UNCHANGED <<stable, edits>>
  BY DEF Swap, Publishing, faultVars
<1> DEFINE mine == Written(op[p].cur)
<1>3. r \in Paths /\ Will(p)[r] = mine
  BY <1>2, PublishesOwn DEF AsideInv
<1>4. /\ Home[p] \in Worktrees
      /\ disk \in [Worktrees -> [Paths -> Content]]
      /\ temp \in [Worktrees -> [Paths -> Content]]
  BY DEF AsideInv, ProtocolInv, TypeInv, DurableTypes
<1>5. ~Unlink(p, r)
  BY <1>3, OwnContents DEF Unlink
<1> HIDE DEF mine
<1>6. \/ disk' = disk
      \/ /\ disk' = [disk EXCEPT ![Home[p]][r] = mine]
         /\ disk[Home[p]][r] = Absent
      \/ /\ disk' = [disk EXCEPT ![Home[p]][r] = mine]
         /\ temp' = [temp EXCEPT ![Home[p]][r] = disk[Home[p]][r]]
  BY <1>1, <1>3, <1>5 DEF LinkNew, Exchange, SwapFails, SetDisk, SetTemp, Here
<1>7. \A n : mine # Edited(n) /\ Absent # Edited(n)
  BY OwnContents DEF mine
<1>8. ASSUME NEW w \in Worktrees, NEW q \in Paths
      PROVE  \/ disk'[w][q] = disk[w][q]
             \/ disk'[w][q] = mine /\ disk[w][q] = Absent
             \/ disk'[w][q] = mine /\ temp'[w][q] = disk[w][q]
  BY <1>3, <1>4, <1>6
<1> QED BY <1>2, <1>7, <1>8 DEF KeepsEdits, AsideInv, EditSynced

LEMMA DisplacedKeepsEdits ==
  ASSUME AsideInv, NEW p \in Procs, Displaced(p) PROVE KeepsEdits
<1>1. PICK r \in op[p].left :
          KeepExchange(p, r) \/ ExchangeBack(p, r) \/ ExchangeStuck(p, r)
  BY DEF Displaced
<1>2. pc[p] \in Publishing /\ UNCHANGED edits
  BY DEF Displaced, Publishing, faultVars
<1>3. r \in Paths /\ \A n : Will(p)[r] # Edited(n)
  BY <1>2, PublishesOwn, OwnContents DEF AsideInv
<1>4. /\ Home[p] \in Worktrees
      /\ disk \in [Worktrees -> [Paths -> Content]]
      /\ stable \in [Worktrees -> [Paths -> Content]]
      /\ temp \in [Worktrees -> [Paths -> Content]]
  BY DEF AsideInv, ProtocolInv, TypeInv, DurableTypes
<1> DEFINE back == temp[Home[p]][r]
           aside == IF Here(p)[r] = Will(p)[r] THEN Absent ELSE Here(p)[r]
<1>5. aside = disk[Home[p]][r] \/ \A n : disk[Home[p]][r] # Edited(n)
  BY <1>3 DEF Here
<1>6. \/ UNCHANGED <<disk, stable>>
      \/ /\ disk' = [disk EXCEPT ![Home[p]][r] = back]
         /\ stable' = [stable EXCEPT ![Home[p]][r] = back]
         /\ temp' = [temp EXCEPT ![Home[p]][r] = aside]
  BY <1>1 DEF KeepExchange, ExchangeBack, ExchangeStuck, SetDisk, SetStable, SetTemp
<1> HIDE DEF back, aside
<1>7. ASSUME NEW w \in Worktrees, NEW q \in Paths
      PROVE  \/ disk'[w][q] = disk[w][q] /\ stable'[w][q] = stable[w][q]
             \/ /\ disk'[w][q] = stable'[w][q]
                /\ temp'[w][q] = disk[w][q] \/ \A n : disk[w][q] # Edited(n)
  BY <1>3, <1>4, <1>5, <1>6
<1> QED BY <1>2, <1>7 DEF KeepsEdits, AsideInv, EditSynced

LEMMA AsideStep ==
  ASSUME AsideInv, "delete" \notin Changes, [Next]_vars
  PROVE  AsideInv' /\ KeepsEdits
<1> SUFFICES KeepsEdits
  BY ProtocolStep, WritesOnlyStep DEF AsideInv, KeepsEdits
<1>0. ASSUME UNCHANGED <<disk, stable>> PROVE KeepsEdits
  BY <1>0 DEF KeepsEdits, AsideInv, EditSynced
<1>1. CASE UNCHANGED vars
  BY <1>0, <1>1 DEF vars
<1>2. ASSUME NEW p \in Procs, Client(p) \/ Kill(p) PROVE KeepsEdits
  BY <1>0, <1>2 DEF Client, StartScan, ScanPath, EndScan, Request, Discard, Recover,
     Kill, durableVars
<1>3. ASSUME NEW p \in Procs, Tool(p), ~Swap(p), ~Displaced(p), ~SyncEntry(p)
      PROVE  KeepsEdits
  <2>1. UNCHANGED <<disk, stable>>
    BY <1>3 DEF Tool, Publish, Prune, Persist, Acquire, Load, Advance,
       NothingPending, CheckEntry, VerifyEntry, MarkCommitted, SyncMark,
       UnlinkJournal, RemoveDirectory, Finish, Proceed, Refuse, Prepare, Stage,
       PublishJournal, SyncJournal, durableVars
  <2> QED BY <1>0, <2>1
<1>4. ASSUME NEW p \in Procs, SyncEntry(p) PROVE KeepsEdits
  <2>1. PICK r \in op[p].left : SetStable(p, r, Here(p)[r])
    BY <1>4 DEF SyncEntry
  <2>2. UNCHANGED disk
    BY <1>4 DEF SyncEntry
  <2>3. stable \in [Worktrees -> [Paths -> Content]]
    BY DEF AsideInv, ProtocolInv, TypeInv, DurableTypes
  <2>4. \A w \in Worktrees, q \in Paths : stable'[w][q] \in {stable[w][q], disk[w][q]}
    BY <2>1, <2>3 DEF SetStable, Here
  <2> QED BY <2>2, <2>4 DEF KeepsEdits, AsideInv, EditSynced
<1>5. CASE PowerLoss
  <2>1. ASSUME NEW w \in Worktrees, NEW q \in Paths
        PROVE  /\ disk'[w][q] \in {disk[w][q], stable[w][q]}
               /\ stable'[w][q] = disk'[w][q]
    BY <1>5 DEF PowerLoss
  <2> QED BY <2>1 DEF KeepsEdits, AsideInv, EditSynced
<1>6. ASSUME NEW w \in Worktrees, NEW q \in Paths, Edit(w, q) PROVE KeepsEdits
  <2>1. PICK v \in {Absent, Edited(edits + 1)} :
          /\ disk' = [disk EXCEPT ![w][q] = v]
          /\ stable' = [stable EXCEPT ![w][q] = v]
    BY <1>6 DEF Edit
  <2>2. edits' = edits + 1 /\ edits \in Nat
    BY <1>6 DEF Edit, AsideInv, ProtocolInv, TypeInv, FaultTypes
  <2>3. /\ disk \in [Worktrees -> [Paths -> Content]]
        /\ stable \in [Worktrees -> [Paths -> Content]]
    BY DEF AsideInv, ProtocolInv, TypeInv, DurableTypes
  <2>4. ASSUME NEW x \in Worktrees, NEW r \in Paths
        PROVE  \/ disk'[x][r] = stable'[x][r]
               \/ disk'[x][r] = disk[x][r] /\ stable'[x][r] = stable[x][r]
    BY <2>1, <2>3
  <2>5. EditSynced'
    BY <2>4 DEF AsideInv, EditSynced
  <2>6. edits' # edits
    BY <2>2
  <2> QED BY <2>5, <2>6 DEF KeepsEdits
<1> QED BY <1>1, <1>2, <1>3, <1>4, <1>5, <1>6, SwapKeepsEdits, DisplacedKeepsEdits
        DEF Next

LEMMA AsideInit == Init => AsideInv
<1> SUFFICES ASSUME Init PROVE WritesOnly /\ EditSynced
  BY ProtocolInit DEF AsideInv
<1>1. WritesOnly
  BY DEF Init, WritesOnly, NoOperation, Keep, NoJournal, Nothing, Publishing
<1>2. EditSynced
  BY DEF Init, EditSynced
<1> QED BY <1>1, <1>2

(* With requests that only write, no step of the tool and no crash puts    *)
(* anything over an edit by hand without keeping the edit in the           *)
(* temporary, from where it is exchanged back: a rename into place is only *)
(* used for a name that does not exist, and an edit needs no sync of the   *)
(* tool.  Requests that delete are excluded because an unlink keeps        *)
(* nothing.                                                                *)
THEOREM EditsAreSetAside ==
  ASSUME "delete" \notin Changes
  PROVE  Spec => EditSetAside
<1>1. AsideInv /\ [Next]_vars => AsideInv' /\ [SetAside]_vars
  BY AsideStep DEF KeepsEdits, SetAside
<1> QED BY <1>1, AsideInit, PTL DEF Spec, EditSetAside

=============================================================================
