---------------------------- MODULE Transaction ----------------------------
(***************************************************************************)
(* The prepared journal of internal/record: compound changes of canonical  *)
(* records that survive crashes, run by several processes in several linked *)
(* worktrees of one Git common directory.                                  *)
(*                                                                         *)
(* A process scans its worktree without a lock (Store.Inventory), decides, *)
(* and calls Transact (or only Recover).  Under the Git-common lock the    *)
(* tool first cleans what abandoned writers left, rolls every prepared     *)
(* journal of its own worktree forward, prunes old committed journals, and *)
(* only then prepares its own: stage every new content, publish the        *)
(* journal, publish each destination, mark the journal committed.          *)
(*                                                                         *)
(* Every durable thing has two values, what a running process sees and     *)
(* what survives a power loss; a sync makes the second equal to the first. *)
(* A content is named by who wrote it, so bytes, hashes and revisions are  *)
(* compared by comparing contents.                                         *)
(***************************************************************************)
EXTENDS Integers, FiniteSets

CONSTANTS
    Procs,      \* running commands and daemons, each one a Store
    Worktrees,  \* linked worktrees of the Git common directory
    Home,       \* Home[p] is the worktree of the Store of process p
    Paths,      \* canonical paths; their integer order is path byte order
    None,       \* no process, no worktree
    Faults,     \* which of "kill", "power" and "edit" can happen
    Changes,    \* what a request may do with a path: "write", "delete"
    MaxTx,      \* bound: transactions ever started
    MaxCrashes, \* bound: kills and power losses together
    MaxEdits,   \* bound: edits made by a human, an editor or Git
    Retention   \* committed journals kept (committedJournalRetention)

ASSUME HomeAssumption == Home \in [Procs -> Worktrees]
ASSUME PathsAssumption == Paths \subseteq Int
ASSUME NoneAssumption == None \notin Procs \cup Worktrees
ASSUME BoundsAssumption ==
    /\ MaxTx \in Nat /\ MaxCrashes \in Nat /\ MaxEdits \in Nat
    /\ Retention \in Nat
ASSUME ChangesAssumption == Changes \subseteq {"write", "delete"}

TxIds == 1 .. MaxTx

Absent == <<"absent", 0>>
Original == <<"original", 0>>
Written(t) == <<"tx", t>>
Edited(n) == <<"edit", n>>

Content == {Absent, Original} \cup {Written(t) : t \in TxIds}
             \cup {Edited(n) : n \in 1 .. MaxEdits}

(***************************************************************************)
(* Life of a transaction directory.  "open" is a directory that has no     *)
(* journal yet and "unlinked" one whose committed journal was already      *)
(* pruned: on disk they look the same.  "discarded" and "pruned" record    *)
(* which of the two it was when the directory is gone.                     *)
(***************************************************************************)
Phase == {"free", "open", "prepared", "committed",
          "unlinked", "pruned", "discarded"}

\* The journal of the transaction exists or existed.
Journaled == {"prepared", "committed", "unlinked", "pruned"}

\* The journal was marked committed.
Finished == {"committed", "unlinked", "pruned"}

Step == {"idle", "scan", "ready", "wait", "load", "advance", "check", "swap",
         "displaced", "sync", "verify", "marksync", "prune",
         "prepare", "stage", "journalsync"}

\* The steps a process makes with the lock held.
Locked == Step \ {"idle", "scan", "ready", "wait"}

VARIABLES
    disk,       \* disk[w][q]: the canonical content readers see
    stable,     \* stable[w][q]: the content a power loss leaves
    temp,       \* temp[w][q]: content an exchange displaced to a temporary
    phase,      \* phase[t]: the transaction directory, as readers see it
    stablePhase,\* stablePhase[t]: the same after a power loss
    journal,    \* journal[t]: worktree, old and new content of each path
    staged,     \* staged[t]: paths whose new content is durably staged
    lock,       \* the advisory lock on <git-common>/exp/v1/lock
    pc,         \* pc[p]: where process p is
    op,         \* op[p]: the local state of its operation
    acked,      \* transactions whose Transact returned committed
    crashes, edits

durableVars == <<disk, stable, temp, phase, stablePhase, journal, staged>>
procVars == <<lock, pc, op>>
faultVars == <<crashes, edits>>
vars == <<disk, stable, temp, phase, stablePhase, journal, staged,
          lock, pc, op, acked, crashes, edits>>

-----------------------------------------------------------------------------

Keep == [q \in Paths |-> "keep"]
Nothing == [q \in Paths |-> Absent]

(* Local state of one operation: what its scan returned, the paths still   *)
(* to scan or to publish, the request, the transaction being worked on and *)
(* the transaction the request became (0 for none).                        *)
NoOperation == [seen |-> Nothing, left |-> {}, plan |-> Keep, cur |-> 0, mine |-> 0]

NoJournal == [worktree |-> None, old |-> Nothing, new |-> Nothing]

\* Least element: journals are in transaction order, entries in path order.
IsFirst(x, S) == x \in S /\ \A y \in S : x <= y

\* The canonical paths transaction t changes.
Entries(t) == {q \in Paths : journal[t].old[q] # journal[t].new[q]}

\* Entries with staged bytes; a delete has none.
Staging(t) == {q \in Entries(t) : journal[t].new[q] # Absent}

\* Faulty variant: recovery takes up the journals of every linked worktree.
PendingAnywhere(w) == {t \in TxIds : phase[t] = "prepared"}

Pending(w) == {t \in TxIds : phase[t] = "prepared" /\ journal[t].worktree = w}
Committed(w) == {t \in TxIds : phase[t] = "committed" /\ journal[t].worktree = w}
Unlinked(w) == {t \in TxIds : phase[t] = "unlinked" /\ journal[t].worktree = w}

(* A destination that is neither the old nor the new content. *)
Conflict(t) == \E q \in Entries(t) :
    disk[journal[t].worktree][q] \notin {journal[t].old[q], journal[t].new[q]}

(* Read-only inspection of the journals by a Store of worktree w: every    *)
(* directory must hold a journal, and none of its own may be prepared.     *)
InspectOK(w) == /\ \A t \in TxIds : phase[t] \notin {"open", "unlinked"}
                /\ Pending(w) = {}

Init ==
    /\ disk \in [Worktrees -> [Paths -> {Absent, Original}]]
    /\ stable = disk
    /\ temp = [w \in Worktrees |-> Nothing]
    /\ phase = [t \in TxIds |-> "free"]
    /\ stablePhase = phase
    /\ journal = [t \in TxIds |-> NoJournal]
    /\ staged = [t \in TxIds |-> {}]
    /\ lock = None
    /\ pc = [p \in Procs |-> "idle"]
    /\ op = [p \in Procs |-> NoOperation]
    /\ acked = {}
    /\ crashes = 0
    /\ edits = 0

-----------------------------------------------------------------------------
(* Parts of the steps.                                                     *)

Goto(p, step) == pc' = [pc EXCEPT ![p] = step]

\* The operation ends, with a result or an error, and the lock is released.
Release(p) == /\ lock' = None
              /\ Goto(p, "idle")
              /\ op' = [op EXCEPT ![p] = NoOperation]

Here(p) == disk[Home[p]]
Was(p) == journal[op[p].cur].old
Will(p) == journal[op[p].cur].new

\* The entry a scan or a publication is at.
IsNext(p, q) == IsFirst(q, op[p].left)
PassNext(p, q) == op' = [op EXCEPT ![p].left = @ \ {q}]

SetDisk(p, q, v) == disk' = [disk EXCEPT ![Home[p]][q] = v]

SetStable(p, q, v) == stable' = [stable EXCEPT ![Home[p]][q] = v]

\* Faulty variant: a rename over the destination displaces nothing.
RenameOver(p, q, v) == temp' = temp

SetTemp(p, q, v) == temp' = [temp EXCEPT ![Home[p]][q] = v]

-----------------------------------------------------------------------------
(* Store.Inventory: a scan between two inspections, without the lock.      *)

StartScan(p) ==
    /\ pc[p] = "idle"
    /\ InspectOK(Home[p])
    /\ Goto(p, "scan")
    /\ op' = [op EXCEPT ![p].left = Paths]
    /\ UNCHANGED <<durableVars, lock, acked, faultVars>>

ScanPath(p) ==
    /\ pc[p] = "scan"
    /\ \E q \in op[p].left :
        /\ IsNext(p, q)
        /\ op' = [op EXCEPT ![p].seen[q] = Here(p)[q], ![p].left = @ \ {q}]
    /\ UNCHANGED <<durableVars, lock, pc, acked, faultVars>>

EndScan(p) ==
    /\ pc[p] = "scan"
    /\ op[p].left = {}
    /\ \/ /\ InspectOK(Home[p])
          /\ Goto(p, "ready")
          /\ UNCHANGED op
       \/ /\ ~InspectOK(Home[p])
          /\ Goto(p, "idle")
          /\ op' = [op EXCEPT ![p] = NoOperation]
    /\ UNCHANGED <<durableVars, lock, acked, faultVars>>

(* The caller of Transact: any changes that fit the inventory it was       *)
(* given, whose contents are the expected revisions.                       *)
Request(p) ==
    /\ pc[p] = "ready"
    /\ \E change \in [Paths -> Changes \cup {"keep"}] :
        /\ change # Keep
        /\ \A q \in Paths : change[q] = "delete" => op[p].seen[q] # Absent
        /\ op' = [op EXCEPT ![p].plan = change]
    /\ Goto(p, "wait")
    /\ UNCHANGED <<durableVars, lock, acked, faultVars>>

\* The caller only wanted to read.
Discard(p) ==
    /\ pc[p] = "ready"
    /\ Goto(p, "idle")
    /\ op' = [op EXCEPT ![p] = NoOperation]
    /\ UNCHANGED <<durableVars, lock, acked, faultVars>>

\* Store.Recover: the operation of a caller without a request.
Recover(p) ==
    /\ pc[p] = "idle"
    /\ Goto(p, "wait")
    /\ UNCHANGED <<durableVars, lock, op, acked, faultVars>>

-----------------------------------------------------------------------------
(* withMutationLock: acquire the lock, then remove the writer's abandoned  *)
(* temporaries in this worktree and every directory without a journal.     *)

Unjournaled == {t \in TxIds : phase[t] \in {"open", "unlinked"}}

\* What a removed transaction directory is remembered as.
Removed(t) == IF phase[t] = "open" THEN "discarded" ELSE "pruned"

Acquire(p) ==
    /\ pc[p] = "wait"
    /\ lock = None
    /\ lock' = p
    /\ temp' = [temp EXCEPT ![Home[p]] = Nothing]
    /\ phase' = [t \in TxIds |->
                    IF t \in Unjournaled THEN Removed(t) ELSE phase[t]]
    /\ stablePhase' = [t \in TxIds |->
                    IF t \in Unjournaled THEN Removed(t) ELSE stablePhase[t]]
    /\ staged' = [t \in TxIds |-> IF t \in Unjournaled THEN {} ELSE staged[t]]
    /\ Goto(p, "load")
    /\ UNCHANGED <<disk, stable, journal, op, acked, faultVars>>

(* recoverPreparedTransactionsLocked validates every journal of this       *)
(* worktree before any one of them may change canonical state.             *)
Load(p) ==
    /\ pc[p] = "load"
    /\ \/ /\ \A t \in Pending(Home[p]) : ~Conflict(t)
          /\ Goto(p, "advance")
          /\ UNCHANGED <<lock, op>>
       \/ /\ \E t \in Pending(Home[p]) : Conflict(t)
          /\ Release(p)
    /\ UNCHANGED <<durableVars, acked, faultVars>>

\* The next prepared journal, in transaction order.
Advance(p) ==
    /\ pc[p] = "advance"
    /\ \E t \in Pending(Home[p]) :
        /\ IsFirst(t, Pending(Home[p]))
        /\ op' = [op EXCEPT ![p].cur = t, ![p].left = Entries(t)]
    /\ Goto(p, "check")
    /\ UNCHANGED <<durableVars, lock, acked, faultVars>>

\* Faulty variant: recovery stops before the last prepared journal.
RecoverNoMore(p) ==
    /\ pc[p] = "advance"
    /\ Goto(p, "prune")
    /\ UNCHANGED <<durableVars, lock, op, acked, faultVars>>

NothingPending(p) ==
    /\ pc[p] = "advance"
    /\ Pending(Home[p]) = {}
    /\ Goto(p, "prune")
    /\ UNCHANGED <<durableVars, lock, op, acked, faultVars>>

-----------------------------------------------------------------------------
(* publishPreparedTransactionLocked, entry by entry.  CheckEntry is the    *)
(* last look at the destination; the change itself is the next step.       *)

CheckEntry(p) ==
    /\ pc[p] = "check"
    /\ \E q \in op[p].left :
        /\ IsNext(p, q)
        /\ \/ /\ Here(p)[q] = Will(p)[q]
              /\ PassNext(p, q)
              /\ UNCHANGED <<lock, pc>>
           \/ /\ Here(p)[q] = Was(p)[q]
              /\ Goto(p, "swap")
              /\ UNCHANGED <<lock, op>>
           \/ /\ Here(p)[q] \notin {Was(p)[q], Will(p)[q]}
              /\ Release(p)
    /\ UNCHANGED <<durableVars, acked, faultVars>>

\* create: a hard link that does not clobber an existing name.
LinkNew(p, q) ==
    /\ Was(p)[q] = Absent
    /\ Here(p)[q] = Absent
    /\ SetDisk(p, q, Will(p)[q])
    /\ Goto(p, "sync")
    /\ UNCHANGED <<temp, lock, op>>

\* replace: exchange destination and temporary, whatever is there by now.
Exchange(p, q) ==
    /\ Was(p)[q] # Absent
    /\ Will(p)[q] # Absent
    /\ Here(p)[q] # Absent
    /\ SetDisk(p, q, Will(p)[q])
    /\ SetTemp(p, q, Here(p)[q])
    /\ Goto(p, "displaced")
    /\ UNCHANGED <<lock, op>>

\* delete: unlink the name, whatever is there by now.
Unlink(p, q) ==
    /\ Will(p)[q] = Absent
    /\ Here(p)[q] # Absent
    /\ SetDisk(p, q, Absent)
    /\ Goto(p, "sync")
    /\ UNCHANGED <<temp, lock, op>>

\* The name that must not exist does, or the one that must exist does not.
SwapFails(p, q) ==
    /\ (Was(p)[q] = Absent) # (Here(p)[q] = Absent)
    /\ Release(p)
    /\ UNCHANGED <<disk, temp>>

Swap(p) ==
    /\ pc[p] = "swap"
    /\ \E q \in op[p].left :
        /\ IsNext(p, q)
        /\ LinkNew(p, q) \/ Exchange(p, q) \/ Unlink(p, q) \/ SwapFails(p, q)
    /\ UNCHANGED <<stable, phase, stablePhase, journal, staged, acked, faultVars>>

(* replaceAtomicCAS after the exchange: keep it when both files are the    *)
(* expected ones, or exchange back; a file that is not the writer's own is *)
(* then left in the temporary.                                             *)

ExchangeGood(p, q) == /\ Here(p)[q] = Will(p)[q]
                      /\ temp[Home[p]][q] = Was(p)[q]

KeepExchange(p, q) ==
    /\ ExchangeGood(p, q)
    /\ SetTemp(p, q, Absent)
    /\ Goto(p, "sync")
    /\ UNCHANGED <<disk, stable, lock, op>>

ExchangeBack(p, q) ==
    /\ ~ExchangeGood(p, q)
    /\ Here(p)[q] # Absent
    /\ SetDisk(p, q, temp[Home[p]][q])
    /\ SetStable(p, q, temp[Home[p]][q])
    /\ SetTemp(p, q, IF Here(p)[q] = Will(p)[q] THEN Absent ELSE Here(p)[q])
    /\ Release(p)

\* The destination was removed meanwhile and cannot be exchanged back.
ExchangeStuck(p, q) ==
    /\ Here(p)[q] = Absent
    /\ Release(p)
    /\ UNCHANGED <<disk, stable, temp>>

Displaced(p) ==
    /\ pc[p] = "displaced"
    /\ \E q \in op[p].left :
        /\ IsNext(p, q)
        /\ KeepExchange(p, q) \/ ExchangeBack(p, q) \/ ExchangeStuck(p, q)
    /\ UNCHANGED <<phase, stablePhase, journal, staged, acked, faultVars>>

\* fsync of the destination's directory.
SyncEntry(p) ==
    /\ pc[p] = "sync"
    /\ \E q \in op[p].left : IsNext(p, q) /\ SetStable(p, q, Here(p)[q])
    /\ Goto(p, "verify")
    /\ UNCHANGED <<disk, temp, phase, stablePhase, journal, staged,
                   lock, op, acked, faultVars>>

VerifyEntry(p) ==
    /\ pc[p] = "verify"
    /\ \E q \in op[p].left :
        /\ IsNext(p, q)
        /\ \/ /\ Here(p)[q] = Will(p)[q]
              /\ PassNext(p, q)
              /\ Goto(p, "check")
              /\ UNCHANGED lock
           \/ /\ Here(p)[q] # Will(p)[q]
              /\ Release(p)
    /\ UNCHANGED <<durableVars, acked, faultVars>>

\* Faulty variant: committed before the last entry is published.
MarkEarly(p) ==
    /\ pc[p] = "check"
    /\ phase' = [phase EXCEPT ![op[p].cur] = "committed"]
    /\ Goto(p, "marksync")
    /\ UNCHANGED <<disk, stable, temp, stablePhase, journal, staged,
                   lock, op, acked, faultVars>>

\* markTransactionCommitted, once every entry is published.
MarkCommitted(p) ==
    /\ pc[p] = "check"
    /\ op[p].left = {}
    /\ phase' = [phase EXCEPT ![op[p].cur] = "committed"]
    /\ Goto(p, "marksync")
    /\ UNCHANGED <<disk, stable, temp, stablePhase, journal, staged,
                   lock, op, acked, faultVars>>

SyncMark(p) ==
    /\ pc[p] = "marksync"
    /\ stablePhase' = [stablePhase EXCEPT ![op[p].cur] = "committed"]
    /\ Goto(p, "advance")
    /\ UNCHANGED <<disk, stable, temp, phase, journal, staged,
                   lock, op, acked, faultVars>>

-----------------------------------------------------------------------------
(* pruneCommittedTransactions: unlink the journal first, so that a crash   *)
(* leaves a directory the next cleanup may remove.                         *)

Excess(w) == Cardinality(Committed(w)) > Retention

UnlinkJournal(p) ==
    /\ pc[p] = "prune"
    /\ Unlinked(Home[p]) = {}
    /\ Excess(Home[p])
    /\ \E t \in Committed(Home[p]) :
        /\ IsFirst(t, Committed(Home[p]))
        /\ phase' = [phase EXCEPT ![t] = "unlinked"]
        /\ stablePhase' = [stablePhase EXCEPT ![t] = "unlinked"]
    /\ UNCHANGED <<disk, stable, temp, journal, staged, procVars, acked, faultVars>>

RemoveDirectory(p) ==
    /\ pc[p] = "prune"
    /\ \E t \in Unlinked(Home[p]) :
        /\ phase' = [phase EXCEPT ![t] = "pruned"]
        /\ stablePhase' = [stablePhase EXCEPT ![t] = "pruned"]
        /\ staged' = [staged EXCEPT ![t] = {}]
    /\ UNCHANGED <<disk, stable, temp, journal, procVars, acked, faultVars>>

Pruned(p) == Unlinked(Home[p]) = {} /\ ~Excess(Home[p])

\* Recovery is over and nothing, or nothing more, was asked for.
Finish(p) ==
    /\ pc[p] = "prune"
    /\ Pruned(p)
    /\ op[p].plan = Keep
    /\ acked' = acked \cup ({op[p].mine} \ {0})
    /\ Release(p)
    /\ UNCHANGED <<durableVars, faultVars>>

\* Recovery is over and the process goes on with its own transaction.
Proceed(p) ==
    /\ pc[p] = "prune"
    /\ Pruned(p)
    /\ op[p].plan # Keep
    /\ Goto(p, "prepare")
    /\ UNCHANGED <<durableVars, lock, op, acked, faultVars>>

-----------------------------------------------------------------------------
(* prepareTransactionLocked and persistPreparedTransaction.                *)

\* What the request of p turns the canonical contents into.
NewContent(p, t) == [q \in Paths |-> CASE op[p].plan[q] = "write" -> Written(t)
                                       [] op[p].plan[q] = "delete" -> Absent
                                       [] OTHER -> Here(p)[q]]

\* Faulty variant: only the existence of each path is compared.
ExpectedExists(p) ==
    \A q \in Paths : op[p].plan[q] # "keep" =>
        (Here(p)[q] = Absent <=> op[p].seen[q] = Absent)

\* Every path the request changes still has the revision its caller read.
Expected(p) ==
    \A q \in Paths : op[p].plan[q] # "keep" => Here(p)[q] = op[p].seen[q]

Free == {t \in TxIds : phase[t] = "free"}

Prepare(p) ==
    /\ pc[p] = "prepare"
    /\ Expected(p)
    /\ \E t \in Free :
        /\ IsFirst(t, Free)
        /\ phase' = [phase EXCEPT ![t] = "open"]
        /\ stablePhase' = [stablePhase EXCEPT ![t] = "open"]
        /\ journal' = [journal EXCEPT ![t] =
                [worktree |-> Home[p], old |-> Here(p), new |-> NewContent(p, t)]]
        /\ op' = [op EXCEPT ![p].cur = t, ![p].mine = t]
    /\ Goto(p, "stage")
    /\ UNCHANGED <<disk, stable, temp, staged, lock, acked, faultVars>>

\* ErrConflict; or the bound MaxTx is reached.
Refuse(p) ==
    /\ pc[p] = "prepare"
    /\ ~Expected(p) \/ Free = {}
    /\ Release(p)
    /\ UNCHANGED <<durableVars, acked, faultVars>>

Unstaged(t) == Staging(t) \ staged[t]

Stage(p) ==
    /\ pc[p] = "stage"
    /\ \E q \in Unstaged(op[p].cur) :
        /\ IsFirst(q, Unstaged(op[p].cur))
        /\ staged' = [staged EXCEPT ![op[p].cur] = @ \cup {q}]
    /\ UNCHANGED <<disk, stable, temp, phase, stablePhase, journal,
                   procVars, acked, faultVars>>

PublishJournal(p) ==
    /\ pc[p] = "stage"
    /\ Unstaged(op[p].cur) = {}
    /\ phase' = [phase EXCEPT ![op[p].cur] = "prepared"]
    /\ Goto(p, "journalsync")
    /\ UNCHANGED <<disk, stable, temp, stablePhase, journal, staged,
                   lock, op, acked, faultVars>>

\* Faulty variant: publication starts before the journal is durable.
SkipJournalSync(p) ==
    /\ pc[p] = "journalsync"
    /\ op' = [op EXCEPT ![p].plan = Keep]
    /\ Goto(p, "load")
    /\ UNCHANGED <<durableVars, lock, acked, faultVars>>

\* Once it is durable, Transact rolls it forward like any other journal.
SyncJournal(p) ==
    /\ pc[p] = "journalsync"
    /\ stablePhase' = [stablePhase EXCEPT ![op[p].cur] = "prepared"]
    /\ op' = [op EXCEPT ![p].plan = Keep]
    /\ Goto(p, "load")
    /\ UNCHANGED <<disk, stable, temp, phase, journal, staged,
                   lock, acked, faultVars>>

-----------------------------------------------------------------------------
(* What the environment does.                                              *)

\* A process dies, or an I/O error ends its operation; the lock is freed.
Kill(p) ==
    /\ "kill" \in Faults
    /\ crashes < MaxCrashes
    /\ pc[p] # "idle"
    /\ crashes' = crashes + 1
    /\ lock' = IF lock = p THEN None ELSE lock
    /\ Goto(p, "idle")
    /\ op' = [op EXCEPT ![p] = NoOperation]
    /\ UNCHANGED <<durableVars, acked, edits>>

\* The machine stops; each change that was not synced may be lost.
PowerLoss ==
    /\ "power" \in Faults
    /\ crashes < MaxCrashes
    /\ crashes' = crashes + 1
    /\ \E lost \in SUBSET {c \in Worktrees \X Paths : disk[c[1]][c[2]] # stable[c[1]][c[2]]} :
        /\ disk' = [w \in Worktrees |-> [q \in Paths |->
                        IF <<w, q>> \in lost THEN stable[w][q] ELSE disk[w][q]]]
        /\ temp' = [w \in Worktrees |-> [q \in Paths |->
                        IF <<w, q>> \in lost THEN Absent ELSE temp[w][q]]]
    /\ \E lost \in SUBSET {t \in TxIds : phase[t] # stablePhase[t]} :
        phase' = [t \in TxIds |-> IF t \in lost THEN stablePhase[t] ELSE phase[t]]
    /\ stable' = disk'
    /\ stablePhase' = phase'
    /\ lock' = None
    /\ pc' = [p \in Procs |-> "idle"]
    /\ op' = [p \in Procs |-> NoOperation]
    /\ UNCHANGED <<journal, staged, acked, edits>>

\* A human, an editor or Git writes or removes a canonical file.
Edit(w, q) ==
    /\ "edit" \in Faults
    /\ edits < MaxEdits
    /\ edits' = edits + 1
    /\ \E v \in {Absent, Edited(edits + 1)} :
        /\ v # disk[w][q]
        /\ disk' = [disk EXCEPT ![w][q] = v]
        /\ stable' = [stable EXCEPT ![w][q] = v]
    /\ UNCHANGED <<temp, phase, stablePhase, journal, staged,
                   procVars, acked, crashes>>

-----------------------------------------------------------------------------

Client(p) == \/ StartScan(p) \/ ScanPath(p) \/ EndScan(p)
             \/ Request(p) \/ Discard(p) \/ Recover(p)

Publish(p) == \/ CheckEntry(p) \/ Swap(p) \/ Displaced(p) \/ SyncEntry(p)
              \/ VerifyEntry(p) \/ MarkCommitted(p) \/ SyncMark(p)

Prune(p) == UnlinkJournal(p) \/ RemoveDirectory(p)

Persist(p) == \/ Prepare(p) \/ Refuse(p) \/ Stage(p)
              \/ PublishJournal(p) \/ SyncJournal(p)

\* The steps of the tool from its wait for the lock on.
Tool(p) == \/ Acquire(p) \/ Load(p) \/ Advance(p) \/ NothingPending(p)
           \/ Publish(p) \/ Prune(p) \/ Finish(p) \/ Proceed(p) \/ Persist(p)

Next == \/ \E p \in Procs : Client(p) \/ Tool(p) \/ Kill(p)
        \/ PowerLoss
        \/ \E w \in Worktrees, q \in Paths : Edit(w, q)

Spec == Init /\ [][Next]_vars

-----------------------------------------------------------------------------
(* Properties.                                                             *)

\* Types of the variables of the journal protocol (record/transaction*.go).
TypeOK ==
    /\ disk \in [Worktrees -> [Paths -> Content]]
    /\ stable \in [Worktrees -> [Paths -> Content]]
    /\ temp \in [Worktrees -> [Paths -> Content]]
    /\ phase \in [TxIds -> Phase]
    /\ stablePhase \in [TxIds -> Phase]
    /\ journal \in [TxIds -> [worktree : Worktrees \cup {None},
                              old : [Paths -> Content], new : [Paths -> Content]]]
    /\ staged \in [TxIds -> SUBSET Paths]
    /\ lock \in Procs \cup {None}
    /\ pc \in [Procs -> Step]
    /\ op \in [Procs -> [seen : [Paths -> Content], left : SUBSET Paths,
                         plan : [Paths -> {"keep", "write", "delete"}],
                         cur : TxIds \cup {0}, mine : TxIds \cup {0}]]
    /\ acked \subseteq TxIds
    /\ crashes \in 0 .. MaxCrashes
    /\ edits \in 0 .. MaxEdits

(* Recovery runs before every preparation, so a worktree never has two     *)
(* prepared journals, whatever crashed: rolling one forward cannot meet    *)
(* contents another unfinished one wrote.                                  *)
OnePrepared == \A t, u \in TxIds :
    /\ phase[t] = "prepared" /\ phase[u] = "prepared"
    /\ journal[t].worktree = journal[u].worktree
    => t = u

(* A journal on disk always has every byte it promises to publish: staging *)
(* precedes the journal and pruning unlinks the journal first.             *)
StagedComplete == \A t \in TxIds :
    {phase[t], stablePhase[t]} \cap {"prepared", "committed"} # {}
        => Staging(t) \subseteq staged[t]

(* Contents written for one linked worktree never appear in another one,   *)
(* although all of them share the lock and the journal directory.          *)
OwnWorktree == \A w \in Worktrees, q \in Paths, t \in TxIds :
    disk[w][q] = Written(t) => journal[t].worktree = w

(* Optimistic concurrency: while a transaction is staged and published,    *)
(* each path it changes still has the content its caller read before it    *)
(* waited for the lock, so no other writer's change is lost.               *)
RevisionHeld == \A p \in Procs :
    pc[p] \in {"stage", "journalsync"} =>
        \A q \in Entries(op[p].cur) :
            /\ op[p].seen[q] = disk[journal[op[p].cur].worktree][q]
            /\ journal[op[p].cur].old[q] = op[p].seen[q]

(* A read that Store.Inventory returned shows no transaction half applied. *)
(* For requests that only write.                                           *)
ReadNotSplit == \A p \in Procs, t \in TxIds :
    /\ pc[p] = "ready"
    /\ phase[t] \in Journaled
    /\ journal[t].worktree = Home[p]
    => ~ \E q, r \in Entries(t) : /\ op[p].seen[q] = journal[t].new[q]
                                  /\ op[p].seen[r] = journal[t].old[r]

\* An edit is in the tree, or a publisher's exchange set it aside.
HasEdit(w, q, n) == Edited(n) \in {disk[w][q], temp[w][q]}

\* A prepared journal records the edit as the content it replaces.
Replaces(w, q, n) == \E t \in Pending(w) : journal[t].old[q] = Edited(n)

(* No step of the tool puts a transaction's content over an edit its       *)
(* journal does not know without keeping the edit in the temporary, from   *)
(* where it is exchanged back.  For requests that only write.              *)
SetAside == \A w \in Worktrees, q \in Paths, n \in 1 .. MaxEdits :
    edits' = edits /\ disk[w][q] = Edited(n) /\ ~Replaces(w, q, n)
        => Edited(n) \in {disk'[w][q], temp'[w][q]}
EditSetAside == [][SetAside]_vars

(* The tool never loses an edit that no prepared journal knows.            *)
EditNeverLost == [][\A w \in Worktrees, q \in Paths, n \in 1 .. MaxEdits :
    edits' = edits /\ HasEdit(w, q, n) /\ ~Replaces(w, q, n)
        => HasEdit(w, q, n)']_vars

-----------------------------------------------------------------------------
(* The abstract commit: a transaction changes all of its paths at once.    *)

\* The phase that decides whether a transaction counts as done.
Deciding == IF "power" \in Faults THEN stablePhase ELSE phase

\* Prepared transactions that still have to change path q of worktree w.
Unapplied(w, q) == {t \in TxIds : /\ Deciding[t] = "prepared"
                                  /\ journal[t].worktree = w
                                  /\ q \in Entries(t)
                                  /\ disk[w][q] = journal[t].old[q]}

\* Canonical contents, every prepared journal taken as rolled forward.
Logical == [w \in Worktrees |-> [q \in Paths |->
    IF Unapplied(w, q) = {} THEN disk[w][q]
    ELSE journal[CHOOSE t \in Unapplied(w, q) : TRUE].new[q]]]

Abstract == INSTANCE AtomicCommit WITH
    canon <- Logical,
    committed <- {t \in TxIds : Deciding[t] \in Journaled}

(* Without edits, and with kills or power losses but not both, Transact    *)
(* implements the atomic commit: publishing the journal is the commit,     *)
(* which precedes its acknowledgement and is never taken back, and every   *)
(* other step, crash and recovery leaves the logical contents alone.       *)
TransactIsAtomic == Abstract!Spec

-----------------------------------------------------------------------------
(* Fairness: a process that waits for or holds the lock goes on (the lock  *)
(* is polled every 10 ms until it is acquired), and as long as a prepared  *)
(* journal blocks every read somebody runs a command that recovers.        *)
Fairness == \A p \in Procs : /\ WF_vars(Tool(p))
                             /\ SF_vars(Acquire(p))
                             /\ WF_vars(Recover(p))

FairSpec == Spec /\ Fairness

\* Without edits, a prepared journal is eventually rolled forward.
PreparedIsFinished == \A t \in TxIds :
    phase[t] = "prepared" ~> phase[t] \in Finished

\* An operation that waits for the lock ends, whoever dies holding it.
WaiterEnds(p) == pc[p] = "wait" ~> pc[p] = "idle"

=============================================================================
