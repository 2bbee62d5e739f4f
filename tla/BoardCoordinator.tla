-------------------------- MODULE BoardCoordinator --------------------------
(***************************************************************************)
(* The persistence of one collaborative board: element ops applied to the  *)
(* coordinator's memory, the debounce timer and its flushes, and the HTTP  *)
(* actions that write the same row (collab_socket.go, collab.go,           *)
(* collab_versions.go).                                                    *)
(*                                                                         *)
(* OnMessage and the first half of a flush run under the state's mutex and *)
(* are one action each; the UPDATE of a flush runs after the unlock.       *)
(***************************************************************************)
EXTENDS Naturals, FiniteSets

CONSTANTS
  Elements,   \* element ids
  Values,     \* what a set op may write
  Absent,     \* no such element
  Nothing,    \* no row; an idle slot
  Seeds,      \* snapshots a board may be created with (blank, or a template's)
  Slots,      \* UPDATEs of the coordinator that may be in flight at once
  MaxOps,     \* bound on ops
  MaxFaults   \* bound on failures, restarts and restores

Snapshots == [Elements -> Values \cup {Absent}]
Empty     == [e \in Elements |-> Absent]

ASSUME BoardAssumption ==
  /\ Absent \notin Values /\ Nothing \notin Snapshots
  /\ Seeds \subseteq Snapshots
  /\ MaxOps \in Nat /\ MaxFaults \in Nat

VARIABLES
  row,       \* collab_boards.snapshot, Nothing once the board is deleted
  elements,  \* boardState of the running server
  loaded,
  dirty,
  timer,     \* the debounce timer is armed
  fired,     \* flushes the timer has started and that wait for the mutex
  saving,    \* snapshots whose UPDATE is in flight
  versions,  \* checkpoints of the board
  edited,    \* elements some op was about
  mishaps,   \* what may have set the row and the memory apart
  ops,
  faults

state  == <<elements, loaded, dirty, timer, fired>>
boardVars   == <<row, state, saving, versions, edited, mishaps, ops, faults>>

BoardInit ==
  /\ row \in Seeds
  /\ elements = Empty /\ loaded = FALSE /\ dirty = FALSE
  /\ timer = FALSE /\ fired = 0
  /\ saving = [s \in Slots |-> Nothing]
  /\ versions = {} /\ edited = {} /\ mishaps = {}
  /\ ops = 0 /\ faults = 0

Fault == faults < MaxFaults /\ faults' = faults + 1

-----------------------------------------------------------------------------
(* OnMessage                                                               *)

\* faulty variant: nothing is loaded, the first op starts from a blank board
LoadNothing(known) ==
  /\ known = (IF loaded THEN elements ELSE Empty)
  /\ UNCHANGED <<mishaps, faults>>

\* loadLocked: the first op after a start seeds the memory from the row; if
\* the row cannot be read the memory counts as loaded all the same.
Load(known) ==
  \/ /\ known = (IF loaded THEN elements ELSE row)
     /\ known # Nothing
     /\ UNCHANGED <<mishaps, faults>>
  \/ /\ ~loaded /\ (row = Nothing \/ faults < MaxFaults)
     /\ known = Empty
     /\ mishaps' = mishaps \cup {"load"}
     /\ faults' = IF row = Nothing THEN faults ELSE faults + 1

\* scheduleSaveLocked: Stop does not take back a timer that has fired.
ScheduleSave == timer' = TRUE

\* A set or a delete op.  Other ops return without a change but load first.
ApplyOp(e, v) ==
  /\ ops < MaxOps /\ ops' = ops + 1
  /\ \E known \in Snapshots : Load(known) /\ elements' = [known EXCEPT ![e] = v]
  /\ loaded' = TRUE /\ dirty' = TRUE
  /\ ScheduleSave
  /\ edited' = edited \cup {e}
  /\ UNCHANGED <<row, fired, saving, versions>>

OtherOp ==
  /\ ~loaded
  /\ \E known \in Snapshots : Load(known) /\ elements' = known
  /\ loaded' = TRUE
  /\ UNCHANGED <<row, dirty, timer, fired, saving, versions, edited, ops>>

-----------------------------------------------------------------------------
(* The timer and flush                                                     *)

TimerFires ==
  /\ timer
  /\ timer' = FALSE /\ fired' = fired + 1
  /\ UNCHANGED <<row, elements, loaded, dirty, saving, versions, edited, mishaps, ops, faults>>

FlushClean ==
  /\ fired > 0 /\ ~dirty
  /\ fired' = fired - 1
  /\ UNCHANGED <<row, elements, loaded, dirty, timer, saving, versions, edited, mishaps, ops, faults>>

InFlight == {s \in Slots : saving[s] # Nothing}

\* faulty variant: a flush gives way to a save in flight and forgets to return
FlushSkips(s) ==
  /\ fired > 0 /\ dirty /\ saving[s] = Nothing
  /\ fired' = fired - 1
  /\ IF InFlight = {} THEN dirty' = FALSE /\ saving' = [saving EXCEPT ![s] = elements]
                      ELSE UNCHANGED <<dirty, saving>>
  /\ UNCHANGED <<row, elements, loaded, timer, versions, edited, mishaps, ops, faults>>

\* Marshal, clear dirty, unlock.
FlushDirty(s) ==
  /\ fired > 0 /\ dirty /\ saving[s] = Nothing
  /\ fired' = fired - 1 /\ dirty' = FALSE
  /\ saving' = [saving EXCEPT ![s] = elements]
  /\ mishaps' = IF InFlight = {} THEN mishaps ELSE mishaps \cup {"overlap"}
  /\ UNCHANGED <<row, elements, loaded, timer, versions, edited, ops, faults>>

\* faulty variant: what is saved is merged into the row element by element
SaveMerges(s) ==
  /\ saving[s] # Nothing
  /\ row' = IF row = Nothing THEN row
            ELSE [e \in Elements |-> IF saving[s][e] = Absent THEN row[e] ELSE saving[s][e]]
  /\ saving' = [saving EXCEPT ![s] = Nothing]
  /\ UNCHANGED <<state, versions, edited, mishaps, ops, faults>>

\* SaveSnapshot: no row, no update.
Save(s) ==
  /\ saving[s] # Nothing
  /\ row' = IF row = Nothing THEN row ELSE saving[s]
  /\ saving' = [saving EXCEPT ![s] = Nothing]
  /\ UNCHANGED <<state, versions, edited, mishaps, ops, faults>>

\* The UPDATE fails; the error is logged and dirty stays cleared.
SaveFails(s) ==
  /\ saving[s] # Nothing /\ Fault
  /\ saving' = [saving EXCEPT ![s] = Nothing]
  /\ mishaps' = mishaps \cup {"save"}
  /\ UNCHANGED <<row, state, versions, edited, ops>>

-----------------------------------------------------------------------------
(* HTTP actions and the process                                            *)

SaveBoardVersion ==
  /\ row # Nothing
  /\ versions' = versions \cup {row}
  /\ UNCHANGED <<row, state, saving, edited, mishaps, ops, faults>>

\* The row is set behind the coordinator's back.
RestoreBoardVersion(v) ==
  /\ v \in versions /\ row # Nothing /\ Fault
  /\ row' = v
  /\ mishaps' = mishaps \cup {"restore"}
  /\ UNCHANGED <<state, saving, versions, edited, ops>>

DeleteBoardVersion(v) ==
  /\ v \in versions
  /\ versions' = versions \ {v}
  /\ UNCHANGED <<row, state, saving, edited, mishaps, ops, faults>>

DeleteBoard ==
  /\ row # Nothing /\ Fault
  /\ row' = Nothing /\ versions' = {}
  /\ mishaps' = mishaps \cup {"deleted"}
  /\ UNCHANGED <<state, saving, edited, ops>>

\* The server stops; an UPDATE in flight may still be applied.
Restart ==
  /\ Fault
  /\ elements' = Empty /\ loaded' = FALSE /\ dirty' = FALSE
  /\ timer' = FALSE /\ fired' = 0
  /\ saving' = [s \in Slots |-> Nothing]
  /\ \/ UNCHANGED row
     \/ row # Nothing /\ \E s \in InFlight : row' = saving[s]
  /\ UNCHANGED <<versions, edited, mishaps, ops>>

-----------------------------------------------------------------------------
Flush == FlushClean \/ \E s \in Slots : FlushDirty(s) \/ Save(s)

BoardNext ==
  \/ \E e \in Elements, v \in Values \cup {Absent} : ApplyOp(e, v)
  \/ OtherOp
  \/ TimerFires \/ Flush
  \/ \E s \in Slots : SaveFails(s)
  \/ SaveBoardVersion \/ DeleteBoard \/ Restart
  \/ \E v \in versions : RestoreBoardVersion(v) \/ DeleteBoardVersion(v)

BoardSpec == BoardInit /\ [][BoardNext]_boardVars

\* Timers fire, and the goroutines they start run to their end.
BoardFairSpec == BoardSpec /\ WF_boardVars(TimerFires) /\ WF_boardVars(Flush)

-----------------------------------------------------------------------------
(* Properties                                                              *)

(* The row, the memory, the saves and the checkpoints hold snapshots.      *)
BoardTypeOK ==
  /\ row \in Snapshots \cup {Nothing}
  /\ elements \in Snapshots
  /\ loaded \in BOOLEAN /\ dirty \in BOOLEAN /\ timer \in BOOLEAN
  /\ fired \in Nat
  /\ saving \in [Slots -> Snapshots \cup {Nothing}]
  /\ versions \subseteq Snapshots
  /\ edited \subseteq Elements
  /\ mishaps \subseteq {"load", "save", "overlap", "restore", "deleted"}
  /\ ops \in 0..MaxOps /\ faults \in 0..MaxFaults

(* An unsaved change always has a flush to come, though the timer may fire *)
(* while an op holds the mutex and Stop comes too late.                    *)
DirtyIsScheduled == dirty => loaded /\ (timer \/ fired > 0)

(* With nothing left to save, the row is what the members see, unless a    *)
(* load or a save failed, two saves overlapped or the row was replaced: no *)
(* other interleaving loses an op.                                         *)
SavedUnlessMishap ==
  loaded /\ ~dirty /\ InFlight = {} /\ mishaps = {} => row = elements

(* A partial op never clobbers existing elements (loadLocked): an element  *)
(* no op was about keeps its value in the row, across any number of saves  *)
(* and restarts, as long as every load succeeded and nothing was restored. *)
OthersUntouched ==
  [][mishaps' \cap {"load", "restore", "deleted"} = {} =>
       \A e \in Elements \ edited : row'[e] = row[e]]_boardVars

(* Every change is handed to the database in the end.                      *)
ChangesAreFlushed == dirty ~> ~dirty
=============================================================================
