--------------------------- MODULE DurableDocument ---------------------------
(***************************************************************************)
(* What the storage of one CRDT document promises, with no files in it.    *)
(* An update is saved first and acknowledged later; an acknowledged update *)
(* is never forgotten, whatever crashes or failed writes happen; what the  *)
(* live document shows is saved.  The one exception is an update that the  *)
(* document rejects while it applies it: readers may see what that left    *)
(* until the document is opened again, though no writer is told it is kept.*)
(* CrdtStorage implements this.                                            *)
(***************************************************************************)
CONSTANTS
    Updates,            \* the updates writers may submit
    Rejected            \* those among them that the document cannot apply

VARIABLES
    saved,              \* what a reload of the document would contain
    acked,              \* updates acknowledged to their writers
    visible             \* what the loaded document shows, {} when not loaded

vars == <<saved, acked, visible>>

Init ==
    /\ acked \in SUBSET Updates      \* what an earlier format already held
    /\ saved = acked
    /\ visible = {}

\* An update reaches the disk before anybody hears of it.
Save(S) ==
    /\ S \cap acked = {}
    /\ saved' = saved \cup S
    /\ UNCHANGED <<acked, visible>>

\* Saved updates that were neither acknowledged nor shown may disappear.
Forget(S) ==
    /\ S \cap (acked \cup visible) = {}
    /\ saved' = saved \ S
    /\ UNCHANGED <<acked, visible>>

\* A saved update is applied to the live document and acknowledged.
Acknowledge(u) ==
    /\ u \in saved
    /\ acked' = acked \cup {u}
    /\ visible' = visible \cup {u}
    /\ UNCHANGED saved

\* A rejected update shows in the live document, saved or not.
Spill(u) ==
    /\ u \in Rejected \ acked
    /\ visible' = visible \cup {u}
    /\ UNCHANGED <<saved, acked>>

\* The document is loaded (again): it shows everything that is saved.
Open(S) ==
    /\ S \cap acked = {}
    /\ saved' = saved \ S
    /\ visible' = saved'
    /\ UNCHANGED acked

\* The process stops or drops the document; unacknowledged tails may go, and
\* a rejected update that showed may have been saved with the rest.
Close(S) ==
    /\ S \cap acked = {}
    /\ \E left \in SUBSET (visible \cap Rejected) : saved' = (saved \ S) \cup left
    /\ visible' = {}
    /\ UNCHANGED acked

\* Another store's document is taken over as a whole.
Adopt(S) ==
    /\ saved = {}
    /\ saved' = S
    /\ acked' = acked \cup S
    /\ UNCHANGED visible

Next ==
    \/ \E S \in SUBSET Updates :
          Save(S) \/ Forget(S) \/ Open(S) \/ Close(S) \/ Adopt(S)
    \/ \E u \in Updates : Acknowledge(u) \/ Spill(u)

Spec == Init /\ [][Next]_vars
=============================================================================
