-------------------------- MODULE UndisturbedRegistry --------------------------
(***************************************************************************)
(* ModelRegistry with one history variable: whether something has come in  *)
(* between that its operations take no precautions against.  The           *)
(* properties are those the registry has as long as nothing did.           *)
(***************************************************************************)
EXTENDS ModelRegistry

VARIABLE disturbed

historyVars == <<registryVars, disturbed>>

HistoryInit == Init /\ disturbed = FALSE

(* Two operations are under way. *)
Overlap == \E o, x \in Ops : o # x /\ op[o].pc # "idle" /\ op[x].pc # "idle"

(* The models could not be read from the database. *)
NothingRead ==
  \/ \E o \in Ops : LoadFails(o)
  \/ Restart /\ memory' = Nothing /\ \A f \in Selections : GetAllModels(f) # Nothing

(* An admin changes a name that another provider has too: the entry of     *)
(* that name in memory may be the other's.                                 *)
SharedName ==
  \E o \in Ops, k \in Keys, kind \in AdminKinds \cap Kinds :
    AdminWrite(o, kind, k) /\ SourcesOf(k[1]) \ {k[2]} # {}

HistoryNext == Next /\ disturbed' = (disturbed \/ Overlap' \/ NothingRead \/ SharedName)

HistorySpec == HistoryInit /\ [][HistoryNext]_historyVars

-------------------------------------------------------------------------------
(* Properties *)

(* Undisturbed, the collection is what the table says (MemoryMirrorsTable; *)
(* loadModelsFromDatabase, and the handlers that write both).              *)
MirrorsUndisturbed == ~disturbed => MemoryMirrorsTable

(* Undisturbed, what an admin deleted stays deleted (PermanentlyDeleted,   *)
(* handleDeleteModel).                                                     *)
DeletedUndisturbed == ~disturbed => PermanentlyDeleted

(* Undisturbed, the update disables only models without useful tags        *)
(* (disableEmptyTagModels).                                                *)
CleansUndisturbed == [][~disturbed => CleansUntagged]_historyVars
================================================================================
