------------------------------- MODULE Storage -------------------------------
(***************************************************************************)
(* Settings that survive a restart: the storage manager                    *)
(* (storage_manager.c) with the settings kept in it, the brightness        *)
(* (gpio_manager.c) and the watchface (wf_manager.c).  A setting is used   *)
(* from RAM; a write is system work that one of several workers carries    *)
(* out later.                                                              *)
(***************************************************************************)
EXTENDS Integers, Sequences, SequencesExt

CONSTANTS
  Values,         \* valid values of a setting
  Default,        \* 100 %, the first watchface
  Invalid,        \* what an older or newer firmware may have stored
  None,           \* the key is not stored
  SystemWorkers,
  MaxWrites       \* writes that may be queued

ASSUME StorageAssumption ==
  /\ Default \in Values /\ Invalid \notin Values /\ None \notin Values \cup {Invalid}
  /\ SystemWorkers \in Nat /\ MaxWrites \in Nat

Keys == {"BACKLIGHT", "WF_IDX"}

VARIABLES
  nvs,      \* the partition: key -> value
  ram,      \* backlight_percent and selected_wf
  ready,    \* initialized of the storage manager
  writes,   \* queued
  held,     \* by workers, in no order
  unsure    \* history: keys of which a write was lost, or two were in hand at once

svars == <<nvs, ram, ready, writes, held, unsure>>

Write(k, v) == [key |-> k, val |-> v]
PendingFor(k) == \E x \in Range(writes \o held) : x.key = k

StorageInit ==
  /\ nvs \in [Keys -> Values \cup {Invalid, None}]
  /\ ram = [k \in Keys |-> Default] /\ ready = FALSE
  /\ writes = <<>> /\ held = <<>> /\ unsure = {}

-----------------------------------------------------------------------------
\* storage_manager_save_key: refused when the partition could not be opened or
\* the queue is full; lost, though reported done, when the runtime lock cannot
\* be taken.
Saved(ks, vals, accepted) ==
  LET q == [i \in 1..Len(ks) |-> Write(ks[i], vals[ks[i]])] IN
  IF accepted /\ ready' /\ Len(writes) + Len(q) <= MaxWrites
  THEN /\ writes' = writes \o q
       /\ unsure' = unsure \ {k \in Range(ks) : ~PendingFor(k)}
  ELSE /\ writes' = writes
       /\ unsure' = unsure \cup Range(ks)

\* Mutant: the brightness is compared after it is set.
ComparedLate(k, v) == FALSE

\* The same brightness is not stored again; a watchface is.
MustSave(k, v) == k = "WF_IDX" \/ v # ram[k]

\* gpio_manager_backlight_set_brightness, watchface_manager_select_wf
SetSetting(k, v) ==
  /\ v \in Values /\ ram' = [ram EXCEPT ![k] = v]
  /\ UNCHANGED <<nvs, ready, held>>
  /\ IF MustSave(k, v) THEN \E ok \in BOOLEAN : Saved(<<k>>, ram', ok)
     ELSE UNCHANGED <<writes, unsure>>

(* storage_manager_execute_work, by a system worker *)
TakeWrite ==
  /\ writes # <<>> /\ Len(held) < SystemWorkers
  /\ held' = Append(held, Head(writes)) /\ writes' = Tail(writes)
  /\ unsure' = IF \E x \in Range(held) : x.key = Head(writes).key
               THEN unsure \cup {Head(writes).key} ELSE unsure
  /\ UNCHANGED <<nvs, ram, ready>>

\* The write succeeds or fails (no space, no namespace).
ExecuteWrite ==
  \E i \in DOMAIN held :
    /\ held' = RemoveAt(held, i)
    /\ \/ nvs' = [nvs EXCEPT ![held[i].key] = held[i].val] /\ unsure' = unsure
       \/ nvs' = nvs /\ unsure' = unsure \cup {held[i].key}
    /\ UNCHANGED <<ram, ready, writes>>

-----------------------------------------------------------------------------
\* retrieve_backlight_brightness, watchface_manager_get_selected_wf: a value
\* out of range gives the default, but is left in the partition.
Loaded(v) == IF v \in Values THEN v ELSE Default

\* storage_manager_init opens the partition, erases it when its format does
\* not fit, or fails; then the settings are read, and those that are missing
\* written.
StartStorage ==
  /\ \/ ready' = TRUE /\ (nvs' = nvs \/ nvs' = [k \in Keys |-> None])
     \/ ready' = FALSE /\ nvs' = nvs
  /\ ram' = [k \in Keys |-> IF ready' THEN Loaded(nvs'[k]) ELSE Default]
  /\ held' = <<>>
  /\ LET missing == {k \in Keys : ~ready' \/ nvs'[k] = None} IN
     IF missing = {} THEN writes' = writes /\ unsure' = {}
     ELSE \E ok \in BOOLEAN : Saved(SetToSeq(missing), ram', ok)

\* The workers end and what they had not done is lost.
DropWrites ==
  /\ writes' = <<>> /\ held' = <<>>
  /\ unsure' = unsure \cup {x.key : x \in Range(writes \o held)}
  /\ UNCHANGED <<nvs, ram, ready>>

-----------------------------------------------------------------------------
StorageTypeOK ==
  /\ nvs \in [Keys -> Values \cup {Invalid, None}] /\ ram \in [Keys -> Values]
  /\ ready \in BOOLEAN /\ unsure \subseteq Keys
  /\ Len(writes) <= MaxWrites /\ Len(held) <= SystemWorkers

\* When its writes are done the setting in use is the one a restart brings
\* back, unless a write was lost or two of them were carried out at once.
SettingKept ==
  \A k \in Keys \ unsure : ready /\ ~PendingFor(k) => Loaded(nvs[k]) = ram[k]

\* The write of k that will be carried out last
LastQueued(k, i) ==
  writes[i].key = k /\ \A j \in DOMAIN writes : writes[j].key = k => j <= i

\* The last write queued for a setting is the value in use; when none is queued, the only
\* one a worker holds is; when none is held either, the partition has it.
Tracked(k) ==
  /\ \A i, j \in DOMAIN held : held[i].key = k /\ held[j].key = k => i = j
  /\ \A i \in DOMAIN writes : LastQueued(k, i) => writes[i].val = ram[k]
  /\ (\A i \in DOMAIN writes : writes[i].key # k) =>
       /\ \A i \in DOMAIN held : held[i].key = k => held[i].val = ram[k]
       /\ (\A i \in DOMAIN held : held[i].key # k) => Loaded(nvs[k]) = ram[k]

\* Inductive: so it is for every setting no write of which was lost or overtaken.
StorageInv ==
  /\ writes \in Seq([key : Keys, val : Values]) /\ held \in Seq([key : Keys, val : Values])
  /\ ready => \A k \in Keys \ unsure : Tracked(k)

=============================================================================
