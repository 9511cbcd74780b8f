------------------------------ MODULE Settings ------------------------------
(***************************************************************************)
(* The table of settings and the Proxmox client that is configured from    *)
(* it.  A save writes its keys one after the other, each in a transaction; *)
(* after a key of the client, it reads all of the client's keys and then   *)
(* takes them into memory.  Saves of two pages interleave, the read can    *)
(* fail, the server can start again.                                       *)
(***************************************************************************)
EXTENDS Naturals, Sequences, FiniteSets

CONSTANTS
    Savers,       \* calls that save
    ProxmoxKeys, OtherKeys,
    Forms,        \* the sequences of keys that a page or a call sends
    Values,       \* what they are set to; 0 is no row
    MaxFaults

Keys == ProxmoxKeys \cup OtherKeys
NoSetting == [k \in Keys |-> 0]

ASSUME SettingsAssumption ==
    /\ ProxmoxKeys \cap OtherKeys = {} /\ 0 \notin Values /\ MaxFaults \in Nat
    /\ \A f \in Forms : \A i \in DOMAIN f : f[i] \in Keys

VARIABLES
    setting,    \* the rows
    memory,     \* the client's fields; 0 is the value of the environment
    phase, left, value, copy,   \* a save: what it has to write, what it read
    saves, broken,   \* bounds: saves that may begin, failures so far
    crossed,    \* history: saves whose copy was read before a later commit
    behind      \*   the refresh that ended last had read too early, or failed

settingVars == <<setting, memory, phase, left, value, copy, saves, broken, crossed, behind>>

InitSettings(s) ==
    /\ setting = NoSetting /\ memory = NoSetting
    /\ phase = [r \in Savers |-> "idle"] /\ left = [r \in Savers |-> <<>>]
    /\ value = [r \in Savers |-> 0] /\ copy = [r \in Savers |-> NoSetting]
    /\ saves = s.saves /\ broken = 0
    /\ crossed = {} /\ behind = FALSE

InPhase(r, p) == phase' = [phase EXCEPT ![r] = p]

\* The client is read by all: a copy is old when a row is written after it.
Commit(r, k, v) ==
    /\ setting' = [setting EXCEPT ![k] = v]
    /\ crossed' = crossed \cup {q \in Savers \ {r} : phase[q] = "read"}

\* The keys of one form, one after another.
StartSave(r, f) ==
    /\ phase[r] = "idle" /\ saves > 0 /\ saves' = saves - 1
    /\ left' = [left EXCEPT ![r] = f]
    /\ \E v \in Values : value' = [value EXCEPT ![r] = v]
    /\ InPhase(r, "write")
    /\ UNCHANGED <<setting, memory, copy, broken, crossed, behind>>
SetSettings(r) == \E f \in Forms : StartSave(r, f)
\* Prices, feature toggles and referral settings: no key of the client.
SetBillingPricing(r) ==
    \E f \in Forms : (\A i \in DOMAIN f : f[i] \in OtherKeys) /\ StartSave(r, f)
SetToggle(r) == \E k \in OtherKeys : StartSave(r, <<k>>)

Rest(r) == IF Len(left[r]) > 1 THEN "write" ELSE "idle"

\* Mutant: the client is configured for the first key only.
RefreshOnce(r) ==
    IF Head(left[r]) \in ProxmoxKeys /\ memory = NoSetting THEN "written" ELSE Rest(r)
AfterWrite(r) == IF Head(left[r]) \in ProxmoxKeys THEN "written" ELSE Rest(r)

SetSetting(r) ==
    /\ phase[r] = "write"
    /\ Commit(r, Head(left[r]), value[r])
    /\ InPhase(r, AfterWrite(r))
    /\ left' = [left EXCEPT ![r] = IF AfterWrite(r) = "written" THEN @ ELSE Tail(@)]
    /\ UNCHANGED <<memory, value, copy, saves, broken, behind>>

\* refreshConfig: the read.
ReadConfig(r) ==
    /\ phase[r] = "written"
    /\ copy' = [copy EXCEPT ![r] = setting]
    /\ InPhase(r, "read") /\ crossed' = crossed \ {r}
    /\ UNCHANGED <<setting, memory, left, value, saves, broken, behind>>

\* The fields for which there is a row; the others keep what they have.
Overlaid(old, rows) == [k \in Keys |-> IF k \in ProxmoxKeys /\ rows[k] # 0 THEN rows[k]
                                     ELSE old[k]]
Refreshed(r) ==
    /\ InPhase(r, Rest(r)) /\ left' = [left EXCEPT ![r] = Tail(@)]
    /\ copy' = [copy EXCEPT ![r] = NoSetting] /\ crossed' = crossed \ {r}

ApplyConfig(r) ==
    /\ phase[r] = "read"
    /\ memory' = Overlaid(memory, copy[r])
    /\ behind' = (r \in crossed)
    /\ Refreshed(r)
    /\ UNCHANGED <<setting, value, saves, broken>>

\* The error is logged and the save goes on.
ReadFails(r) ==
    /\ phase[r] = "written" /\ broken < MaxFaults /\ broken' = broken + 1
    /\ behind' = TRUE
    /\ Refreshed(r)
    /\ UNCHANGED <<setting, memory, value, saves>>

\* deleteSetting: the client is not configured anew.
DeleteSetting(r) ==
    /\ phase[r] = "idle" /\ saves > 0 /\ saves' = saves - 1
    /\ \E k \in Keys : setting[k] # 0 /\ Commit(r, k, 0)
    /\ UNCHANGED <<memory, phase, left, value, copy, broken, behind>>

\* The server starts again: constructor and onModuleInit.
Restart ==
    /\ broken < MaxFaults /\ broken' = broken + 1
    /\ memory' = Overlaid(NoSetting, setting) /\ behind' = FALSE
    /\ phase' = [r \in Savers |-> "idle"] /\ left' = [r \in Savers |-> <<>>]
    /\ value' = [r \in Savers |-> 0] /\ copy' = [r \in Savers |-> NoSetting]
    /\ crossed' = {}
    /\ UNCHANGED <<setting, saves>>

Save(r) == SetSetting(r) \/ ReadConfig(r) \/ ApplyConfig(r) \/ ReadFails(r)
SettingsNext ==
    \/ \E r \in Savers :
          SetSettings(r) \/ SetBillingPricing(r) \/ SetToggle(r) \/ Save(r) \/ DeleteSetting(r)
    \/ Restart

\* When no save is under way, the client uses what the settings say: whatever
\* was saved at the same time, unless the refresh that ended last had read
\* before a later write, or had failed.
ConfigFollowsSettings ==
    (\A r \in Savers : phase[r] = "idle") /\ ~behind =>
        \A k \in ProxmoxKeys : setting[k] # 0 => memory[k] = setting[k]
=============================================================================
