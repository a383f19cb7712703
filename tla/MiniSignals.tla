----------------------------- MODULE MiniSignals -----------------------------
(***************************************************************************)
(* When the mini client signals a costly call (desktop/mini_client.py,      *)
(* maybe_signal).  Each time rows are rendered, those over the threshold    *)
(* are compared with what the last render held; in between the rows, the    *)
(* limit of rows, the threshold and the check box change, or another tab is *)
(* selected.                                                                *)
(*                                                                          *)
(* A row is known by its task and has the value `Total / Call`; one without *)
(* usage has none, and is as good as not in the list.  Another limit and    *)
(* another tab hide rows and show hidden ones, with the version unchanged.  *)
(* The name of the sound, which is part of a signal's key, stays the same.  *)
(***************************************************************************)
EXTENDS Naturals, FiniteSets

CONSTANTS
    Tasks,              \* tasks that may be in the list
    MaxValue,           \* bound: Total / Call
    Thresholds,         \* values of the threshold box; 0 switches signals off
    MaxListVersion,     \* bound: versions of the list
    MaxRenders          \* bound: renders

ASSUME SignalsAssumption ==
    /\ IsFiniteSet(Tasks) /\ Thresholds \subseteq Nat
    /\ MaxValue \in Nat /\ MaxListVersion \in Nat /\ MaxRenders \in Nat

VARIABLES
    list,           \* the tasks of all tabs: task |-> value, 0 for none
    listVersion,    \* the version they were read with
    hidden,         \* tasks of another tab or beyond the limit
    threshold,      \* the threshold box of the tab
    enabled,        \* its check box
    seen,           \* seen_signal_rows
    values,         \* signal_row_values
    initialized,    \* signal_seen_initialized
    lastThreshold,  \* last_signal_threshold, 0 for None
    lastKey,        \* last_signal_key
    signals,        \* signals played (history)
    lowest,         \* least value on screen since (history)
    highest,        \* greatest threshold since (history)
    loud,           \* tasks over the threshold when last shown (history)
    rendered,       \* the tab was rendered (history)
    renders         \* renders so far (history, bounded)

rowVars == <<list, listVersion, hidden>>

ownerVars == <<threshold, enabled>>

memoryVars == <<seen, values, initialized, lastThreshold, lastKey>>

renderHistory == <<signals, loud, rendered, renders>>

signalVars == <<rowVars, ownerVars, memoryVars, renderHistory, lowest, highest>>

Values == [Tasks -> 0 .. MaxValue]

NoRows == [t \in Tasks |-> 0]

Keys == [version : Nat, threshold : Nat, tasks : SUBSET Tasks]

NoKey == [version |-> 0, threshold |-> 0, tasks |-> {}]

SignalsTypeOK ==
    /\ {list, values, lowest} \subseteq Values
    /\ listVersion \in Nat
    /\ hidden \subseteq Tasks /\ seen \subseteq Tasks /\ loud \subseteq Tasks
    /\ threshold \in Thresholds /\ highest \in Thresholds /\ lastThreshold \in Thresholds \cup {0}
    /\ {enabled, initialized, rendered} \subseteq BOOLEAN
    /\ lastKey \in Keys
    /\ signals \in Nat /\ renders \in Nat

SignalsInit ==
    /\ list \in Values /\ listVersion = 1 /\ hidden = {}
    /\ threshold \in Thresholds /\ enabled \in BOOLEAN
    /\ seen = {} /\ values = NoRows /\ initialized = FALSE
    /\ lastThreshold = 0 /\ lastKey = NoKey
    /\ lowest = NoRows /\ highest = threshold
    /\ loud = {} /\ rendered = FALSE
    /\ signals = 0 /\ renders = 0

visible == [t \in Tasks |-> IF t \in hidden THEN 0 ELSE list[t]]

-----------------------------------------------------------------------------
(* What changes between two renders.                                       *)

\* What the owner could see, whether it was rendered or not (history)
Watched ==
    lowest' = [t \in Tasks |-> IF visible'[t] < lowest[t] THEN visible'[t] ELSE lowest[t]]

NewCalls ==
    /\ listVersion < MaxListVersion
    /\ list' \in Values \ {list}
    /\ listVersion' = listVersion + 1
    /\ UNCHANGED hidden
    /\ Watched
    /\ UNCHANGED <<ownerVars, memoryVars, renderHistory, highest>>

SetLimit ==
    /\ hidden' \in (SUBSET Tasks) \ {hidden}
    /\ UNCHANGED <<list, listVersion>>
    /\ Watched
    /\ UNCHANGED <<ownerVars, memoryVars, renderHistory, highest>>

\* switch_source forgets the former tab.
SwitchSourceOfSignals ==
    /\ hidden' \in (SUBSET Tasks) \ {hidden}
    /\ threshold' \in Thresholds
    /\ seen' = {} /\ values' = NoRows
    /\ initialized' = FALSE
    /\ lastThreshold' = 0 /\ lastKey' = NoKey
    /\ lowest' = NoRows /\ highest' = threshold'
    /\ loud' = {} /\ rendered' = FALSE
    /\ UNCHANGED <<list, listVersion, enabled, signals, renders>>

SetThreshold ==
    /\ threshold' \in Thresholds \ {threshold}
    /\ highest' = IF threshold' > highest THEN threshold' ELSE highest
    /\ UNCHANGED <<rowVars, enabled, memoryVars, renderHistory, lowest>>

ToggleSignal ==
    /\ enabled' = ~enabled
    /\ UNCHANGED <<rowVars, threshold, memoryVars, renderHistory, lowest, highest>>

-----------------------------------------------------------------------------
(* maybe_signal.                                                           *)

\* Mutant: what the row had before is not looked at.
CrossedThreshold_Always(t) == visible[t] > threshold

CrossedThreshold(t) ==
    visible[t] > threshold /\ (t \notin seen \/ values[t] <= threshold)

\* Mutant: a row just at the former threshold is taken for one over it.
CrossedLowered_Below(t) ==
    /\ threshold < lastThreshold
    /\ visible[t] > threshold
    /\ values[t] < lastThreshold

CrossedLowered(t) ==
    /\ threshold < lastThreshold
    /\ visible[t] > threshold
    /\ values[t] <= lastThreshold

OverLimit == {t \in Tasks : CrossedThreshold(t) \/ CrossedLowered(t)}

SignalKey == [version |-> listVersion, threshold |-> threshold, tasks |-> OverLimit]

PlaySignal ==
    /\ threshold > 0
    /\ initialized
    /\ enabled
    /\ OverLimit # {}
    /\ SignalKey # lastKey

\* Rows that are not shown stay what they were when they were (history).
LoudRows ==
    {t \in Tasks : visible[t] > threshold} \cup {t \in loud : visible[t] = 0}

\* The history begins anew with a signal and with the first render of a tab.
MaybeSignal ==
    /\ renders < MaxRenders
    /\ renders' = renders + 1
    /\ seen' = seen \cup {t \in Tasks : visible[t] > 0}
    /\ values' = visible
    /\ initialized' = TRUE
    /\ lastThreshold' = threshold
    /\ loud' = LoudRows /\ rendered' = TRUE
    /\ IF PlaySignal THEN lastKey' = SignalKey /\ signals' = signals + 1
       ELSE UNCHANGED <<lastKey, signals>>
    /\ IF PlaySignal \/ ~rendered THEN lowest' = visible /\ highest' = threshold
       ELSE UNCHANGED <<lowest, highest>>
    /\ UNCHANGED <<rowVars, ownerVars>>

SignalsNext ==
    \/ NewCalls \/ SetLimit \/ SwitchSourceOfSignals \/ SetThreshold \/ ToggleSignal \/ MaybeSignal

SignalsSpec == SignalsInit /\ [][SignalsNext]_signalVars

-----------------------------------------------------------------------------
(* Properties.                                                             *)

\* Some row has crossed a threshold at some time since the last signal.
SomethingCrossed == \E t \in Tasks : visible[t] > threshold /\ lowest[t] <= highest

\* A row shows over the threshold that did not when it last was shown.
NewlyLoud == \E t \in Tasks \ loud : visible[t] > threshold

LastSignalWasOfThese == lastKey.version = listVersion /\ lastKey.threshold = threshold

(***************************************************************************)
(* A render signals only if some row on screen was under a threshold or off *)
(* the screen at some time since the last signal or the first render of the *)
(* tab (maybe_signal): what has been over all that time is not signalled    *)
(* again, whatever was rendered meanwhile.  And it does signal, signals     *)
(* being on, if a row is over the threshold that was not when it was shown  *)
(* last, unless the last signal was of this very version and threshold.     *)
(***************************************************************************)
SignalsOnce ==
    [][renders' # renders =>
        /\ signals' # signals => SomethingCrossed
        /\ rendered /\ enabled /\ threshold > 0 /\ NewlyLoud /\ ~LastSignalWasOfThese
            => signals' = signals + 1]_signalVars
=============================================================================
