--------------------------- MODULE HistoricalValue ---------------------------
(***************************************************************************)
(* HistoricalValue<Contained>: the present value of something and the one  *)
(* it had before the last set().  Both the power monitor of PppConnection  *)
(* and the state machine of PowerManager detect edges by comparing them.   *)
(***************************************************************************)

\* The type, for contained values of the set S.
Historical(S) == [now: S, before: S]

\* Mutant: only slot 0 gets a value.
HistoricalValueHalf(val) == [now |-> val]

\* The constructor copies its argument into both slots.
HistoricalValue(val) == [now |-> val, before |-> val]

\* Mutant: the two assignments swapped, the history overwritten first.
SetValueSwapped(h, newVal) == [now |-> newVal, before |-> newVal]

\* set(): the present value becomes the history, whatever the new one is.
SetValue(h, newVal) == [now |-> newVal, before |-> h.now]

\* hasChanged(): did the last set() store a different value?
HasChanged(h) == h.now # h.before
==============================================================================
