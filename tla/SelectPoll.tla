------------------------------ MODULE SelectPoll -----------------------------
(* The battery mode selector: the poll of its options                         *)
(* (SelectDataUpdateCoordinator) and async_select_option of select.py, which  *)
(* clears every option, sets one, and rolls back when a write fails.  One     *)
(* async_write_data is one step here (RestWrites has its inside).             *)
EXTENDS Naturals, FiniteSets

CONSTANTS
    Options,       \* the options that are settings, without "None"
    SelectCalls,   \* calls that may be under way together
    MaxSelectAge,  \* polls after which SELECT_STALE_DATA_MAX_AGE_SECONDS is over
    MaxSelects     \* bound on calls

ASSUME SelectConstants == {"None", "unread"} \cap Options = {}

VARIABLES
    flag,          \* on the inverter: the options that are "1"
    module_last_result, \* the option kept, or "unread"
    select_age,    \* age of _module_last_success_ts
    select_data,   \* coordinator.data: an option, "None", or "unread"
    select_fresh,  \* history: select_data was read by the last poll
    sel,           \* per call: where it is, the option, those still to clear, previous_option
    selects,       \* history: calls made
    disturbed      \* history: calls overlapped, an answer was lost, a rollback failed or
                   \* set out from an option that was not the inverter's

selectVars == <<flag, module_last_result, select_age, select_data, select_fresh, sel, selects, disturbed>>

NoSelect == [pc |-> "idle", option |-> "None", left |-> {}, previous |-> "None", was |-> {}]

SelectInit ==
    /\ flag \in {{}} \cup {{o} : o \in Options}
    /\ module_last_result = "unread" /\ select_age = MaxSelectAge
    /\ select_data = "unread" /\ select_fresh = FALSE
    /\ sel = [c \in SelectCalls |-> NoSelect]
    /\ selects = 0 /\ disturbed = FALSE

\* Mutant: a mode of long ago is shown while the inverter is busy.
_module_kept(age) == module_last_result # "unread"
_module_stale_cache_usable(age) == module_last_result # "unread" /\ age < MaxSelectAge

\* The first option of the list that is on; any, as the order is not modelled.
CurrentOption(on) == IF on = {} THEN {"None"} ELSE on

\* One poll: the batch is read, is refused for good (404) or fails for now.
SelectPolled(how) ==
    /\ LET aged == IF select_age < MaxSelectAge THEN select_age + 1 ELSE select_age
       IN  CASE how = "read" ->
                  /\ select_data' \in CurrentOption(flag)
                  /\ module_last_result' = select_data'
                  /\ select_age' = 0 /\ select_fresh' = TRUE
             [] how = "busy" /\ _module_stale_cache_usable(aged) ->
                  /\ select_data' = module_last_result
                  /\ select_age' = aged /\ select_fresh' = FALSE
                  /\ UNCHANGED module_last_result
             [] OTHER ->
                  /\ select_data' = "None"
                  /\ select_age' = aged /\ select_fresh' = FALSE
                  /\ UNCHANGED module_last_result
    /\ UNCHANGED <<flag, sel, selects, disturbed>>

-----------------------------------------------------------------------------

SelGoes(c, r) == sel' = [sel EXCEPT ![c] = r]

\* async_select_option up to its first write.
SelectOption(c, option) ==
    /\ selects < MaxSelects /\ selects' = selects + 1
    /\ sel[c] = NoSelect /\ select_data # "unread"
    /\ SelGoes(c, [pc |-> "clear", option |-> option, left |-> Options,
                   previous |-> select_data, was |-> flag])
    /\ disturbed' = (disturbed \/ (\E d \in SelectCalls : sel[d] # NoSelect)
                     \/ flag \ {select_data} # {} \/ (select_data # "None" /\ flag = {}))
    /\ UNCHANGED <<flag, module_last_result, select_age, select_data, select_fresh>>

\* One option is written "0"; after the last one the option is next, if it is one.
OptionCleared(c, o) ==
    /\ sel[c].pc = "clear" /\ o \in sel[c].left
    /\ flag' = flag \ {o}
    /\ LET left == sel[c].left \ {o}
       IN  SelGoes(c, IF left # {} THEN [sel[c] EXCEPT !.left = left]
                      ELSE IF sel[c].option = "None" THEN NoSelect
                      ELSE [sel[c] EXCEPT !.left = left, !.pc = "set"])
    /\ UNCHANGED <<module_last_result, select_age, select_data, select_fresh, selects, disturbed>>

OptionSet(c) ==
    /\ sel[c].pc = "set"
    /\ flag' = flag \cup {sel[c].option}
    /\ SelGoes(c, NoSelect)
    /\ UNCHANGED <<module_last_result, select_age, select_data, select_fresh, selects, disturbed>>

\* A write fails, refused or, when lost, carried out: the previous option is
\* to be set again, if there was one.
SelectWriteFails(c, lost) ==
    /\ sel[c].pc \in {"clear", "set"}
    /\ flag' \in IF ~lost THEN {flag}
                 ELSE IF sel[c].pc = "set" THEN {flag \cup {sel[c].option}}
                 ELSE {flag \ {o} : o \in sel[c].left}
    /\ disturbed' = (disturbed \/ lost)
    /\ SelGoes(c, IF sel[c].previous = "None" THEN NoSelect ELSE [sel[c] EXCEPT !.pc = "rollback"])
    /\ UNCHANGED <<module_last_result, select_age, select_data, select_fresh, selects>>

\* Mutant: the new option is tried again instead.
RetriesOption(c) == sel[c].option
\* Mutant: the roll-back writes nothing.
RollsBackNothing(c) == "None"
RollbackTo(c) == sel[c].previous

RolledBack(c, ok) ==
    /\ sel[c].pc = "rollback"
    /\ flag' = IF ok THEN flag \cup ({RollbackTo(c)} \ {"None"}) ELSE flag
    /\ disturbed' = (disturbed \/ ~ok)
    /\ SelGoes(c, NoSelect)
    /\ UNCHANGED <<module_last_result, select_age, select_data, select_fresh, selects>>

SelectNext ==
    \/ \E how \in {"read", "busy", "404"} : SelectPolled(how)
    \/ \E c \in SelectCalls :
         \/ \E o \in Options \cup {"None"} : SelectOption(c, o)
         \/ \E o \in Options : OptionCleared(c, o)
         \/ OptionSet(c)
         \/ \E b \in BOOLEAN : SelectWriteFails(c, b) \/ RolledBack(c, b)

-----------------------------------------------------------------------------

\* Two modes are never on together, failed writes and roll-backs included, as
\* long as no answer is lost, no two calls overlap and the state shown at the
\* call was the inverter's.
OneOptionOn == ~disturbed => Cardinality(flag) <= 1

\* Then a call that fails also leaves the mode that was on.
FailedSelectRestores ==
    \A c \in SelectCalls : ~disturbed' /\ sel[c].pc = "rollback" /\ sel'[c] = NoSelect
       => flag' = sel[c].was

\* A mode that was not read by the last poll is shown for less than
\* SELECT_STALE_DATA_MAX_AGE_SECONDS: "silently serving multi-minute-old mode
\* labels would mask real autonomous changes".
NoGhostMode ==
    select_data \in Options => select_fresh \/ select_age < MaxSelectAge

=============================================================================
