------------------------------- MODULE Button -------------------------------
(***************************************************************************)
(* The buttons of bootstrap.js: setState, which puts the text of a state   *)
(* on a button from a timer, and toggle for a group of radio buttons.      *)
(* Check boxes and single buttons that toggle are left out.                *)
(***************************************************************************)
EXTENDS Naturals, Sequences

CONSTANTS
    States,     \* arguments of setState, "loading" and "reset" among them
    Radios,     \* the buttons of a group, each with its input
    MaxTimers   \* bound: timers of setState that have not run

VARIABLE button

(***************************************************************************)
(* text is the state whose text is on the button, "original" before the    *)
(* first; resetText is the text that was kept, "none" at first.  timers    *)
(* are the states whose timers have not run.  asked, the last state that   *)
(* was asked for, is there to state the properties.  active and checked    *)
(* are the radio buttons with this class and property.                     *)
(***************************************************************************)
Texts == States \cup {"original"}

TypeOK ==
    button \in [text : Texts, resetText : Texts \cup {"none"},
                timers : Seq(States), isLoading : BOOLEAN,
                disabled : BOOLEAN, asked : Texts,
                active : SUBSET Radios, checked : SUBSET Radios]

Init ==
    \E r \in {{}} \cup {{x} : x \in Radios} :
        button = [text |-> "original", resetText |-> "none", timers |-> <<>>,
                  isLoading |-> FALSE, disabled |-> FALSE,
                  asked |-> "original", active |-> r, checked |-> r]

(***************************************************************************)
(* setState.  Mutant: resetText is written each time.                      *)
(***************************************************************************)
SetStateOverwrites(state) ==
    /\ Len(button.timers) < MaxTimers
    /\ button' = [button EXCEPT
                     !.resetText = button.text,
                     !.timers = Append(@, state), !.asked = state]

SetState(state) ==
    /\ Len(button.timers) < MaxTimers
    /\ button' = [button EXCEPT
                     !.resetText = IF @ = "none" THEN button.text ELSE @,
                     !.timers = Append(@, state), !.asked = state]

(***************************************************************************)
(* The function that setState has given to setTimeout: timers of 0 ms run  *)
(* in the order in which they were set.                                    *)
(***************************************************************************)
Timer ==
    /\ button.timers # <<>>
    /\ LET state == Head(button.timers)
           ran == [button EXCEPT !.timers = Tail(@),
                      !.text = IF state = "reset" THEN button.resetText
                                                  ELSE state]
       IN  button' =
             IF state = "loading"
             THEN [ran EXCEPT !.isLoading = TRUE, !.disabled = TRUE]
             ELSE [ran EXCEPT !.isLoading = FALSE,
                              !.disabled = @ /\ ~button.isLoading]

(***************************************************************************)
(* toggle by a click on the label of a radio button or on the radio button *)
(* itself: the class moves to it, and its input follows the class.         *)
(***************************************************************************)
Toggle(r) == button' = [button EXCEPT !.active = {r}, !.checked = {r}]

Next ==
    \/ \E state \in States : SetState(state)
    \/ Timer
    \/ \E r \in Radios : Toggle(r)

-----------------------------------------------------------------------------
(***************************************************************************)
(* Once the timers have run, the button is what was asked for last: locked *)
(* if that was loading, with its first text if it was reset.               *)
(***************************************************************************)
LastStateHolds ==
    button.timers = <<>> =>
        /\ button.disabled <=> button.asked = "loading"
        /\ button.text = IF button.asked = "reset" THEN "original"
                                                   ELSE button.asked
=============================================================================
