------------------------------ MODULE SeqIndex ------------------------------
(***************************************************************************)
(* The indices of reliable synchronization requests.  The session actor    *)
(* (SessionActor.scala) and the C++ client (Session.cpp) keep the last     *)
(* index they accepted and decide with the same comparisons whether the    *)
(* index of another message is new.                                        *)
(***************************************************************************)
EXTENDS Integers

CONSTANTS
    IDX_WRAP_MODULE,   \* indices are 0..IDX_WRAP_MODULE - 1 (1024)
    ACK_HISTORY_SIZE   \* the server's window of indices it accepts (32)

ASSUME IndexAssumption ==
    /\ IDX_WRAP_MODULE \in Nat
    /\ ACK_HISTORY_SIZE \in Nat
    /\ 0 < ACK_HISTORY_SIZE
    /\ ACK_HISTORY_SIZE < IDX_WRAP_MODULE

Indices == 0..(IDX_WRAP_MODULE - 1)

(***************************************************************************)
(* The index of a request that is not reliable.                            *)
(***************************************************************************)
Unreliable == IDX_WRAP_MODULE + 1

NextIdx(idx) == IF idx < IDX_WRAP_MODULE - 1 THEN idx + 1 ELSE 0

(***************************************************************************)
(* Mutant: every smaller index is taken to have come round.                *)
(***************************************************************************)
AcceptsSmaller(window, last, idx) ==
    /\ idx # last
    /\ idx < last \/ idx - last < window

(***************************************************************************)
(* checkAcknowledgement answers TRUE.  window is ACK_HISTORY_SIZE at the   *)
(* server and MESSSAGES_BUFFER_SIZE at the client.  The last branch of the *)
(* code repeats the condition of the second one, so an index that was      *)
(* overtaken is never accepted and the history bits decide nothing.        *)
(***************************************************************************)
Accepts(window, last, idx) ==
    /\ idx # last
    /\ \/ idx > last /\ idx - last < window
       \/ /\ IDX_WRAP_MODULE + idx > last
          /\ IDX_WRAP_MODULE + idx - last < window

(***************************************************************************)
(* Reference: how far idx is ahead of last on the circle of indices.       *)
(***************************************************************************)
Ahead(last, idx) == (IDX_WRAP_MODULE + idx - last) % IDX_WRAP_MODULE

(***************************************************************************)
(* An index is new when it is less than the window ahead of the last one   *)
(* on the circle of indices, across the wrap as well as before it: the     *)
(* comparisons of checkAcknowledgement never take an old index for a new   *)
(* one.                                                                    *)
(***************************************************************************)
AcceptsWindow ==
    \A window \in 1..IDX_WRAP_MODULE :
        \A last, idx \in Indices :
            Accepts(window, last, idx) <=> Ahead(last, idx) \in 1..(window - 1)

=============================================================================
