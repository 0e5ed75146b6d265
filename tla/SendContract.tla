---------------------------- MODULE SendContract ----------------------------
(***************************************************************************)
(* What HttpClient.send promises, whatever the backend: the pieces that     *)
(* read_chunk supplies are taken one after the other, the pieces of the    *)
(* response are passed to on_chunk in order and each once, and after a      *)
(* callback asked to abort, no callback is made and the call does not      *)
(* succeed.  The call has one result: success or an error.                 *)
(***************************************************************************)
EXTENDS Naturals, Sequences

CONSTANTS Body,     \* pieces of a response, at most
          Upload    \* pieces read_chunk supplies, at most

VARIABLES sends,    \* calls that have returned
          given,    \* pieces passed to on_chunk by the current call
          taken,    \* pieces taken from read_chunk
          aborted,  \* a callback asked to abort
          result    \* "none", "success" or "error"

contractVars == <<sends, given, taken, aborted, result>>

Init == sends = 0 /\ given = <<>> /\ taken = 0 /\ aborted = FALSE /\ result = "none"

Running == result = "none" /\ ~aborted

(* read_chunk supplies a piece, or asks to abort.                          *)
TakePiece ==
  /\ Running
  /\ taken' \in {taken} \cup {n \in 1..Upload : n = taken + 1}
  /\ aborted' = (taken' = taken)
  /\ UNCHANGED <<sends, given, result>>

(* on_chunk gets the next pieces, and may ask to abort.                    *)
GivePieces ==
  /\ Running
  /\ \E n \in Len(given)..Body : given' = [i \in 1..n |-> i]
  /\ aborted' \in BOOLEAN
  /\ UNCHANGED <<sends, taken, result>>

Finish ==
  /\ result = "none"
  /\ result' \in {"error"} \cup (IF aborted THEN {} ELSE {"success"})
  /\ sends' = sends + 1
  /\ UNCHANGED <<given, taken, aborted>>

(* An error and its abort may be one step of a backend.                    *)
AbortAndFail ==
  /\ Running
  /\ aborted' = TRUE
  /\ result' = "error"
  /\ sends' = sends + 1
  /\ UNCHANGED <<given, taken>>

SendAgain ==
  /\ result # "none"
  /\ given' = <<>> /\ taken' = 0 /\ aborted' = FALSE /\ result' = "none"
  /\ UNCHANGED sends

Next == TakePiece \/ GivePieces \/ Finish \/ AbortAndFail \/ SendAgain

Spec == Init /\ [][Next]_contractVars
=============================================================================
