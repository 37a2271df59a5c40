------------------------------ MODULE RpcCalls ------------------------------
(***************************************************************************)
(* What a remote call over one channel promises its caller.  It is called  *)
(* back once, with the response to its own request or with an error.  The  *)
(* server takes a request in at most once, possibly after the caller was   *)
(* given an error; but after an error that says the request was not sent   *)
(* the server never takes it, and the caller may safely try again.         *)
(***************************************************************************)
CONSTANTS
  Calls,        \* the calls
  OneWayCalls   \* those that are not answered

VARIABLES
  phase,    \* "idle", "waiting" or "finished"
  result,   \* "none", "ok", "unsent" or "lost"
  taken     \* the calls the server has taken in

absVars == <<phase, result, taken>>

Init ==
  /\ phase = [c \in Calls |-> "idle"]
  /\ result = [c \in Calls |-> "none"]
  /\ taken = {}

Make(c) ==
  /\ phase[c] = "idle"
  /\ phase' = [phase EXCEPT ![c] = "waiting"]
  /\ UNCHANGED <<result, taken>>

Take(c) ==
  /\ phase[c] # "idle" /\ result[c] # "unsent"
  /\ c \notin taken
  /\ taken' = taken \cup {c}
  /\ UNCHANGED <<phase, result>>

\* The outcome of a call is settled before its callback runs.
Settle(c, r) ==
  /\ phase[c] = "waiting" /\ result[c] = "none"
  /\ \/ r = "ok" /\ c \in taken \cup OneWayCalls
     \/ r = "unsent" /\ c \notin taken
  /\ result' = [result EXCEPT ![c] = r]
  /\ UNCHANGED <<phase, taken>>

\* What goes wrong with a connection may lose several calls at once.
Lose(S) ==
  /\ S # {}
  /\ \A c \in S : phase[c] = "waiting" /\ result[c] = "none"
  /\ result' = [c \in Calls |-> IF c \in S THEN "lost" ELSE result[c]]
  /\ UNCHANGED <<phase, taken>>

Finish(c) ==
  /\ phase[c] = "waiting" /\ result[c] # "none"
  /\ phase' = [phase EXCEPT ![c] = "finished"]
  /\ UNCHANGED <<result, taken>>

Next == \/ \E c \in Calls : \/ Make(c) \/ Take(c) \/ Finish(c)
                            \/ \E r \in {"ok", "unsent"} : Settle(c, r)
        \/ \E S \in SUBSET Calls : Lose(S)

Spec == Init /\ [][Next]_absVars

\* Every call made is called back.
FairSpec ==
  Spec /\ \A c \in Calls : WF_absVars(\/ Finish(c) \/ Lose({c})
                                      \/ \E r \in {"ok", "unsent"} : Settle(c, r))
=============================================================================
