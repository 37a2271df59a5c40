-------------------------- MODULE MiddlewareChain --------------------------
(***************************************************************************)
(* chainMiddleware of lib/avsc-rpc: the user's middleware functions around *)
(* one call, on the client's side or on the server's.  Forward they run    *)
(* one after the other, then the handler; each may leave a function for    *)
(* the way back, and those run last in, first out.  Each function calls    *)
(* back when it likes, also twice, and also long after the chain has gone  *)
(* on: the chain takes the first call and reports the others.              *)
(*                                                                         *)
(* ClientChannel and ServerChannel contain the chain with no function.     *)
(***************************************************************************)
EXTENDS Naturals, Sequences, SequencesExt

CONSTANTS
  ChainLength,   \* the number of middleware functions
  HasResponse,   \* there is a response to set: not on the client's side of a one-way message
  Errors,        \* the errors a function may call back with
  NoError,
  MaxDuplicates  \* bound: calls of a callback that are reported

ASSUME ChainAssumption ==
  /\ ChainLength \in Nat /\ MaxDuplicates \in Nat
  /\ HasResponse \in BOOLEAN
  /\ NoError \notin Errors

VARIABLES
  reached,     \* the functions called forward: 1..reached; the handler is the last
  forwarded,   \* those that have called back
  kept,        \* the functions left for the way back, by position
  left,        \* every position that ever left one
  turning,     \* the tick that starts the way back is queued
  unwound,     \* the functions of the way back that were called, in order
  returned,    \* those that have called back
  answered,    \* the response or its error is set
  cause,       \* the error on its way back
  completions, \* the causes onCompletion was called with
  duplicates   \* the callbacks reported as called twice

chainVars == <<reached, forwarded, kept, left, turning, unwound, returned, answered, cause,
               completions, duplicates>>

Handler == ChainLength + 1
Results == Errors \cup {NoError}

\* The chain is started with the call of its first function, or of the handler.
MInit ==
  /\ reached = 1
  /\ forwarded = {}
  /\ kept = <<>> /\ left = {}
  /\ turning = FALSE
  /\ unwound = <<>> /\ returned = {}
  /\ answered = FALSE
  /\ cause = NoError
  /\ completions = <<>>
  /\ duplicates = 0

\* A callback that has been called before is reported, and nothing else happens.
Duplicate ==
  /\ duplicates < MaxDuplicates
  /\ duplicates' = duplicates + 1
  /\ UNCHANGED <<reached, forwarded, kept, left, turning, unwound, returned, answered, cause,
                 completions>>

\* backward with error e: the function left last is called; when none is left the call completes.
Backward(e) ==
  /\ cause' = e
  /\ IF kept = <<>>
     THEN completions' = Append(completions, e) /\ UNCHANGED <<kept, unwound>>
     ELSE /\ unwound' = Append(unwound, Last(kept))
          /\ kept' = Front(kept)
          /\ UNCHANGED completions

\* The forward phase stops at an error, or at a function that set the response.
MutStops(e) == e # NoError
Stops(e) == e # NoError \/ answered

\* Function i calls back, with an error or with a function for the way back.
ForwardCallback(i, e, keeps) ==
  /\ i <= reached /\ i < Handler
  /\ IF i \in forwarded
     THEN Duplicate
     ELSE /\ forwarded' = forwarded \cup {i}
          /\ IF Stops(e)
             THEN Backward(e) /\ UNCHANGED <<reached, left>>
             ELSE /\ reached' = i + 1
                  /\ kept' = (IF keeps THEN Append(kept, i) ELSE kept)
                  /\ left' = (IF keeps THEN left \cup {i} ELSE left)
                  /\ UNCHANGED <<unwound, completions, cause>>
          /\ UNCHANGED <<turning, returned, answered, duplicates>>

\* The handler, which on the client's side is the exchange with the server, calls back.
HandlerDone == Handler \in forwarded

HandlerCallback(e) ==
  /\ reached = Handler
  /\ IF HandlerDone
     THEN Duplicate
     ELSE /\ forwarded' = forwarded \cup {Handler}
          /\ cause' = e
          /\ turning' = TRUE
          /\ UNCHANGED <<reached, kept, left, unwound, returned, answered, completions, duplicates>>

Turn ==
  /\ turning
  /\ turning' = FALSE
  /\ Backward(cause)
  /\ UNCHANGED <<reached, forwarded, left, returned, answered, duplicates>>

\* The function left by i calls back; its error, or none, replaces the one it was given.
BackwardCallback(i, e) ==
  /\ i \in ToSet(unwound)
  /\ IF i \in returned
     THEN Duplicate
     ELSE /\ returned' = returned \cup {i}
          /\ Backward(e)
          /\ UNCHANGED <<reached, forwarded, left, turning, answered, duplicates>>

\* Any function that was called holds the response and may set it.
SetResponse ==
  /\ HasResponse /\ ~answered
  /\ answered' = TRUE
  /\ UNCHANGED <<reached, forwarded, kept, left, turning, unwound, returned, cause, completions,
                 duplicates>>

MNext ==
  \/ \E i \in 1..ChainLength, e \in Results :
       \/ \E keeps \in BOOLEAN : ForwardCallback(i, e, keeps)
       \/ BackwardCallback(i, e)
  \/ \E e \in Results : HandlerCallback(e)
  \/ Turn
  \/ SetResponse

MSpec == MInit /\ [][MNext]_chainVars

----------------------------------------------------------------------------
(* Properties.                                                             *)

MTypeOK ==
  /\ reached \in 1..Handler
  /\ forwarded \subseteq 1..Handler
  /\ kept \in Seq(1..ChainLength) /\ left \subseteq 1..ChainLength
  /\ turning \in BOOLEAN
  /\ unwound \in Seq(1..ChainLength) /\ returned \subseteq 1..ChainLength
  /\ answered \in BOOLEAN
  /\ cause \in Results
  /\ completions \in Seq(Results)
  /\ duplicates \in 0..MaxDuplicates

\* The call completes once, whatever is called twice or late, and only when each
\* function left for the way back has run, the last left first, and has called back.
CompletesUnwound ==
  /\ Len(completions) <= 1
  /\ completions # <<>> => kept = <<>> /\ returned = left
  /\ \A i, j \in DOMAIN unwound : i < j => unwound[i] > unwound[j]

\* And once a response is set the handler is not called any more: a middleware that
\* answers by itself keeps the request from the server.
ChainUnwinds == []CompletesUnwound /\ [][answered /\ reached # Handler => reached' # Handler]_chainVars
=============================================================================
