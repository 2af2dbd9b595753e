------------------------------ MODULE QueryCache ------------------------------
(***************************************************************************)
(* One entry of the console's react-query cache, as the hooks of           *)
(* frontend/src use the library with its default options (main.tsx creates *)
(* a plain QueryClient).  The server's states are numbered from 1; an      *)
(* entry holds the number of the state it shows (0: undefined) and the     *)
(* number of the state that was current when the request in flight was     *)
(* sent (0: no request in flight).  The answer of a request is any state   *)
(* between the one it was sent in and the one it arrives in; the library's *)
(* own retries only delay it.                                              *)
(***************************************************************************)
EXTENDS Integers

\* What a query holds before its first request.
Empty == [data |-> 0, sent |-> 0]

\* Mount, window focus, polling: a request in flight is shared, not repeated.
Fetch(e, now) == IF e.sent = 0 THEN [e EXCEPT !.sent = now] ELSE e

\* invalidateQueries of a mounted query: the request in flight is cancelled
\* and repeated, except that the very first one is kept and shared.
Invalidate(e, now) == IF e.data = 0 THEN Fetch(e, now) ELSE [e EXCEPT !.sent = now]

\* The answers the request in flight may bring.
Answers(e, now) == IF e.sent = 0 THEN {} ELSE e.sent .. now

\* The answer replaces the data.
Answered(e, v) == [data |-> v, sent |-> 0]

\* The request failed for good: the data of an earlier answer is kept.
Failed(e) == [e EXCEPT !.sent = 0]

===============================================================================
