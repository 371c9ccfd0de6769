------------------------------ MODULE QueryCache ------------------------------
(***************************************************************************)
(* What the query cache of a browser tab (TanStack Query) does to one      *)
(* entry, as far as the hooks and pages rely on it.  A query fetches once  *)
(* at a time; a fetch in flight is a request, answered at the server some  *)
(* time before the answer lands in the tab.                                *)
(***************************************************************************)
CONSTANT None

\* An entry: its data, whether they count as fresh, and its fetch in flight.
NoEntry == [data |-> None, fresh |-> FALSE, fetch |-> None]

\* A request of one who shows the cookies of session by, or of nobody.
Request(by) == [by |-> by, answer |-> None]

Present(e) == e.data # None

\* A query that is fetching already is not asked again.
Fetched(e, request) == IF e.fetch = None THEN [e EXCEPT !.fetch = request] ELSE e

\* A component that uses the query mounts, or the window gets the focus back.
Refreshed(e, request) == IF e.fresh THEN e ELSE Fetched(e, request)

\* The server has the request, and answers.
Answered(e, answer) == [e EXCEPT !.fetch.answer = answer]

\* The answer arrives: an error keeps what is there, and marks it stale.
Landed(e, data) == [data |-> data, fresh |-> TRUE, fetch |-> None]
Failed(e) == [e EXCEPT !.fresh = FALSE, !.fetch = None]

\* setQueryData: a fetch in flight goes on.
Written(e, data) == [e EXCEPT !.data = data, !.fresh = TRUE]

\* staleTime is over.
Aged(e) == [e EXCEPT !.fresh = FALSE]

\* invalidateQueries: an entry no component uses is marked; one in use is fetched,
\* and a fetch in flight is abandoned for the new one, but not the very first.
Invalidated(e, used, request) ==
    IF used /\ Present(e) THEN [Aged(e) EXCEPT !.fetch = request]
    ELSE IF used THEN Fetched(e, request)
    ELSE Aged(e)

=============================================================================
