--------------------------- MODULE MCHttpWatchers ---------------------------
(* One request that may be aborted, with one outbound call and one more    *)
(* entry, beside a request the server refuses to record.                   *)
EXTENDS HttpWatchers

CONSTANTS page, asset, query, fetch, request

MCRequests == {page, asset}
MCWorks == {query}
MCCalls == {fetch}
MCRefused == {asset}
MCOrigin == [o \in MCCalls |-> page]

=============================================================================
