---------------------------- MODULE MCEntityClient ----------------------------
(* One call of each kind; the typed and the raw command share a request id. *)
EXTENDS EntityClient, TLC

CONSTANTS exec, start, raw

MCCalls == {exec, start, raw}
MCKind == exec :> "exec" @@ start :> "start" @@ raw :> "raw"
MCRequests == {"e", "s"}
MCReq == exec :> "e" @@ start :> "s" @@ raw :> "e"

=============================================================================
