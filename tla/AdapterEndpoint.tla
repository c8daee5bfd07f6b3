---------------------------- MODULE AdapterEndpoint ----------------------------
(***************************************************************************)
(* One endpoint as an adapter's commands see it: its handle in the registry   *)
(* and the close_endpoint command, which removes the handle only after the    *)
(* endpoint has closed.  Which command answers what, before it does anything, *)
(* is a parameter here; module AdapterCommands has the table.                 *)
(***************************************************************************)
EXTENDS Naturals, Sequences, FiniteSets, TLC

CONSTANTS Adapter,               \* the adapters
          CommandAnswer(_, _, _) \* what an adapter's command answers to wrong inputs

VARIABLES adapter,   \* "node", "deno" or "tauri"
          listed,    \* the handle is in the registry
          epClosed,  \* the endpoint has closed (closed_tx)
          closing    \* how far close_endpoint is

endpointVars == <<adapter, listed, epClosed, closing>>

EndpointInit ==
    /\ adapter \in Adapter /\ listed = TRUE /\ epClosed = FALSE /\ closing = "idle"

\* get_endpoint comes before anything the command does to the endpoint.
Unlisted == IF listed THEN <<>> ELSE ("ep" :> "wrong")

Runs(cmd, wrong) == CommandAnswer(adapter, cmd, wrong @@ Unlisted) = "run"

close_starts ==
    /\ closing = "idle" /\ Runs("close", <<>>) /\ closing' = "core"
    /\ UNCHANGED <<adapter, listed, epClosed>>

\* IrohEndpoint::close or close_force.
close_core ==
    /\ closing = "core" /\ closing' = "clear" /\ epClosed' = TRUE
    /\ UNCHANGED <<adapter, listed>>

\* clear_path_change_rxs
close_clears ==
    /\ closing = "clear" /\ closing' = "remove"
    /\ UNCHANGED <<adapter, listed, epClosed>>

close_removes ==
    /\ closing = "remove" /\ closing' = "over" /\ listed' = FALSE
    /\ UNCHANGED <<adapter, epClosed>>
=============================================================================
