----------------------------- MODULE EndpointTable -----------------------------
(***************************************************************************)
(* The Tauri plugin's endpoints: the process-wide registry, the owner of each *)
(* node id, which a new endpoint with the same key replaces, the endpoint the *)
(* httpi:// scheme is bound to, and the teardown when the last window goes.   *)
(* Each lock or atomic operation is a step of its own.                        *)
(***************************************************************************)
EXTENDS Naturals, FiniteSets, TLC

CONSTANTS Endp,    \* the endpoints that are created
          KeyOf,   \* the node id of each
          First    \* the one created when the application started

Nobody == "nobody"

ASSUME TableAssumption == First \in Endp /\ Nobody \notin Endp

VARIABLES made,     \* how far create_endpoint is, per endpoint
          gone,     \* how far close_endpoint is
          slots,    \* the handles in the core registry
          owners,   \* endpoint_owners: node id -> handle
          ousted,   \* the endpoint each create replaced
          shutDown, \* the endpoints whose sockets are closed
          scheme,   \* SchemeState.active
          loaded,   \* what bind_if_unbound loaded
          window    \* the last window: "open", "clearing", "closing", "closed"

tableVars == <<made, gone, slots, owners, ousted, shutDown, scheme, loaded, window>>

Keys == {KeyOf[e] : e \in Endp}

\* The application has created its first endpoint, which bound the scheme.
TableInit ==
    /\ made = [e \in Endp |-> IF e = First THEN "made" ELSE "idle"]
    /\ gone = [e \in Endp |-> "idle"] /\ slots = {First}
    /\ owners = [k \in Keys |-> IF k = KeyOf[First] THEN First ELSE Nobody]
    /\ ousted = [e \in Endp |-> Nobody] /\ shutDown = {}
    /\ scheme = First /\ loaded = [e \in Endp |-> Nobody] /\ window = "open"

Makes(e, from, to) == made[e] = from /\ made' = [made EXCEPT ![e] = to]
Closes(e, from, to) == gone[e] = from /\ gone' = [gone EXCEPT ![e] = to]

\* JavaScript, which needs a window, asks for an endpoint and IrohEndpoint::bind
\* gives it one.
Bind(e) ==
    /\ window = "open" /\ Makes(e, "idle", "bound")
    /\ UNCHANGED <<gone, slots, owners, ousted, shutDown, scheme, loaded, window>>

\* replace_endpoint_for_node_id: registry::insert_endpoint.
insert_endpoint(e) ==
    /\ Makes(e, "bound", "inserted") /\ slots' = slots \cup {e}
    /\ UNCHANGED <<gone, owners, ousted, shutDown, scheme, loaded, window>>

\* ... the owners' insert, which returns the handle that was there.
OwnerInsert(e) ==
    /\ Makes(e, "inserted", "owner")
    /\ owners' = [owners EXCEPT ![KeyOf[e]] = e]
    /\ ousted' = [ousted EXCEPT ![e] = owners[KeyOf[e]]]
    /\ UNCHANGED <<gone, slots, shutDown, scheme, loaded, window>>

\* Fault: the replaced endpoint keeps its slot.
KeepOld(e) ==
    /\ Makes(e, "owner", "binding") /\ ousted' = [ousted EXCEPT ![e] = Nobody]
    /\ UNCHANGED <<gone, slots, owners, shutDown, scheme, loaded, window>>

\* ... and registry::remove_endpoint(old), if it still is there.
RemoveOld(e) ==
    LET old == ousted[e] IN
    /\ Makes(e, "owner", IF old \in slots THEN "replacing" ELSE "binding")
    /\ slots' = slots \ {old}
    /\ ousted' = [ousted EXCEPT ![e] = IF old \in slots THEN old ELSE Nobody]
    /\ UNCHANGED <<gone, owners, shutDown, scheme, loaded, window>>

\* create_endpoint force-closes the one it replaced.
CloseOld(e) ==
    /\ Makes(e, "replacing", "binding")
    /\ shutDown' = shutDown \cup {ousted[e]} /\ ousted' = [ousted EXCEPT ![e] = Nobody]
    /\ UNCHANGED <<gone, slots, owners, scheme, loaded, window>>

\* bind_if_unbound: load the bound handle and ask the registry for it ...
LoadScheme(e) ==
    /\ Makes(e, "binding", IF scheme # Nobody /\ scheme \notin slots
                           THEN "stale" ELSE "claiming")
    /\ loaded' = [loaded EXCEPT ![e] = scheme]
    /\ UNCHANGED <<gone, slots, owners, ousted, shutDown, scheme, window>>

\* Fault: the stale handle is cleared with a plain store.
StoreUnbound(e) ==
    /\ Makes(e, "stale", "claiming") /\ scheme' = Nobody
    /\ UNCHANGED <<gone, slots, owners, ousted, shutDown, loaded, window>>

\* ... clear it if it is dead and nobody changed it meanwhile ...
ClearStale(e) ==
    /\ Makes(e, "stale", "claiming")
    /\ scheme' = IF scheme = loaded[e] THEN Nobody ELSE scheme
    /\ UNCHANGED <<gone, slots, owners, ousted, shutDown, loaded, window>>

\* ... and claim it if it is free.
ClaimScheme(e) ==
    /\ Makes(e, "claiming", "made") /\ loaded' = [loaded EXCEPT ![e] = Nobody]
    /\ scheme' = IF scheme = Nobody THEN e ELSE scheme
    /\ UNCHANGED <<gone, slots, owners, ousted, shutDown, window>>

\* close_endpoint: get_endpoint, close, then the owner and the slot.
CloseBegins(e) ==
    /\ made[e] = "made"
    /\ Closes(e, "idle", IF e \in slots THEN "core" ELSE "invalid")
    /\ UNCHANGED <<made, slots, owners, ousted, shutDown, scheme, loaded, window>>

CloseCore(e) ==
    /\ Closes(e, "core", "owner") /\ shutDown' = shutDown \cup {e}
    /\ UNCHANGED <<made, slots, owners, ousted, scheme, loaded, window>>

remove_endpoint_owner(e) ==
    /\ Closes(e, "owner", "slot")
    /\ owners' = [k \in Keys |-> IF owners[k] = e THEN Nobody ELSE owners[k]]
    /\ UNCHANGED <<made, slots, ousted, shutDown, scheme, loaded, window>>

remove_endpoint(e) ==
    /\ Closes(e, "slot", "over") /\ slots' = slots \ {e}
    /\ UNCHANGED <<made, owners, ousted, shutDown, scheme, loaded, window>>

\* The last window is destroyed: clear the owners, drain the registry, and
\* force-close what was in it on a thread of its own.
clear_endpoint_owners ==
    /\ window = "open" /\ window' = "clearing"
    /\ owners' = [k \in Keys |-> Nobody]
    /\ UNCHANGED <<made, gone, slots, ousted, shutDown, scheme, loaded>>

close_all_endpoints ==
    /\ window = "clearing" /\ window' = "closing"
    /\ slots' = {} /\ shutDown' = shutDown \cup slots
    /\ UNCHANGED <<made, gone, owners, ousted, scheme, loaded>>

\* The application opens a window again.
Reopens ==
    /\ window = "closing" /\ window' = "open"
    /\ UNCHANGED <<made, gone, slots, owners, ousted, shutDown, scheme, loaded>>

TableSteps(e) ==
    \/ insert_endpoint(e) \/ OwnerInsert(e) \/ RemoveOld(e) \/ CloseOld(e)
    \/ LoadScheme(e) \/ ClearStale(e) \/ ClaimScheme(e)
    \/ CloseCore(e) \/ remove_endpoint_owner(e) \/ remove_endpoint(e)

TableNext ==
    \/ \E e \in Endp : Bind(e) \/ CloseBegins(e) \/ TableSteps(e)
    \/ clear_endpoint_owners \/ close_all_endpoints \/ Reopens

\* Commands that have begun go on, and so does the window's teardown.
TableFairness ==
    /\ \A e \in Endp : WF_tableVars(TableSteps(e))
    /\ WF_tableVars(close_all_endpoints)

\* Whatever creates, closes and teardowns overlap: a node id ends up with one
\* endpoint that has a handle, an endpoint that lost its handle is closed, and
\* the one with the handle is the one a later create would replace
\* (replace_endpoint_for_node_id).
OneEndpointPerKey ==
    []<>(/\ \A e, f \in slots : KeyOf[e] = KeyOf[f] => e = f
         /\ \A e \in Endp : made[e] = "made" /\ e \notin slots => e \in shutDown
         /\ \A e \in slots : made[e] = "made" => owners[KeyOf[e]] = e)

\* First wins: as long as the endpoint the httpi:// scheme is bound to has a
\* handle, no create takes the binding from it, although bind_if_unbound reads
\* the binding, asks the registry and clears it in three separate steps.
LiveBindingKept == [][scheme' # scheme => scheme \notin slots]_tableVars
=============================================================================
